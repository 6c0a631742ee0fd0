-------------------------- MODULE MCLanguageServer --------------------------
(* A package with one dependency; the workspace depends on the package. *)
EXTENDS LanguageServer
CONSTANTS s3Provider, family

MCPackages == {s3Provider, family}
MCVersions == {1, 2}
MCPackageDeps == [key \in MCPackages \X MCVersions |->
    IF key[1] = s3Provider THEN <<[pkg |-> family, allowed |-> {1}]>> ELSE <<>>]
MCPublished == {<<s3Provider, 1>>, <<family, 1>>}
MCWanted == "get" :> {[pkg |-> s3Provider, allowed |-> {1, 2}]} @@ "all" :> {}
MCDepCommands == {"get", "all"}
MCPushed == {<<s3Provider, 1>>, <<s3Provider, 2>>}

\* Two commands and a tag that is pushed, or one command beside the server,
\* which finds the cache empty: another tag would change the version stored.
\* The server rests while the command only reads, what it does not see; and a
\* document is edited only before the first package is stored, or while its
\* entry is begun and goes no further.
TwoCommands == (\E c \in DepCommands : Dep(c)) \/ Push
Reads ==
    \/ command["get"].step \in {"get", "fetch"}
    \/ command["get"].step = "resolve" /\ command["get"].todo # <<>>
OneCommand ==
    \/ Dep("get") /\ (document.editor > 0 => command'["get"].step # "meta")
    \/ Serve /\ ~Reads
    \/ Editor /\ command["get"].step \in {"idle", "create"} /\ command["get"].first = NoKey
ServerSpec == PackageInit /\ [][OneCommand]_packageVars
MCDeclared == {[pkg |-> s3Provider, allowed |-> {1, 2}]}
=============================================================================
