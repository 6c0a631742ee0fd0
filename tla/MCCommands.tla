----------------------------- MODULE MCCommands -----------------------------
(* up is one program: each behaviour is of one of its commands, or of those *)
(* that share a state, in the instances of the modules extended here.       *)
EXTENDS MCMigration, MCLanguageServer, MCCtxNavigation, MCSpaceInstall, MCUsageReport, MCTrace,
        MCSpaceMirror, PackageInstall, Configuration, WebLogin, ConsoleCommands
VARIABLE doing

commandsVars == <<doing, migrationVars, packageVars, navigationVars, configurationVars,
                  webLoginVars, installVars, usageVars, consoleVars, traceVars,
                  packageInstallVars, mirrorVars>>

\* The commands not run stay where they begin, in one state; each is cut down
\* to it before the next begins.  The navigation starts in the middle of the
\* tree; the hour after every billing period has events, which no report may
\* hold.
CommandsInit ==
    /\ doing \in {"migration", "dep", "xpls", "ctx", "profile", "login", "space", "billing",
                  "console", "trace", "install", "mirror"}
    /\ MigrationInit /\ PackageInit /\ ConfigurationInit /\ WebLoginInit /\ ConsoleInit
    /\ NavigationInit /\ current = <<"org", "s", "g">>
    /\ InstallInit /\ (doing # "space" => namespace = "absent" /\ brought = {})
    /\ UsageInit /\ store.events[Hours] = MCAfter
    /\ doing # "billing" => /\ store = [provider |-> "aws", events |-> [h \in 0 .. Hours |-> store.events[Hours]]]
                            /\ report = "absent"
    /\ TraceInit
    /\ doing # "trace" => /\ space = [o \in Traced |-> "absent"]
                          /\ asked = [kinds |-> {"bucket"}, categories |-> {}]
                          /\ screen = "polling"
    /\ PackageInstallInit /\ (doing # "install" => DOMAIN present = {})
    /\ SpaceMirrorInit /\ (doing # "mirror" => directory = "absent")

CommandsNext ==
    /\ \/ doing = "migration" /\ MigrationWithOneChange
       \/ doing = "dep" /\ TwoCommands
       \/ doing = "xpls" /\ OneCommand
       \/ doing = "ctx" /\ NavigationNext
       \/ doing = "profile" /\ ConfigurationNext
       \/ doing = "login" /\ WebLoginNext
       \/ doing = "space" /\ InstallNext
       \/ doing = "billing" /\ UsageNext
       \/ doing = "console" /\ ConsoleNext
       \/ doing = "trace" /\ TraceNext
       \/ doing = "install" /\ PackageInstallNext
       \/ doing = "mirror" /\ SpaceMirrorNext
    /\ UNCHANGED doing
    /\ doing # "migration" => UNCHANGED migrationVars
    /\ doing \notin {"dep", "xpls"} => UNCHANGED packageVars
    /\ doing # "ctx" => UNCHANGED navigationVars
    /\ doing # "profile" => UNCHANGED configurationVars
    /\ doing # "login" => UNCHANGED webLoginVars
    /\ doing # "space" => UNCHANGED installVars
    /\ doing # "billing" => UNCHANGED usageVars
    /\ doing # "console" => UNCHANGED consoleVars
    /\ doing # "trace" => UNCHANGED traceVars
    /\ doing # "install" => UNCHANGED packageInstallVars
    /\ doing # "mirror" => UNCHANGED mirrorVars

CommandsSpec == CommandsInit /\ [][CommandsNext]_commandsVars
=============================================================================
