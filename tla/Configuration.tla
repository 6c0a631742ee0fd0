--------------------------- MODULE Configuration ---------------------------
(***************************************************************************)
(* The configuration file: profiles with their sessions, and the default   *)
(* among them.  Commands read it whole when they start, ask the server,    *)
(* and write it whole when they end: the file is truncated first and       *)
(* written from its beginning.  Nothing keeps two commands apart.          *)
(***************************************************************************)
EXTENDS Naturals, FiniteSets

CONSTANTS
    Processes,   \* processes of up and of the docker credential helper
    Profiles,    \* names of profiles
    DefaultName, \* the name a first login gives its profile
    MaxCommands, \* bound: commands
    MaxSessions  \* bound: sessions

ASSUME ConfigurationAssumption == DefaultName \in Profiles

VARIABLES
    file,      \* the file: nothing, empty, a configuration or no JSON
    process,   \* [Processes -> the command and how far it is]
    valid,     \* the sessions the server takes
    issued,    \* the sessions it has issued
    told,      \* what the commands that said they succeeded have made of it
    commands,  \* the commands started
    alone      \* did no two commands meet and none die with the file empty

configurationVars == <<file, process, valid, issued, told, commands, alone>>

None == "none"
NoProfile == [session |-> 0, base |-> FALSE, exists |-> FALSE]
EmptyConfig == [default |-> None, profiles |-> [n \in Profiles |-> NoProfile]]
Exists(conf, n) == n \in Profiles /\ conf.profiles[n].exists
IdleProcess == [op |-> None, name |-> None, step |-> "idle", conf |-> EmptyConfig, session |-> 0]
-----------------------------------------------------------------------------
(* The file *)

\* Its length, as far as two configurations can differ in it.
LengthOf(conf) ==
    LET with(P(_)) == Cardinality({n \in Profiles : P(conf.profiles[n])})
    IN  with(LAMBDA p : p.exists) + with(LAMBDA p : p.session > 0) + with(LAMBDA p : p.base)

Holds(conf) == [kind |-> "conf", conf |-> conf]
Other(kind) == [kind |-> kind, conf |-> EmptyConfig]

\* Initialize makes an empty file; an empty file is an empty configuration.
GetConfig == {file.conf : k \in {file.kind} \cap {"none", "empty", "conf"}}

\* A shorter configuration over a longer one, which another command has
\* written since this one truncated the file, leaves the end of that one.
Overwritten(conf) ==
    IF file.kind = "garbled" \/ (file.kind = "conf" /\ LengthOf(file.conf) > LengthOf(conf))
    THEN Other("garbled") ELSE Holds(conf)
-----------------------------------------------------------------------------
(* The operations of a configuration *)

AddOrUpdateUpboundProfile(conf, n, p) == [conf EXCEPT !.profiles[n] = p]

SetDefaultUnchecked(conf, n) == \* Mutant: the profile is not looked up
    {[conf EXCEPT !.default = n]}

SetDefaultUpboundProfile(conf, n) == {[conf EXCEPT !.default = n] : x \in {y \in {n} : Exists(conf, y)}}

\* The profile a command works with: the one of its flag, or the default one.
GetDefaultUpboundProfile(conf) == IF Exists(conf, conf.default) THEN conf.default ELSE None
Named(conf, flag) == IF flag = None THEN GetDefaultUpboundProfile(conf) ELSE flag
ProfileOf(conf, n) == IF Exists(conf, n) THEN conf.profiles[n] ELSE NoProfile

\* A login makes the profile anew but for its settings; settings always are
\* those of the default profile, whatever the flag says.
SetSessionAlone(c) == \* Mutant: the settings are not carried over
    SetDefaultUpboundProfile(
        AddOrUpdateUpboundProfile(c.conf, c.name, [session |-> c.session, base |-> FALSE, exists |-> TRUE]), c.name)

SetSession(c) ==
    LET p == [session |-> c.session, base |-> ProfileOf(c.conf, c.name).base, exists |-> TRUE]
    IN  SetDefaultUpboundProfile(AddOrUpdateUpboundProfile(c.conf, c.name, p), c.name)

SetBase(conf, b) ==
    {[conf EXCEPT !.profiles[n].base = b] : n \in {GetDefaultUpboundProfile(conf)} \ {None}}

\* The configuration to be written, if the command gets that far.
Changed(c) ==
    CASE c.op = "login" -> SetSession(c)
      [] c.op = "logout" -> {AddOrUpdateUpboundProfile(c.conf, c.name, [ProfileOf(c.conf, c.name) EXCEPT !.session = 0, !.exists = TRUE])}
      [] c.op = "use" -> SetDefaultUpboundProfile(c.conf, c.name)
      [] c.op = "set" -> SetBase(c.conf, TRUE)
      [] c.op = "unset" -> SetBase(c.conf, FALSE)
-----------------------------------------------------------------------------
(* A command *)

Set(p, c) == process' = [process EXCEPT ![p] = c]
Others(p) == {q \in Processes \ {p} : process[q].step # "idle"}

\* NewFromFlags.  login and the profile commands take a profile that does not
\* exist.
Begin(p, op, flag) ==
    /\ process[p].step = "idle" /\ commands < MaxCommands
    /\ commands' = commands + 1
    /\ file' = IF file.kind = "none" THEN Other("empty") ELSE file
    /\ alone' = (alone /\ Others(p) = {})
    /\ \/ \E conf \in GetConfig :
            LET n == IF op = "login" /\ Named(conf, flag) = None THEN DefaultName ELSE Named(conf, flag) IN
            /\ op = "logout" /\ flag # None => Exists(conf, flag)
            /\ Set(p, [op |-> op, name |-> n, step |-> "read", conf |-> conf, session |-> 0])
       \/ /\ \/ GetConfig = {}
             \/ op = "logout" /\ flag # None /\ \A conf \in GetConfig : ~Exists(conf, flag)
          /\ UNCHANGED process
    /\ UNCHANGED <<valid, issued, told>>

\* login and logout ask the server, and end if it refuses or its answer is lost.
AskLogin(p) ==
    /\ process[p].op = "login" /\ process[p].step = "read" /\ issued < MaxSessions
    /\ issued' = issued + 1 /\ valid' = valid \cup {issued'}
    /\ \/ Set(p, [process[p] EXCEPT !.step = "asked", !.session = issued'])
       \/ Set(p, IdleProcess)
    /\ UNCHANGED <<file, told, commands, alone>>

AskLogout(p) ==
    /\ process[p].op = "logout" /\ process[p].step = "read"
    /\ LET s == ProfileOf(process[p].conf, process[p].name).session IN
       \/ /\ s \in valid /\ valid' = valid \ {s}
          /\ \/ Set(p, [process[p] EXCEPT !.step = "asked"])
             \/ Set(p, IdleProcess)
       \/ Set(p, IdleProcess) /\ UNCHANGED valid
    /\ UNCHANGED <<file, issued, told, commands, alone>>

\* UpdateConfig: the file is truncated when it is opened.
Ready(p) == process[p].step = (IF process[p].op \in {"login", "logout"} THEN "asked" ELSE "read")

Truncate(p) ==
    /\ Ready(p)
    /\ \/ \E conf \in Changed(process[p]) :
            /\ Set(p, [process[p] EXCEPT !.conf = conf, !.step = "truncated"])
            /\ file' = Other("empty")
       \/ Changed(process[p]) = {} /\ Set(p, IdleProcess) /\ UNCHANGED file
    /\ UNCHANGED <<valid, issued, told, commands, alone>>

Promised(c) ==
    CASE c.op = "login" -> [told EXCEPT !.default = c.name, !.profiles[c.name].session = c.session,
                                        !.profiles[c.name].exists = TRUE]
      [] c.op = "logout" -> [told EXCEPT !.profiles[c.name].session = 0, !.profiles[c.name].exists = TRUE]
      [] c.op = "use" -> [told EXCEPT !.default = c.name]
      [] OTHER -> [told EXCEPT !.profiles[told.default].base = (c.op = "set")]

Write(p) ==
    /\ process[p].step = "truncated"
    /\ file' = Overwritten(process[p].conf)
    /\ told' = IF alone THEN Promised(process[p]) ELSE EmptyConfig
    /\ Set(p, IdleProcess)
    /\ UNCHANGED <<valid, issued, commands, alone>>

KillCommand(p) ==
    /\ process[p].step # "idle"
    /\ Set(p, IdleProcess)
    /\ alone' = (alone /\ process[p].step # "truncated")
    /\ UNCHANGED <<file, valid, issued, told, commands>>
-----------------------------------------------------------------------------
ConfigurationInit ==
    /\ file = Other("none")
    /\ process = [p \in Processes |-> IdleProcess]
    /\ valid = {} /\ issued = 0
    /\ told = EmptyConfig /\ commands = 0 /\ alone = TRUE

ConfigurationNext ==
    \E p \in Processes :
        \/ \E op \in {"login", "logout", "use", "set", "unset"}, flag \in Profiles \cup {None} :
            (op = "use" => flag # None) /\ Begin(p, op, flag)
        \/ AskLogin(p) \/ AskLogout(p) \/ Truncate(p) \/ Write(p) \/ KillCommand(p)

ConfigurationSpec == ConfigurationInit /\ [][ConfigurationNext]_configurationVars
-----------------------------------------------------------------------------
(* As long as no two commands meet and none dies with the file empty, the  *)
(* file is what the commands that succeeded have promised, taken one after *)
(* the other: a login touches its own profile and keeps its settings, a    *)
(* logout takes one session away, nothing is lost (config.go, login.go).   *)
ConfigIsTold ==
    alone /\ (\A p \in Processes : process[p].step # "truncated") => file.conf = told

(* Whatever commands meet or die, and whichever of them loses its change, *)
(* the file never names a default profile that it does not hold            *)
(* (config.go, SetDefaultUpboundProfile).                                  *)
DefaultExists ==
    file.conf.default # None => Exists(file.conf, file.conf.default)
=============================================================================
