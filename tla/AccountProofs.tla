--------------------------- MODULE AccountProofs ----------------------------
(***************************************************************************)
(* What up keeps of its user: the configuration file with its profiles,    *)
(* the login in a browser and what the console has of an organization.     *)
(***************************************************************************)
EXTENDS Configuration, WebLogin, ConsoleCommands, FiniteSetTheorems, TLAPS

-----------------------------------------------------------------------------
(***************************************************************************)
(* The configuration file never names a default profile it does not hold,  *)
(* and holds what the commands that succeeded were told, for any number of *)
(* commands, processes, profiles and sessions.                             *)
(***************************************************************************)
Profile == [session : Nat, base : BOOLEAN, exists : BOOLEAN]
Config == [default : Profiles \cup {None}, profiles : [Profiles -> Profile]]
Command == [op : {"login", "logout", "use", "set", "unset", None}, name : Profiles \cup {None},
            step : {"idle", "read", "asked", "truncated"}, conf : Config, session : Nat]

\* A configuration a command may read, hold or write.
Consistent(conf) == conf \in Config /\ (conf.default # None => Exists(conf, conf.default))

CommandInv(c) ==
    /\ Consistent(c.conf)
    /\ c.op = "login" => c.name \in Profiles
    /\ c.step # "idle" => c.op # None

\* Each command holds a consistent configuration, the one it read or the one
\* it is about to write: the file may become either.
ConfigInv ==
    /\ file \in [kind : {"none", "empty", "conf", "garbled"}, conf : Config]
    /\ Consistent(file.conf)
    /\ process \in [Processes -> Command]
    /\ \A p \in Processes : CommandInv(process[p])
    /\ issued \in Nat
-----------------------------------------------------------------------------
(* An empty configuration is consistent. *)
LEMMA EmptyIsConsistent ==
    Consistent(EmptyConfig) /\ IdleProcess \in Command /\ CommandInv(IdleProcess)
<1>1. EmptyConfig \in Config /\ EmptyConfig.default = None
  BY DEF EmptyConfig, Config, Profile, NoProfile
<1>2. Consistent(EmptyConfig)
  BY <1>1 DEF Consistent
<1> QED
  BY <1>1, <1>2 DEF IdleProcess, Command, CommandInv, None

(* The profile that a change starts from, there or not. *)
LEMMA ProfileOfType ==
    ASSUME NEW conf \in Config, NEW n PROVE ProfileOf(conf, n) \in Profile
BY DEF ProfileOf, Config, Profile, NoProfile, Exists

(* A profile that is put keeps the default one there, as long as it exists. *)
LEMMA PutIsConsistent ==
    ASSUME NEW conf, Consistent(conf), NEW n, NEW q \in Profile, q.exists
    PROVE  Consistent(AddOrUpdateUpboundProfile(conf, n, q))
<1> DEFINE new == AddOrUpdateUpboundProfile(conf, n, q)
<1>1. new.default = conf.default /\ new \in Config
  BY DEF Consistent, Config, AddOrUpdateUpboundProfile
<1>2. \A k \in Profiles : new.profiles[k] = IF k = n THEN q ELSE conf.profiles[k]
  BY DEF Consistent, Config, AddOrUpdateUpboundProfile
<1> QED
  BY <1>1, <1>2 DEF Consistent, Exists

(* The default is set to a profile that is there, or not at all. *)
LEMMA DefaultIsConsistent ==
    ASSUME NEW conf, Consistent(conf), NEW n \in Profiles \cup {None},
           NEW new \in SetDefaultUpboundProfile(conf, n)
    PROVE  Consistent(new)
<1>1. new = [conf EXCEPT !.default = n] /\ Exists(conf, n)
  BY DEF SetDefaultUpboundProfile
<1> QED
  BY <1>1 DEF Consistent, Config, Exists

(* Settings change nothing else. *)
LEMMA BaseIsConsistent ==
    ASSUME NEW conf, Consistent(conf), NEW b \in BOOLEAN, NEW new \in SetBase(conf, b)
    PROVE  Consistent(new)
<1>1. PICK n : new = [conf EXCEPT !.profiles[n].base = b]
  BY DEF SetBase
<1>2. new.default = conf.default /\ new \in Config
  <2>1. conf \in Config /\ conf.profiles \in [Profiles -> Profile]
    BY DEF Consistent, Config
  <2>2. PICK profiles : profiles = [conf.profiles EXCEPT ![n].base = b]
    OBVIOUS
  <2>3. profiles \in [Profiles -> Profile]
    BY <2>1, <2>2 DEF Profile
  <2>4. new = [conf EXCEPT !.profiles = profiles]
    BY <1>1, <2>2
  <2> QED
    BY <2>1, <2>3, <2>4 DEF Config
<1>3. \A k \in Profiles : new.profiles[k].exists = conf.profiles[k].exists
  BY <1>1 DEF Consistent, Config, Profile
<1> QED
  BY <1>2, <1>3 DEF Consistent, Exists

(* So what any command writes is consistent if what it read was. *)
LEMMA ChangedIsConsistent ==
    ASSUME NEW c \in Command, Consistent(c.conf), c.op = "login" => c.name \in Profiles,
           c.op # None, NEW new \in Changed(c)
    PROVE  Consistent(new)
<1>1. CASE c.op = "login"
  <2> DEFINE q == [session |-> c.session, base |-> ProfileOf(c.conf, c.name).base, exists |-> TRUE]
  <2>1. q \in Profile /\ q.exists
    BY ProfileOfType DEF Command, Profile, Consistent
  <2>2. Consistent(AddOrUpdateUpboundProfile(c.conf, c.name, q))
    BY <2>1, PutIsConsistent
  <2>3. new \in SetDefaultUpboundProfile(AddOrUpdateUpboundProfile(c.conf, c.name, q), c.name)
    BY <1>1 DEF Changed, SetSession
  <2>4. c.name \in Profiles
    BY <1>1
  <2> HIDE DEF q
  <2> QED
    BY <2>2, <2>3, <2>4, DefaultIsConsistent
<1>2. CASE c.op = "logout"
  <2> DEFINE q == [ProfileOf(c.conf, c.name) EXCEPT !.session = 0, !.exists = TRUE]
  <2>1. q \in Profile /\ q.exists
    BY ProfileOfType DEF Profile, Consistent
  <2>2. new = AddOrUpdateUpboundProfile(c.conf, c.name, q)
    BY <1>2 DEF Changed
  <2> HIDE DEF q
  <2> QED
    BY <2>1, <2>2, PutIsConsistent
<1>3. CASE c.op = "use"
  <2>1. new \in SetDefaultUpboundProfile(c.conf, c.name) /\ c.name \in Profiles \cup {None}
    BY <1>3 DEF Changed, Command
  <2> QED
    BY <2>1, DefaultIsConsistent
<1>4. CASE c.op = "set"
  BY <1>4, BaseIsConsistent DEF Changed
<1>5. CASE c.op = "unset"
  BY <1>5, BaseIsConsistent DEF Changed
<1> QED
  BY <1>1, <1>2, <1>3, <1>4, <1>5 DEF Command
-----------------------------------------------------------------------------
(* The invariant holds at the start. *)
LEMMA ConfigInitInv == ConfigurationInit => ConfigInv
BY EmptyIsConsistent DEF ConfigurationInit, ConfigInv, Other, Consistent

(* A command that ends, or goes on with a consistent configuration. *)
LEMMA SetCommand ==
    ASSUME ConfigInv, NEW p \in Processes, NEW c \in Command, Set(p, c), CommandInv(c)
    PROVE  process' \in [Processes -> Command] /\ \A q \in Processes : CommandInv(process'[q])
BY DEF ConfigInv, Set

LEMMA SetIdle ==
    ASSUME ConfigInv, NEW p \in Processes, Set(p, IdleProcess)
    PROVE  process' \in [Processes -> Command] /\ \A q \in Processes : CommandInv(process'[q])
BY EmptyIsConsistent, SetCommand

(* A command reads what is in the file, and login names a profile. *)
LEMMA BeginInv ==
    ASSUME ConfigInv, NEW p \in Processes, NEW op \in {"login", "logout", "use", "set", "unset"},
           NEW flag \in Profiles \cup {None}, Begin(p, op, flag)
    PROVE  ConfigInv'
<1>1. file' \in [kind : {"none", "empty", "conf", "garbled"}, conf : Config] /\ Consistent(file'.conf)
  <2>1. file' = file \/ file' = Other("empty")
    BY DEF Begin
  <2> QED
    BY <2>1, EmptyIsConsistent DEF ConfigInv, Other, Consistent
<1>2. issued' = issued
  BY DEF Begin
<1>3. CASE UNCHANGED process
  BY <1>1, <1>2, <1>3 DEF ConfigInv
<1>4. CASE ~UNCHANGED process
  <2> DEFINE N(conf) == IF op = "login" /\ Named(conf, flag) = None THEN DefaultName ELSE Named(conf, flag)
             C(conf) == [op |-> op, name |-> N(conf), step |-> "read", conf |-> conf, session |-> 0]
  <2>1. PICK conf \in GetConfig : Set(p, C(conf))
    BY <1>4 DEF Begin
  <2>2. conf = file.conf /\ Consistent(conf) /\ conf \in Config
    BY <2>1 DEF GetConfig, ConfigInv, Consistent
  <2>3. Named(conf, flag) \in Profiles \cup {None}
    BY DEF Named, GetDefaultUpboundProfile, Exists
  <2>4. N(conf) \in Profiles \cup {None} /\ (op = "login" => N(conf) \in Profiles)
    BY <2>3, ConfigurationAssumption
  <2> HIDE DEF N
  <2>5. C(conf) \in Command /\ CommandInv(C(conf))
    BY <2>2, <2>4 DEF Command, CommandInv, None
  <2> HIDE DEF C
  <2>6. process' \in [Processes -> Command] /\ \A q \in Processes : CommandInv(process'[q])
    BY <2>1, <2>5, SetCommand
  <2> QED
    BY <1>1, <1>2, <2>6 DEF ConfigInv
<1> QED
  BY <1>3, <1>4

(* What a command is about to write is consistent. *)
LEMMA TruncateInv == ASSUME ConfigInv, NEW p \in Processes, Truncate(p) PROVE ConfigInv'
<1> DEFINE c == process[p]
<1>1. c \in Command /\ CommandInv(c) /\ c.op # None
  BY DEF ConfigInv, CommandInv, Truncate, Ready
<1>2. issued' = issued
  BY DEF Truncate
<1>3. CASE Set(p, IdleProcess) /\ UNCHANGED file
  BY <1>2, <1>3, SetIdle DEF ConfigInv
<1>4. CASE ~(Set(p, IdleProcess) /\ UNCHANGED file)
  <2>1. PICK conf \in Changed(c) : /\ Set(p, [c EXCEPT !.conf = conf, !.step = "truncated"])
                                   /\ file' = Other("empty")
    BY <1>4 DEF Truncate
  <2>2. Consistent(conf) /\ conf \in Config
    <3>1. Consistent(conf)
      BY <1>1, <2>1, ChangedIsConsistent DEF CommandInv
    <3> QED
      BY <3>1 DEF Consistent
  <2> DEFINE d == [c EXCEPT !.conf = conf, !.step = "truncated"]
  <2>3. d \in Command /\ d.conf = conf /\ d.op = c.op /\ d.name = c.name
    BY <1>1, <2>2 DEF Command
  <2>4. CommandInv(d)
    BY <1>1, <2>2, <2>3 DEF CommandInv
  <2>5. file' \in [kind : {"none", "empty", "conf", "garbled"}, conf : Config] /\ Consistent(file'.conf)
    BY <2>1, EmptyIsConsistent DEF Other, Consistent
  <2> HIDE DEF d, c
  <2>6. process' \in [Processes -> Command] /\ \A q \in Processes : CommandInv(process'[q])
    <3>1. Set(p, d)
      BY <2>1 DEF d
    <3> QED
      BY <2>3, <2>4, <3>1, SetCommand
  <2> QED
    BY <1>2, <2>5, <2>6 DEF ConfigInv
<1> QED
  BY <1>3, <1>4

(* What is written is that, or no JSON at all. *)
LEMMA WriteInv == ASSUME ConfigInv, NEW p \in Processes, Write(p) PROVE ConfigInv'
<1>1. Consistent(process[p].conf)
  BY DEF ConfigInv, CommandInv
<1>2. file' = Other("garbled") \/ file' = Holds(process[p].conf)
  BY DEF Write, Overwritten
<1>3. file' \in [kind : {"none", "empty", "conf", "garbled"}, conf : Config] /\ Consistent(file'.conf)
  BY <1>1, <1>2, EmptyIsConsistent DEF Other, Holds, Consistent
<1>4. Set(p, IdleProcess) /\ issued' = issued
  BY DEF Write
<1> QED
  BY <1>3, <1>4, SetIdle DEF ConfigInv

(* Asking the server changes no configuration. *)
LEMMA AskInv ==
    ASSUME ConfigInv, NEW p \in Processes, AskLogin(p) \/ AskLogout(p) PROVE ConfigInv'
<1>1. file' = file /\ issued' \in Nat
  BY DEF AskLogin, AskLogout, ConfigInv
<1>2. CASE Set(p, IdleProcess)
  BY <1>1, <1>2, SetIdle DEF ConfigInv
<1>3. CASE ~Set(p, IdleProcess)
  <2>1. PICK k \in Nat : Set(p, [process[p] EXCEPT !.step = "asked", !.session = k])
    <3>1. CASE AskLogin(p)
      BY <1>1, <1>3, <3>1 DEF AskLogin
    <3>2. CASE AskLogout(p)
      <4>1. process[p] \in Command /\ Set(p, [process[p] EXCEPT !.step = "asked"])
        BY <1>3, <3>2 DEF AskLogout, ConfigInv
      <4>2. [process[p] EXCEPT !.step = "asked"]
             = [process[p] EXCEPT !.step = "asked", !.session = process[p].session]
        BY <4>1 DEF Command
      <4>3. process[p].session \in Nat
        BY <4>1 DEF Command
      <4> QED
        BY <4>1, <4>2, <4>3
    <3> QED
      BY <3>1, <3>2
  <2> DEFINE c == process[p]
             d == [c EXCEPT !.step = "asked", !.session = k]
  <2>2. c \in Command /\ CommandInv(c) /\ c.op # None
    BY DEF ConfigInv, CommandInv, AskLogin, AskLogout, None
  <2>3. d \in Command /\ d.conf = c.conf /\ d.op = c.op /\ d.name = c.name
    BY <2>2 DEF Command
  <2>4. CommandInv(d)
    BY <2>2, <2>3 DEF CommandInv
  <2> HIDE DEF d
  <2>5. process' \in [Processes -> Command] /\ \A q \in Processes : CommandInv(process'[q])
    <3>1. Set(p, d)
      BY <2>1 DEF d
    <3> QED
      BY <2>3, <2>4, <3>1, SetCommand
  <2> QED
    BY <1>1, <2>5 DEF ConfigInv
<1> QED
  BY <1>2, <1>3

(* No step breaks the invariant. *)
LEMMA ConfigNextInv == ConfigInv /\ [ConfigurationNext]_configurationVars => ConfigInv'
<1> SUFFICES ASSUME ConfigInv, [ConfigurationNext]_configurationVars PROVE ConfigInv'
  OBVIOUS
<1>1. ASSUME NEW p \in Processes, NEW op \in {"login", "logout", "use", "set", "unset"},
             NEW flag \in Profiles \cup {None}, Begin(p, op, flag)
      PROVE  ConfigInv'
  BY <1>1, BeginInv
<1>2. ASSUME NEW p \in Processes, AskLogin(p) \/ AskLogout(p) PROVE ConfigInv'
  BY <1>2, AskInv
<1>3. ASSUME NEW p \in Processes, Truncate(p) PROVE ConfigInv'
  BY <1>3, TruncateInv
<1>4. ASSUME NEW p \in Processes, Write(p) PROVE ConfigInv'
  BY <1>4, WriteInv
<1>5. ASSUME NEW p \in Processes, KillCommand(p) PROVE ConfigInv'
  <2>1. Set(p, IdleProcess) /\ UNCHANGED <<file, issued>>
    BY <1>5 DEF KillCommand
  <2> QED
    BY <2>1, SetIdle DEF ConfigInv
<1>6. CASE UNCHANGED configurationVars
  BY <1>6 DEF configurationVars, ConfigInv
<1> QED
  BY <1>1, <1>2, <1>3, <1>4, <1>5, <1>6 DEF ConfigurationNext

(* Whatever commands meet or die, and whichever of them loses its change, *)
(* the file never names a default profile that it does not hold           *)
(* (config.go, SetDefaultUpboundProfile).                                  *)
THEOREM DefaultIsThere == ConfigurationSpec => []DefaultExists
<1>1. ConfigInv => DefaultExists
  BY DEF ConfigInv, Consistent, DefaultExists
<1> QED
  BY <1>1, ConfigInitInv, ConfigNextInv, PTL DEF ConfigurationSpec
-----------------------------------------------------------------------------
(* What the file is when commands come one after the other. *)

\* What does not exist has no settings and no session.
Blank(conf) == \A n \in Profiles : ~conf.profiles[n].exists => conf.profiles[n] = NoProfile

\* The configuration that a command has read, and the one it is to write.
HeldInv(c) ==
    /\ c.step \in {"read", "asked"} => c.conf = told
    /\ c.step = "asked" /\ c.op = "logout" => Exists(told, c.name)
    /\ c.step = "truncated" => file.kind = "empty" /\ c.conf = Promised(c) /\ Blank(c.conf)

ToldInv ==
    /\ 0 \notin valid
    /\ alone =>
          /\ \A p, q \in Processes : process[p].step # "idle" /\ process[q].step # "idle" => p = q
          /\ Consistent(told) /\ Blank(told)
          /\ file.kind # "garbled" /\ (file.kind = "none" => file.conf = EmptyConfig)
          /\ (\A p \in Processes : process[p].step # "truncated") => file.conf = told
          /\ \A p \in Processes : HeldInv(process[p])

(* Commands find nothing told at the start. *)
LEMMA ToldInitInv == ConfigurationInit => ToldInv
<1> SUFFICES ASSUME ConfigurationInit PROVE ToldInv
  OBVIOUS
<1>1. /\ file = Other("none") /\ told = EmptyConfig /\ valid = {}
      /\ \A p \in Processes : process[p] = IdleProcess
  BY DEF ConfigurationInit
<1>2. file.kind = "none" /\ file.conf = EmptyConfig /\ IdleProcess.step = "idle"
  BY <1>1 DEF Other, IdleProcess
<1>3. Blank(EmptyConfig)
  BY DEF Blank, EmptyConfig, NoProfile
<1> QED
  BY <1>1, <1>2, <1>3, EmptyIsConsistent DEF ToldInv, HeldInv

(* The record a login makes is the profile there was, or a blank one, with *)
(* its session.                                                            *)
LEMMA ProfileAnew ==
    ASSUME NEW q \in Profile, NEW s \in Nat
    PROVE  [session |-> s, base |-> q.base, exists |-> TRUE] = [q EXCEPT !.session = s, !.exists = TRUE]
<1> DEFINE new == [q EXCEPT !.session = s, !.exists = TRUE]
<1>1. new \in Profile /\ new.session = s /\ new.base = q.base /\ new.exists
  BY DEF Profile
<1> HIDE DEF new
<1>2. new = [session |-> new.session, base |-> new.base, exists |-> new.exists]
  BY <1>1 DEF Profile
<1>3. new.exists = TRUE
  BY <1>1 DEF Profile
<1>4. new = [session |-> s, base |-> q.base, exists |-> TRUE]
  BY <1>1, <1>2, <1>3
<1> QED
  BY <1>4 DEF new

LEMMA ProfileOfBlank ==
    ASSUME NEW conf \in Config, Blank(conf), NEW n \in Profiles
    PROVE  ProfileOf(conf, n) = conf.profiles[n] /\ conf.profiles[n] \in Profile
BY DEF ProfileOf, Exists, Blank, Config

\* A profile with another session, put into a configuration.
WithSession(conf, n, s) ==
    [conf EXCEPT !.profiles[n] = [@ EXCEPT !.session = s, !.exists = TRUE]]

LoggedIn(conf, n, s) ==
    [conf EXCEPT !.default = n, !.profiles[n].session = s, !.profiles[n].exists = TRUE]

LEMMA LoginFields ==
    ASSUME NEW conf \in Config, NEW n \in Profiles, NEW s
    PROVE  LoggedIn(conf, n, s) = [WithSession(conf, n, s) EXCEPT !.default = n]
BY DEF Config, Profile, WithSession, LoggedIn

LEMMA LogoutFields ==
    ASSUME NEW conf \in Config, NEW n \in Profiles, NEW s
    PROVE  [conf EXCEPT !.profiles[n].session = s, !.profiles[n].exists = TRUE] = WithSession(conf, n, s)
BY DEF Config, Profile, WithSession

LEMMA WithSessionIsBlank ==
    ASSUME NEW conf \in Config, Blank(conf), NEW n \in Profiles, NEW s
    PROVE  Blank(WithSession(conf, n, s))
<1>1. WithSession(conf, n, s).profiles = [conf.profiles EXCEPT ![n] = [@ EXCEPT !.session = s, !.exists = TRUE]]
  BY DEF WithSession, Config
<1>2. WithSession(conf, n, s).profiles[n].exists
  BY <1>1 DEF Config, Profile
<1>3. \A k \in Profiles : k # n => WithSession(conf, n, s).profiles[k] = conf.profiles[k]
  BY <1>1 DEF Config
<1> QED
  BY <1>2, <1>3 DEF Blank

(* A command over what was told writes what it promises, and nothing else. *)
LEMMA ChangedIsPromised ==
    ASSUME Consistent(told), Blank(told), NEW c \in Command, c.conf = told,
           c.op = "login" => c.name \in Profiles, c.op = "logout" => Exists(told, c.name),
           c.op # None, NEW new \in Changed(c)
    PROVE  new = Promised(c) /\ Blank(new)
<1>0. told \in Config /\ c.session \in Nat
  BY DEF Consistent, Command
<1>1. CASE c.op = "login"
  <2> DEFINE q == [session |-> c.session, base |-> ProfileOf(told, c.name).base, exists |-> TRUE]
             put == AddOrUpdateUpboundProfile(told, c.name, q)
  <2>1. new = [put EXCEPT !.default = c.name]
    BY <1>1 DEF Changed, SetSession, SetDefaultUpboundProfile
  <2>2. q = [told.profiles[c.name] EXCEPT !.session = c.session, !.exists = TRUE]
    <3>1. ProfileOf(told, c.name) = told.profiles[c.name] /\ told.profiles[c.name] \in Profile
      BY <1>0, <1>1, ProfileOfBlank
    <3> QED
      <4>1. \A r \in Profile : [session |-> c.session, base |-> r.base, exists |-> TRUE]
                                  = [r EXCEPT !.session = c.session, !.exists = TRUE]
        BY <1>0, ProfileAnew
      <4> QED
        BY <3>1, <4>1
  <2> HIDE DEF q
  <2>3. put = WithSession(told, c.name, c.session)
    BY <2>2 DEF AddOrUpdateUpboundProfile, WithSession
  <2> HIDE DEF put
  <2>4. Promised(c) = LoggedIn(told, c.name, c.session)
    BY <1>1 DEF Promised, LoggedIn
  <2>5. new = Promised(c)
    <3>1. c.name \in Profiles
      BY <1>1
    <3>2. Promised(c) = [WithSession(told, c.name, c.session) EXCEPT !.default = c.name]
      BY <1>0, <2>4, <3>1, LoginFields
    <3> QED
      BY <2>1, <2>3, <3>2, Zenon
  <2>6. Blank(put) /\ new.profiles = put.profiles
    <3>1. new.profiles = put.profiles
      BY <1>0, <2>1, <2>3 DEF WithSession, Config
    <3> QED
      BY <1>0, <1>1, <2>3, <3>1, WithSessionIsBlank
  <2> QED
    BY <2>5, <2>6 DEF Blank
<1>2. CASE c.op = "logout"
  <2>1. c.name \in Profiles /\ ProfileOf(told, c.name) = told.profiles[c.name]
    BY <1>0, <1>2, ProfileOfBlank DEF Exists
  <2>2. new = WithSession(told, c.name, 0)
    BY <1>2, <2>1 DEF Changed, AddOrUpdateUpboundProfile, WithSession
  <2>3. Promised(c) = [told EXCEPT !.profiles[c.name].session = 0, !.profiles[c.name].exists = TRUE]
    BY <1>2 DEF Promised
  <2>4. new = Promised(c)
    <3>1. \A conf \in Config, n \in Profiles :
              [conf EXCEPT !.profiles[n].session = 0, !.profiles[n].exists = TRUE] = WithSession(conf, n, 0)
      BY LogoutFields
    <3>2. told \in Config /\ c.name \in Profiles
      BY <1>0, <2>1
    <3>3. Promised(c) = WithSession(told, c.name, 0)
      BY <2>3, <3>1, <3>2
    <3> QED
      BY <2>2, <3>3, Zenon
  <2> QED
    BY <1>0, <2>1, <2>2, <2>4, WithSessionIsBlank
<1>3. CASE c.op = "use"
  <2>1. new = [told EXCEPT !.default = c.name]
    BY <1>3 DEF Changed, SetDefaultUpboundProfile
  <2> QED
    BY <1>0, <1>3, <2>1 DEF Promised, Blank, Config
<1>4. ASSUME NEW b \in BOOLEAN, new \in SetBase(told, b),
             Promised(c) = [told EXCEPT !.profiles[told.default].base = b]
      PROVE  new = Promised(c) /\ Blank(new)
  <2>1. Exists(told, told.default) /\ new = [told EXCEPT !.profiles[told.default].base = b]
    BY <1>4 DEF SetBase, GetDefaultUpboundProfile
  <2>2. \A k \in Profiles : k # told.default => new.profiles[k] = told.profiles[k]
    BY <1>0, <2>1 DEF Config
  <2>3. new.profiles[told.default].exists
    BY <1>0, <2>1 DEF Config, Profile, Exists
  <2> QED
    BY <1>4, <2>1, <2>2, <2>3 DEF Blank
<1>5. CASE c.op = "set"
  BY <1>4, <1>5 DEF Changed, Promised
<1>6. CASE c.op = "unset"
  BY <1>4, <1>6 DEF Changed, Promised
<1> QED
  BY <1>1, <1>2, <1>3, <1>5, <1>6 DEF Command

(* A command that ends without a word changes nothing for those that come. *)
LEMMA LeaveTold ==
    ASSUME ConfigInv, ToldInv, NEW p \in Processes, Set(p, IdleProcess),
           UNCHANGED <<file, told>>, 0 \notin valid',
           alone' => alone /\ process[p].step # "truncated"
    PROVE  ToldInv'
<1>1. process'[p].step = "idle" /\ \A q \in Processes \ {p} : process'[q] = process[q]
  BY DEF Set, ConfigInv, IdleProcess
<1>2. HeldInv(process[p])'
  BY <1>1 DEF HeldInv
<1>3. ASSUME alone' PROVE \A q \in Processes \ {p} : HeldInv(process[q])'
  <2>1. ASSUME NEW q \in Processes \ {p} PROVE HeldInv(process[q])'
    <3>1. HeldInv(process[q]) /\ process'[q] = process[q]
      BY <1>1, <1>3 DEF ToldInv
    <3> QED
      BY <3>1 DEF HeldInv, Promised, Exists, Blank
  <2> QED
    BY <2>1
<1>4. Blank(told) => Blank(told)'
  BY DEF Blank
<1> QED
  BY <1>1, <1>2, <1>3, <1>4 DEF ToldInv

(* The first command to read the file reads what was told. *)
LEMMA BeginTold ==
    ASSUME ConfigInv, ToldInv, NEW p \in Processes, NEW op, NEW flag, Begin(p, op, flag)
    PROVE  ToldInv'
<1>1. UNCHANGED <<valid, told>> /\ (alone' => alone /\ Others(p) = {}) /\ process[p].step = "idle"
      /\ file' = IF file.kind = "none" THEN Other("empty") ELSE file
  BY DEF Begin
<1>2. CASE ~alone'
  BY <1>1, <1>2 DEF ToldInv
<1>3. CASE alone'
  <2>1. \A q \in Processes : process[q].step = "idle"
    BY <1>1, <1>3 DEF Others
  <2>2. file'.conf = told /\ file'.kind \notin {"garbled", "none"} /\ file.conf = told
    BY <1>1, <1>3, <2>1 DEF ToldInv, Other
  <2>3. Consistent(told)' /\ Blank(told)'
    BY <1>1, <1>3 DEF ToldInv, Consistent, Blank
  <2>4. \/ UNCHANGED process
        \/ \E n : Set(p, [op |-> op, name |-> n, step |-> "read", conf |-> told, session |-> 0])
    <3>1. \A conf \in GetConfig : conf = told
      BY <2>2 DEF GetConfig
    <3> QED
      BY <3>1 DEF Begin
  <2>5. CASE UNCHANGED process
    BY <1>1, <2>1, <2>2, <2>3, <2>5 DEF ToldInv, HeldInv
  <2>6. ASSUME NEW n, Set(p, [op |-> op, name |-> n, step |-> "read", conf |-> told, session |-> 0])
        PROVE  ToldInv'
    <3>1. /\ process'[p].step = "read" /\ process'[p].conf = told
          /\ \A q \in Processes \ {p} : process'[q].step = "idle"
      BY <2>1, <2>6 DEF Set, ConfigInv
    <3>2. \A q \in Processes : HeldInv(process[q])'
      BY <1>1, <3>1 DEF HeldInv
    <3> QED
      BY <1>1, <2>2, <2>3, <3>1, <3>2 DEF ToldInv
  <2> QED
    BY <2>4, <2>5, <2>6
<1> QED
  BY <1>2, <1>3

(* The server's answer is held beside what was read; who could log out has *)
(* a session, and so its profile is there.                                 *)
LEMMA AskTold ==
    ASSUME ConfigInv, ToldInv, NEW p \in Processes, AskLogin(p) \/ AskLogout(p) PROVE ToldInv'
<1>1. UNCHANGED <<file, told, alone>> /\ process[p].step = "read" /\ process[p] \in Command
  BY DEF AskLogin, AskLogout, ConfigInv
<1>2. 0 \notin valid'
  BY DEF AskLogin, AskLogout, ToldInv, ConfigInv
<1>3. CASE Set(p, IdleProcess)
  BY <1>1, <1>2, <1>3, LeaveTold
<1>4. CASE ~Set(p, IdleProcess)
  <2>1. PICK d \in {process'[p]} :
           /\ Set(p, d) /\ d.step = "asked" /\ d.conf = process[p].conf
           /\ d.op = process[p].op /\ d.name = process[p].name
    <3>1. \/ \E k : Set(p, [process[p] EXCEPT !.step = "asked", !.session = k])
          \/ Set(p, [process[p] EXCEPT !.step = "asked"])
      BY <1>4 DEF AskLogin, AskLogout
    <3>2. process[p] \in Command /\ process \in [Processes -> Command]
      BY <1>1 DEF ConfigInv
    <3>3. CASE Set(p, [process[p] EXCEPT !.step = "asked"])
      BY <3>2, <3>3 DEF Set, Command
    <3>4. ASSUME NEW k, Set(p, [process[p] EXCEPT !.step = "asked", !.session = k])
          PROVE  /\ process'[p].step = "asked" /\ process'[p].conf = process[p].conf
                 /\ process'[p].op = process[p].op /\ process'[p].name = process[p].name
                 /\ Set(p, process'[p])
      BY <3>2, <3>4 DEF Set, Command
    <3> QED
      BY <3>1, <3>3, <3>4
  <2>2. process'[p] = d /\ \A q \in Processes \ {p} : process'[q] = process[q]
    BY <2>1 DEF Set, ConfigInv
  <2>3. ASSUME alone PROVE d.op = "logout" => Exists(told, d.name)
    <3>1. process[p].conf = told
      BY <1>1, <2>3 DEF ToldInv, HeldInv
    <3>2. d.op = "logout" => ProfileOf(told, d.name).session # 0
      BY <1>1, <1>4, <2>1, <3>1 DEF AskLogin, AskLogout, ToldInv
    <3> QED
      BY <3>2 DEF ProfileOf, NoProfile
  <2>4. ASSUME alone PROVE HeldInv(process[p])'
    BY <1>1, <2>1, <2>2, <2>3, <2>4 DEF ToldInv, HeldInv, Exists
  <2>5. ASSUME alone PROVE \A q \in Processes \ {p} : HeldInv(process[q])'
    BY <1>1, <2>2, <2>5 DEF ToldInv, HeldInv, Promised
  <2>6. Consistent(told) /\ Blank(told) => Consistent(told)' /\ Blank(told)'
    BY <1>1 DEF Consistent, Blank
  <2> QED
    BY <1>1, <1>2, <2>1, <2>2, <2>4, <2>5, <2>6 DEF ToldInv
<1> QED
  BY <1>3, <1>4

(* What is about to be written is promised. *)
LEMMA TruncateTold ==
    ASSUME ConfigInv, ToldInv, NEW p \in Processes, Truncate(p) PROVE ToldInv'
<1>1. UNCHANGED <<valid, told, alone>> /\ Ready(p) /\ process[p] \in Command /\ CommandInv(process[p])
  BY DEF Truncate, ConfigInv
<1>2. process[p].step \in {"read", "asked"} /\ process[p].op # None
  BY <1>1 DEF Ready, CommandInv
<1>3. CASE Set(p, IdleProcess) /\ UNCHANGED file
  BY <1>1, <1>2, <1>3, LeaveTold DEF ToldInv
<1>4. CASE ~alone
  BY <1>1, <1>4 DEF ToldInv
<1>5. CASE alone /\ ~(Set(p, IdleProcess) /\ UNCHANGED file)
  <2> DEFINE c == process[p]
  <2>1. PICK conf \in Changed(c) :
           Set(p, [c EXCEPT !.conf = conf, !.step = "truncated"]) /\ file' = Other("empty")
    BY <1>5 DEF Truncate
  <2>2. c.conf = told /\ Consistent(told) /\ Blank(told)
    BY <1>2, <1>5 DEF ToldInv, HeldInv
  <2>3. c.op = "logout" => Exists(told, c.name)
    BY <1>1, <1>5 DEF ToldInv, HeldInv, Ready
  <2>4. conf = Promised(c) /\ Blank(conf)
    BY <1>1, <1>2, <2>1, <2>2, <2>3, ChangedIsPromised DEF CommandInv
  <2>0. PICK d \in Command : d = [c EXCEPT !.conf = conf, !.step = "truncated"]
    BY <1>1, <2>4, ChangedIsConsistent, <2>1, <2>2, <1>2 DEF Command, Consistent, CommandInv
  <2>5. d.conf = conf /\ d.step = "truncated" /\ d.op = c.op /\ d.name = c.name /\ d.session = c.session
    BY <1>1, <2>0 DEF Command
  <2>6. process'[p] = d /\ \A q \in Processes \ {p} : process'[q] = process[q] /\ process'[q].step = "idle"
    BY <1>2, <1>5, <2>0, <2>1 DEF Set, ConfigInv, ToldInv
  <2>8. HeldInv(process[p])'
    <3>1. file'.kind = "empty" /\ process'[p] = d
      BY <2>1, <2>6 DEF Other
    <3>2. Promised(process[p])' = conf
      BY <1>1, <2>4, <2>5, <3>1 DEF Promised
    <3>3. Blank(process[p].conf)'
      BY <2>4, <2>5, <3>1 DEF Blank
    <3> QED
      BY <2>5, <3>1, <3>2, <3>3 DEF HeldInv
  <2>9. \A q \in Processes \ {p} : HeldInv(process[q])'
    BY <2>6 DEF HeldInv
  <2>10. Consistent(told)' /\ Blank(told)'
    BY <1>1, <2>2 DEF Consistent, Blank
  <2>11. file'.kind = "empty"
    BY <2>1 DEF Other
  <2>12. process'[p].step = "truncated"
    BY <2>5, <2>6
  <2> QED
    BY <1>1, <2>6, <2>8, <2>9, <2>10, <2>11, <2>12 DEF ToldInv
<1> QED
  BY <1>3, <1>4, <1>5

(* And it is told when it is written. *)
LEMMA WriteTold ==
    ASSUME ConfigInv, ToldInv, NEW p \in Processes, Write(p) PROVE ToldInv'
<1>1. UNCHANGED <<valid, alone>> /\ process[p].step = "truncated" /\ Set(p, IdleProcess)
  BY DEF Write
<1>2. CASE ~alone
  BY <1>1, <1>2 DEF ToldInv
<1>3. CASE alone
  <2>1. file.kind = "empty" /\ process[p].conf = Promised(process[p]) /\ Blank(process[p].conf)
    BY <1>1, <1>3 DEF ToldInv, HeldInv
  <2>2. file' = Holds(process[p].conf) /\ told' = process[p].conf
    BY <1>3, <2>1 DEF Write, Overwritten
  <2>3. file'.kind = "conf" /\ file'.conf = told'
    BY <2>2 DEF Holds
  <2>4. Consistent(told)' /\ Blank(told)'
    BY <2>1, <2>2 DEF ConfigInv, CommandInv, Consistent, Blank
  <2>5. \A q \in Processes : process'[q].step = "idle"
    BY <1>1, <1>3 DEF Set, ConfigInv, ToldInv, IdleProcess
  <2>6. \A q \in Processes : HeldInv(process[q])'
    BY <2>5 DEF HeldInv
  <2> QED
    BY <1>1, <2>3, <2>4, <2>5, <2>6 DEF ToldInv
<1> QED
  BY <1>2, <1>3

LEMMA ToldNextInv ==
    ConfigInv /\ ToldInv /\ [ConfigurationNext]_configurationVars => ToldInv'
<1> SUFFICES ASSUME ConfigInv, ToldInv, [ConfigurationNext]_configurationVars PROVE ToldInv'
  OBVIOUS
<1>1. ASSUME NEW p \in Processes, KillCommand(p) PROVE ToldInv'
  <2>1. /\ Set(p, IdleProcess) /\ UNCHANGED <<file, valid, told>>
        /\ alone' => alone /\ process[p].step # "truncated"
    BY <1>1 DEF KillCommand
  <2> QED
    BY <2>1, LeaveTold DEF ToldInv
<1>2. CASE UNCHANGED configurationVars
  <2>1. UNCHANGED <<file, process, valid, told, alone>>
    BY <1>2 DEF configurationVars
  <2>2. ASSUME NEW q \in Processes, HeldInv(process[q]) PROVE HeldInv(process[q])'
    BY <2>1, <2>2 DEF HeldInv, Promised, Exists, Blank
  <2>3. Consistent(told) /\ Blank(told) => Consistent(told)' /\ Blank(told)'
    BY <2>1 DEF Consistent, Blank
  <2> QED
    BY <2>1, <2>2, <2>3 DEF ToldInv
<1> QED
  BY <1>1, <1>2, BeginTold, AskTold, TruncateTold, WriteTold DEF ConfigurationNext
-----------------------------------------------------------------------------
(* Commands that come one after the other, killed or not, leave in the     *)
(* file what those of them that succeeded have promised, and nothing else  *)
(* (config.go, UpdateConfig; login.go, Run).                               *)
THEOREM FileHoldsWhatWasTold == ConfigurationSpec => []ConfigIsTold
<1>1. ToldInv => ConfigIsTold
  BY DEF ToldInv, ConfigIsTold
<1> QED
  BY <1>1, ConfigInitInv, ConfigNextInv, ToldInitInv, ToldNextInv, PTL DEF ConfigurationSpec

-----------------------------------------------------------------------------
(***************************************************************************)
(* A web login whose server was asked at most once can end, for any number *)
(* of requests that may come.                                              *)
(***************************************************************************)
Answers == {"failed", "logged in"}

TypeInv ==
    /\ login \in [step : {"started", "waiting", "exchanging", "closing", "ended"},
                  code : {"none", "code", ""}, browser : BOOLEAN]
    /\ tabs \in [Tabs -> {"none", "sending", "waiting"} \cup Answers]
    /\ token \in {<<>>, <<"code">>, <<"">>}
    /\ redirect \in {<<>>, <<"failed">>, <<"logged in">>}

\* The channels tell how far the handlers are: a code in the first was sent by
\* one that now waits or is done, an answer missing from the second was taken.
ChannelInv ==
    /\ ~login.browser => Handled = {}
    /\ login.step \in {"started", "waiting", "exchanging"} =>
          redirect = <<>> /\ \A t \in Tabs : tabs[t] \notin Answers
    /\ login.step = "started" => token = <<>> /\ ~login.browser
    /\ login.browser /\ token # <<>> => \E t \in Handled : tabs[t] # "sending"
    /\ login.step = "closing" /\ redirect = <<>> => \E t \in Tabs : tabs[t] \in Answers

LoginInv == TypeInv /\ ChannelInv
-----------------------------------------------------------------------------
(* Of one handled request there is no second one. *)
LEMMA OneHandled ==
    ASSUME TypeInv, Cardinality(Handled) <= 1, NEW t \in Handled, NEW u \in Handled
    PROVE  t = u
<1>1. IsFiniteSet(Handled)
  BY TabsAreFinite, FS_Subset DEF Handled
<1>2. Cardinality(Handled) \in Nat
  BY <1>1, FS_CardinalityType
<1>3. Cardinality(Handled) # 0
  BY <1>1, FS_EmptySet
<1>4. Cardinality(Handled) = 1
  BY <1>2, <1>3
<1>5. PICK x : Handled = {x}
  BY <1>1, <1>4, FS_Singleton
<1> QED
  BY <1>5

(* The invariant implies the property. *)
LEMMA InvImpliesCanEnd == LoginInv => LoginCanEnd
<1> SUFFICES ASSUME LoginInv, login.step = "closing", Cardinality(Handled) <= 1,
                    NEW t \in Hanging
             PROVE  redirect # <<>> /\ (tabs[t] = "sending" => token = <<>>)
  BY DEF LoginCanEnd
<1>1. t \in Handled /\ t \in Tabs /\ tabs[t] \in {"sending", "waiting"}
  BY DEF Hanging, Handled
<1>2. \A u \in Handled : u = t
  BY <1>1, OneHandled DEF LoginInv
<1>3. redirect # <<>>
  <2>1. SUFFICES ASSUME redirect = <<>> PROVE FALSE
    OBVIOUS
  <2>2. PICK u \in Tabs : tabs[u] \in Answers
    BY <2>1 DEF LoginInv, ChannelInv
  <2>3. u \in Handled
    BY <2>2 DEF Handled, Answers
  <2> QED
    BY <1>1, <1>2, <2>2, <2>3 DEF Answers
<1>4. tabs[t] = "sending" => token = <<>>
  BY <1>1, <1>2 DEF LoginInv, ChannelInv
<1> QED
  BY <1>3, <1>4

(* The second channel is empty or has one answer. *)
LEMMA AppendToNone == \A x : Append(<<>>, x) = <<x>> /\ <<x>> # <<>>
  OBVIOUS

(* Every exchange ends in an answer. *)
LEMMA ExchangeAnswers ==
    ASSUME redirect = <<>>, Exchange PROVE redirect' \in {<<"failed">>, <<"logged in">>} /\ redirect' # <<>>
<1>1. redirect' = Append(<<>>, "failed") \/ redirect' = Append(<<>>, "logged in")
  BY DEF Exchange
<1> QED
  BY <1>1, AppendToNone, Zenon

(* A channel that holds one answer. *)
LEMMA OneAnswer == \A x : Tail(<<x>>) = <<>> /\ Head(<<x>>) = x
  OBVIOUS

(* The invariant holds at the start. *)
LEMMA WebLoginInitInv == WebLoginInit => LoginInv
BY DEF WebLoginInit, LoginInv, TypeInv, ChannelInv, Handled, Answers
-----------------------------------------------------------------------------
(* No step of the command or of a handler breaks the invariant. *)
LEMMA WebLoginNextInv == LoginInv /\ [WebLoginNext]_webLoginVars => LoginInv'
<1> SUFFICES ASSUME LoginInv, [WebLoginNext]_webLoginVars PROVE LoginInv'
  OBVIOUS
<1> USE DEF LoginInv, TypeInv, ChannelInv, Handled, Answers
<1>1. CASE OpenBrowser
  BY <1>1 DEF OpenBrowser
<1>2. CASE Receive
  <2>1. token = <<"code">> \/ token = <<"">>
    BY <1>2 DEF Receive
  <2>2. Head(token) \in {"code", ""}
    BY <2>1, OneAnswer
  <2> QED
    BY <1>2, <2>2 DEF Receive
<1>3. CASE GiveUp
  BY <1>3 DEF GiveUp
<1>4. CASE Exchange
  <2>1. redirect = <<>>
    BY <1>4 DEF Exchange
  <2>2. redirect' \in {<<"failed">>, <<"logged in">>}
    BY <1>4, <2>1, ExchangeAnswers
  <2>3. redirect' # <<>>
    BY <1>4, <2>1, ExchangeAnswers
  <2>4. login' = [login EXCEPT !.step = "closing"] /\ UNCHANGED <<tabs, token>>
    BY <1>4 DEF Exchange
  <2> QED
    BY <1>4, <2>2, <2>3, <2>4
<1>5. CASE ShutdownServer
  BY <1>5 DEF ShutdownServer
<1>6. ASSUME NEW t \in Tabs, GetResponse(t) PROVE LoginInv'
  BY <1>6 DEF GetResponse
<1>7. ASSUME NEW t \in Tabs, SendToken(t) PROVE LoginInv'
  BY <1>7 DEF SendToken
<1>8. ASSUME NEW t \in Tabs, Answer(t) PROVE LoginInv'
  <2>1. Tail(redirect) = <<>> /\ Head(redirect) \in Answers
    BY <1>8, OneAnswer DEF Answer
  <2> QED
    BY <1>8, <2>1 DEF Answer
<1>9. CASE UNCHANGED webLoginVars
  BY <1>9 DEF webLoginVars
<1> QED
  BY <1>1, <1>2, <1>3, <1>4, <1>5, <1>6, <1>7, <1>8, <1>9 DEF WebLoginNext

(* Whatever code, timeout and failure meet, a login whose server was asked *)
(* at most once can shut it down (login.go, Run).                          *)
THEOREM LoginEnds == WebLoginSpec => []LoginCanEnd
<1>1. LoginInv => LoginCanEnd
  BY InvImpliesCanEnd
<1>2. WebLoginInit => LoginInv
  BY WebLoginInitInv
<1>3. LoginInv /\ [WebLoginNext]_webLoginVars => LoginInv'
  BY WebLoginNextInv
<1> QED
  BY <1>1, <1>2, <1>3, PTL DEF WebLoginSpec

-----------------------------------------------------------------------------
(***************************************************************************)
(* What a command of ConsoleCommands deletes, for any number of commands   *)
(* that run beside it.  The invariant says that an id means one thing for  *)
(* good: what was listed is what the console has under its id, if it still *)
(* has it, and what is to be deleted was listed under the name given.      *)
(***************************************************************************)
Kinds == {"robot", "team", "token", "invite", "member"}
Steps == {"idle", "asking", "canceled", "create", "first", "second", "act", "done", "failed"}
Entity == [id : Nat, kind : Kinds, name : Names \cup {"none"}, owner : Nat]
Job == [step : Steps, op : Operations \cup {"none"}, name : Names \cup {"none"},
        second : Names \cup {"none"}, force : BOOLEAN, listed : SUBSET Entity, found : Nat, robot : Nat]

ConsoleTypes ==
    /\ account \in SUBSET Entity
    /\ lastId \in Nat
    /\ jobs \in [Commands -> Job]

\* The name of what the command deletes.
Asked(job) == IF job.op = "token delete" THEN job.second ELSE job.name

IdsAreUnique ==
    \A e \in account : e.id <= lastId /\ \A f \in account : f.id = e.id => f = e

\* Whatever was listed keeps its id, and no other thing gets it.
ListedIsKept ==
    \A c \in Commands : \A t \in jobs[c].listed :
        t.id <= lastId /\ \A a \in account : a.id = t.id => a = t

MayDelete(job) ==
    \E t \in Called(job.listed, Asked(job)) :
        /\ t.id = job.found
        /\ job.force \/ job.op = "user remove" \/ Called(job.listed, Asked(job)) = {t}

FoundIsListed ==
    \A c \in Commands : jobs[c].step = "act" /\ jobs[c].op \in Deletions => MayDelete(jobs[c])

ConsoleInv == ConsoleTypes /\ IdsAreUnique /\ ListedIsKept /\ FoundIsListed

\* What a step of the command c may do to its own job, nothing else being touched.
OwnStep(c) ==
    /\ c \in Commands
    /\ \A d \in Commands \ {c} : jobs'[d] = jobs[d]
    /\ jobs' \in [Commands -> Job]

(* The organization as it begins. *)
LEMMA ConsoleBegins == ConsoleInit => ConsoleInv
<1> SUFFICES ASSUME ConsoleInit PROVE ConsoleInv
  OBVIOUS
<1> DEFINE n == CHOOSE m \in Names : TRUE
<1>1. n \in Names
  BY NamesAssumption
<1>2. account = {[id |-> 1, kind |-> "robot", name |-> n, owner |-> 0],
                 [id |-> 2, kind |-> "member", name |-> n, owner |-> 0]} /\ lastId = 2
  BY DEF ConsoleInit, Organization
<1>3. Nothing \in Job
  BY DEF Nothing, Job, Steps
<1>4. jobs = [c \in Commands |-> Nothing]
  BY DEF ConsoleInit
<1> HIDE DEF n
<1>5. ConsoleTypes
  BY <1>1, <1>2, <1>3, <1>4 DEF ConsoleTypes, Entity, Kinds
<1>6. IdsAreUnique
  BY <1>2 DEF IdsAreUnique
<1>7. ListedIsKept /\ FoundIsListed
  BY <1>4 DEF ListedIsKept, FoundIsListed, Nothing
<1> QED
  BY <1>5, <1>6, <1>7 DEF ConsoleInv

(* A step that takes nothing from the console and gives new ids only, by a  *)
(* command that lists what is there or nothing and has then found what it  *)
(* may delete, keeps the invariant.                                        *)
LEMMA OneCommandSteps ==
    ASSUME ConsoleInv, NEW c \in Commands, OwnStep(c),
           account' \in SUBSET Entity, lastId' \in Nat, lastId <= lastId',
           IdsAreUnique',
           \A a \in account' : a \in account \/ a.id > lastId,
           jobs'[c].listed \subseteq jobs[c].listed \/ jobs'[c].listed \subseteq account',
           jobs'[c].step = "act" /\ jobs'[c].op \in Deletions => MayDelete(jobs'[c])
    PROVE  ConsoleInv'
<1>1. ConsoleTypes'
  BY DEF ConsoleTypes, OwnStep
<1>2. ASSUME NEW d \in Commands, NEW t \in jobs'[d].listed
      PROVE  t.id <= lastId' /\ \A a \in account' : a.id = t.id => a = t
  <2>1. CASE t \in jobs[d].listed
    <3>1. t.id <= lastId /\ \A a \in account : a.id = t.id => a = t
      BY <2>1 DEF ConsoleInv, ListedIsKept
    <3>2. t.id \in Nat /\ lastId \in Nat
      BY <2>1 DEF ConsoleInv, ConsoleTypes, Job, Entity
    <3>3. \A a \in account' : a.id \in Nat
      BY DEF Entity
    <3> QED
      BY <3>1, <3>2, <3>3
  <2>2. CASE t \notin jobs[d].listed
    <3>1. d = c /\ t \in account'
      BY <1>2, <2>2 DEF OwnStep
    <3> QED
      BY <3>1 DEF IdsAreUnique
  <2> QED
    BY <2>1, <2>2
<1>3. ListedIsKept'
  BY <1>2 DEF ListedIsKept
<1>4. ASSUME NEW d \in Commands, jobs'[d].step = "act", jobs'[d].op \in Deletions
      PROVE  MayDelete(jobs'[d])
  <2>1. CASE d = c
    BY <1>4, <2>1
  <2>2. CASE d # c
    <3>1. jobs'[d] = jobs[d]
      BY <2>2 DEF OwnStep
    <3> QED
      BY <1>4, <3>1 DEF ConsoleInv, FoundIsListed
  <2> QED
    BY <2>1, <2>2
<1>5. FoundIsListed'
  BY <1>4 DEF FoundIsListed
<1> QED
  BY <1>1, <1>3, <1>5 DEF ConsoleInv

(* Where the organization stays as it is. *)
LEMMA SameFacts ==
    ASSUME ConsoleInv, account' = account, lastId' = lastId
    PROVE  IdsAreUnique' /\ account' \in SUBSET Entity /\ lastId' \in Nat /\ lastId <= lastId'
BY DEF ConsoleInv, ConsoleTypes, IdsAreUnique

(* Only the step of a job changes: it fails, is done, or was confirmed. *)
LEMMA BecomeFacts ==
    ASSUME ConsoleInv, NEW c \in Commands, NEW s \in Steps, Become(c, s)
    PROVE  /\ OwnStep(c)
           /\ jobs'[c].listed = jobs[c].listed
           /\ jobs'[c].step = s
<1>1. jobs \in [Commands -> Job]
  BY DEF ConsoleInv, ConsoleTypes
<1>2. jobs' = [jobs EXCEPT ![c] = [jobs[c] EXCEPT !.step = s]]
  BY DEF Become
<1>3. jobs[c] \in Job
  BY <1>1
<1>4. [jobs[c] EXCEPT !.step = s] \in Job /\ [jobs[c] EXCEPT !.step = s].listed = jobs[c].listed
         /\ [jobs[c] EXCEPT !.step = s].step = s
  BY <1>3 DEF Job
<1> QED
  BY <1>1, <1>2, <1>4 DEF OwnStep

(* As long as the console stays as it is and the job is not about to act. *)
LEMMA BecomeKeeps ==
    ASSUME ConsoleInv, NEW c \in Commands, NEW s \in Steps, s # "act", Become(c, s), ConsoleSame
    PROVE  ConsoleInv'
<1>1. OwnStep(c) /\ jobs'[c].listed = jobs[c].listed /\ jobs'[c].step = s
  BY BecomeFacts DEF Steps
<1>2. account' = account /\ lastId' = lastId
  BY DEF ConsoleSame
<1>3. IdsAreUnique' /\ account' \in SUBSET Entity /\ lastId' \in Nat /\ lastId <= lastId'
  BY <1>2, SameFacts
<1> QED
  BY <1>1, <1>2, <1>3, OneCommandSteps

(* A command begins. *)
LEMMA StartKeeps ==
    ASSUME ConsoleInv, NEW c \in Commands, NEW op \in Operations, NEW name \in Names,
           NEW second \in Names, NEW force \in BOOLEAN, StartCommand(c, op, name, second, force)
    PROVE  ConsoleInv'
<1> DEFINE step == IF op \in Asking /\ ~force THEN "asking" ELSE IF op \in Making THEN "create" ELSE "first"
           job == [Nothing EXCEPT !.op = op, !.name = name, !.second = second, !.force = force, !.step = step]
<1>1. jobs' = [jobs EXCEPT ![c] = job]
  BY DEF StartCommand
<1>2. Nothing \in Job /\ Nothing.listed = {}
  BY DEF Nothing, Job, Steps
<1>3. step \in Steps /\ step # "act"
  BY DEF Steps
<1> HIDE DEF step
<1>4. job \in Job /\ job.listed = {} /\ job.step = step
  BY <1>2, <1>3 DEF Job
<1> HIDE DEF job
<1>5. jobs \in [Commands -> Job]
  BY DEF ConsoleInv, ConsoleTypes
<1>6. OwnStep(c) /\ jobs'[c].listed = {} /\ jobs'[c].step # "act"
  BY <1>1, <1>3, <1>4, <1>5 DEF OwnStep
<1>7. account' = account /\ lastId' = lastId
  BY DEF StartCommand, ConsoleSame
<1>8. IdsAreUnique' /\ account' \in SUBSET Entity /\ lastId' \in Nat /\ lastId <= lastId'
  BY <1>7, SameFacts
<1> QED
  BY <1>6, <1>7, <1>8, OneCommandSteps

\* The command found e in the list.
Found(c, list, step, e) ==
    /\ jobs' = [jobs EXCEPT ![c].listed = list, ![c].found = e.id, ![c].step = step,
                            ![c].robot = IF e.kind = "robot" THEN e.id ELSE @]
    /\ ConsoleSame

(* A command found e in what the console lists. *)
LEMMA FoundKeeps ==
    ASSUME ConsoleInv, NEW c \in Commands, NEW list \in SUBSET account, NEW name,
           NEW step \in {"second", "act"}, NEW e \in Called(list, name),
           Found(c, list, step, e),
           step = "act" /\ jobs[c].op \in Deletions =>
               /\ name = Asked(jobs[c])
               /\ jobs[c].force \/ jobs[c].op = "user remove" \/ Called(list, name) = {e}
    PROVE  ConsoleInv'
<1> DEFINE robot == IF e.kind = "robot" THEN e.id ELSE jobs[c].robot
           job == [jobs[c] EXCEPT !.listed = list, !.found = e.id, !.step = step, !.robot = robot]
<1>1. jobs \in [Commands -> Job] /\ jobs[c] \in Job
  BY DEF ConsoleInv, ConsoleTypes
<1>2. list \in SUBSET Entity /\ e \in list /\ e.id \in Nat
  BY DEF ConsoleInv, ConsoleTypes, Called, Entity
<1>3. robot \in Nat /\ step \in Steps
  BY <1>1, <1>2 DEF Job, Steps
<1>4. jobs' = [jobs EXCEPT ![c] = job]
  BY <1>1 DEF Found
<1> HIDE DEF robot
<1>5. /\ job \in Job /\ job.listed = list /\ job.found = e.id /\ job.step = step
      /\ job.op = jobs[c].op /\ job.name = jobs[c].name /\ job.second = jobs[c].second
      /\ job.force = jobs[c].force
  BY <1>1, <1>2, <1>3 DEF Job
<1> HIDE DEF job
<1>6. OwnStep(c) /\ jobs'[c] = job
  BY <1>1, <1>4, <1>5 DEF OwnStep
<1>7. account' = account /\ lastId' = lastId
  BY DEF Found, ConsoleSame
<1>8. IdsAreUnique' /\ account' \in SUBSET Entity /\ lastId' \in Nat /\ lastId <= lastId'
  BY <1>7, SameFacts
<1>9. ASSUME job.step = "act", job.op \in Deletions PROVE MayDelete(job)
  <2>1. Asked(job) = Asked(jobs[c]) /\ Asked(jobs[c]) = name
    BY <1>5, <1>9 DEF Asked
  <2> QED
    BY <1>5, <1>9, <2>1 DEF MayDelete
<1> QED
  BY <1>5, <1>6, <1>7, <1>8, <1>9, OneCommandSteps

(* What Find leaves, when it is given what the console lists. *)
LEMMA FindKeeps ==
    ASSUME ConsoleInv, NEW c \in Commands, NEW list \in SUBSET account, NEW name,
           NEW unique, NEW step \in {"second", "act"}, Find(c, list, name, unique, step),
           step = "act" /\ jobs[c].op \in Deletions =>
               /\ name = Asked(jobs[c])
               /\ unique \/ jobs[c].force \/ jobs[c].op = "user remove"
    PROVE  ConsoleInv'
<1>1. CASE Fail(c)
  <2>1. "failed" \in Steps /\ "failed" # "act"
    BY DEF Steps
  <2> QED
    BY <1>1, <2>1, BecomeKeeps, Zenon DEF Fail
<1>2. ASSUME NEW e \in Called(list, name), unique => Called(list, name) = {e}, Found(c, list, step, e)
      PROVE  ConsoleInv'
  <2>1. step = "act" /\ jobs[c].op \in Deletions =>
            /\ name = Asked(jobs[c])
            /\ jobs[c].force \/ jobs[c].op = "user remove" \/ Called(list, name) = {e}
    BY <1>2, Zenon
  <2> QED
    BY <1>2, <2>1, FoundKeeps, Zenon
<1> QED
  BY <1>1, <1>2, Zenon DEF Find, Found

(* What is listed is there, and a name is one. *)
LEMMA ListedFacts ==
    ASSUME ConsoleInv, NEW c \in Commands
    PROVE  /\ \A kind, owner : Listed(kind, owner) \in SUBSET account
           /\ jobs[c].name \in Names \cup {"none"}
<1>1. jobs[c] \in Job
  BY DEF ConsoleInv, ConsoleTypes
<1>2. \A kind, owner : Listed(kind, owner) \in SUBSET account
  BY DEF Listed
<1>3. jobs[c].name \in Names \cup {"none"}
  BY <1>1 DEF Job
<1> QED
  BY <1>2, <1>3

(* Each of the searches. *)
LEMMA FindOneKeeps ==
    ASSUME ConsoleInv, NEW c \in Commands, FindOne(c)
    PROVE  ConsoleInv'
<1> DEFINE robots == Listed("robot", Organization)
           teams == Listed("team", Organization)
<1>0. /\ robots \in SUBSET account /\ teams \in SUBSET account
  BY ListedFacts
<1>1. CASE FindRobotToDelete(c)
  <2>1. Find(c, robots, jobs[c].name, ~jobs[c].force, "act") /\ Asked(jobs[c]) = jobs[c].name
    BY <1>1 DEF FindRobotToDelete, FindRobot, JobAt, Asked
  <2> QED
    BY <1>0, <2>1, FindKeeps
<1>2. CASE FindRobotForToken(c)
  <2>1. Find(c, robots, jobs[c].name, TRUE, "act") /\ jobs[c].op \notin Deletions
    BY <1>2 DEF FindRobotForToken, FindRobot, JobAt, Deletions
  <2> QED
    BY <1>0, <2>1, FindKeeps
<1>3. CASE FindRobotOfToken(c) \/ FindRobotToJoin(c) \/ FindRobotToLeave(c)
  <2>1. Find(c, robots, jobs[c].name, TRUE, "second")
    BY <1>3 DEF FindRobotOfToken, FindRobotToJoin, FindRobotToLeave, FindRobot
  <2> QED
    BY <1>0, <2>1, FindKeeps
<1>4. CASE FindTokenToDelete(c)
  <2> DEFINE tokens == Listed("token", jobs[c].robot)
  <2>1. Find(c, tokens, jobs[c].second, ~jobs[c].force, "act") /\ Asked(jobs[c]) = jobs[c].second
    BY <1>4 DEF FindTokenToDelete, JobAt, Asked
  <2>2. tokens \in SUBSET account
    BY ListedFacts
  <2> HIDE DEF tokens
  <2> QED
    BY <1>0, <2>1, <2>2, FindKeeps
<1>5. CASE FindTeamToDelete(c)
  <2>1. Find(c, teams, jobs[c].name, ~jobs[c].force, "act") /\ Asked(jobs[c]) = jobs[c].name
    BY <1>5 DEF FindTeamToDelete, JobAt, Asked
  <2> QED
    BY <1>0, <2>1, FindKeeps
<1>6. CASE FindTeamOfRobot(c)
  <2>1. Find(c, teams, jobs[c].second, FALSE, "act") /\ jobs[c].op \notin Deletions
    BY <1>6 DEF FindTeamOfRobot, FindTeam, JobAt, Deletions
  <2> QED
    BY <1>0, <2>1, FindKeeps
<1>7. CASE FindTeamOfRepository(c)
  <2>1. Find(c, teams, jobs[c].name, FALSE, "act") /\ jobs[c].op \notin Deletions
    BY <1>7 DEF FindTeamOfRepository, FindTeam, JobAt, Deletions
  <2> QED
    BY <1>0, <2>1, FindKeeps
<1>8. CASE FindUser(c)
  <2>1. PICK kind \in {"invite", "member"} : Find(c, Listed(kind, Organization), jobs[c].name, FALSE, "act")
    BY <1>8 DEF FindUser
  <2>2. jobs[c].op = "user remove" /\ Asked(jobs[c]) = jobs[c].name
    BY <1>8 DEF FindUser, JobAt, Asked
  <2>3. Listed(kind, Organization) \in SUBSET account
    BY ListedFacts
  <2> DEFINE users == Listed(kind, Organization)
  <2> HIDE DEF users
  <2> QED
    BY <1>0, <2>1, <2>2, <2>3, FindKeeps
<1> QED
  BY <1>1, <1>2, <1>3, <1>4, <1>5, <1>6, <1>7, <1>8 DEF FindOne

(* Something new has a new id. *)
LEMMA AddKeeps ==
    ASSUME ConsoleInv, NEW c \in Commands, NEW kind \in Kinds, NEW owner \in Nat,
           AddEntity(c, kind, jobs[c].name, owner),
           Become(c, "done") \/ Become(c, "failed")
    PROVE  ConsoleInv'
<1> DEFINE new == [id |-> lastId + 1, kind |-> kind, name |-> jobs[c].name, owner |-> owner]
<1>1. OwnStep(c) /\ jobs'[c].listed = jobs[c].listed /\ jobs'[c].step # "act"
  BY BecomeFacts DEF Steps
<1>2. account' = account \cup {new} /\ lastId' = lastId + 1
  BY DEF AddEntity
<1>3. lastId \in Nat /\ account \in SUBSET Entity
  BY DEF ConsoleInv, ConsoleTypes
<1>4. new \in Entity /\ new.id = lastId + 1
  BY <1>3, ListedFacts DEF Entity
<1> HIDE DEF new
<1>5. \A e \in account : e.id \in Nat /\ e.id <= lastId
  BY <1>3 DEF ConsoleInv, IdsAreUnique, Entity
<1>6. IdsAreUnique'
  BY <1>2, <1>3, <1>4, <1>5 DEF ConsoleInv, IdsAreUnique
<1>7. \A a \in account' : a \in account \/ a.id > lastId
  BY <1>2, <1>3, <1>4
<1>8. account' \in SUBSET Entity /\ lastId' \in Nat /\ lastId <= lastId'
  BY <1>2, <1>3, <1>4
<1> QED
  BY <1>1, <1>6, <1>7, <1>8, OneCommandSteps

(* What is deleted leaves the rest as it was. *)
LEMMA DeleteKeeps ==
    ASSUME ConsoleInv, NEW c \in Commands, DeleteEntity(c)
    PROVE  ConsoleInv'
<1>1. CASE Fail(c)
  BY <1>1, BecomeKeeps DEF Fail, Steps
<1>2. CASE ~Fail(c)
  <2>1. Become(c, "done") /\ lastId' = lastId /\ account' \subseteq account
    BY <1>2 DEF DeleteEntity
  <2>2. OwnStep(c) /\ jobs'[c].listed = jobs[c].listed /\ jobs'[c].step # "act"
    BY <2>1, BecomeFacts DEF Steps
  <2>3. IdsAreUnique'
    BY <2>1 DEF ConsoleInv, IdsAreUnique
  <2>4. account' \in SUBSET Entity /\ lastId' \in Nat /\ lastId <= lastId'
    BY <2>1 DEF ConsoleInv, ConsoleTypes
  <2> QED
    BY <2>1, <2>2, <2>3, <2>4, OneCommandSteps
<1> QED
  BY <1>1, <1>2

(* A change of links, or none. *)
LEMMA LinkKeeps ==
    ASSUME ConsoleInv, NEW c \in Commands, Become(c, "failed") \/ Become(c, "done"),
           account' = account, lastId' = lastId
    PROVE  ConsoleInv'
<1>1. OwnStep(c) /\ jobs'[c].listed = jobs[c].listed /\ jobs'[c].step # "act"
  BY BecomeFacts DEF Steps
<1>2. IdsAreUnique' /\ account' \in SUBSET Entity /\ lastId' \in Nat /\ lastId <= lastId'
  BY SameFacts
<1> QED
  BY <1>1, <1>2, OneCommandSteps

(* Nothing is lost but by a deletion. *)
LEMMA LossIsDeletion ==
    ASSUME ConsoleNext, NEW e \in account, e \notin account'
    PROVE  \E c \in Commands : DeleteEntity(c)
<1>1. ASSUME NEW c \in Commands, NEW op, NEW name, NEW second, NEW force, StartCommand(c, op, name, second, force)
      PROVE  FALSE
  BY <1>1 DEF StartCommand, ConsoleSame
<1>2. ASSUME NEW c \in Commands, Confirm(c) PROVE FALSE
  BY <1>2 DEF Confirm, ConsoleSame
<1>3. ASSUME NEW c \in Commands, NEW list, NEW name, NEW unique, NEW step, Find(c, list, name, unique, step)
      PROVE  FALSE
  BY <1>3 DEF Find, Fail, ConsoleSame
<1>4. ASSUME NEW c \in Commands, FindOne(c) PROVE FALSE
  BY <1>3, <1>4 DEF FindOne, FindRobotToDelete, FindRobotForToken, FindRobotOfToken, FindRobotToJoin,
     FindRobotToLeave, FindRobot, FindTokenToDelete, FindTeamToDelete, FindTeamOfRobot,
     FindTeamOfRepository, FindTeam, FindUser
<1>5. ASSUME NEW c \in Commands, CreateRobot(c) \/ CreateTeam(c) \/ Invite(c) \/ CreateToken(c)
      PROVE  FALSE
  BY <1>5 DEF CreateRobot, CreateTeam, Invite, CreateToken, CreateEntity, AddEntity, Fail, ConsoleSame
<1>6. ASSUME NEW c \in Commands, JoinTeam(c) \/ LeaveTeam(c) \/ Grant(c) \/ Revoke(c)
      PROVE  FALSE
  BY <1>6 DEF JoinTeam, LeaveTeam, Grant, Revoke, ChangeLink, Fail, ConsoleSame
<1> QED
  BY <1>1, <1>2, <1>4, <1>5, <1>6 DEF ConsoleNext

(* Every step keeps the invariant. *)
LEMMA ConsoleStep == ConsoleInv /\ [ConsoleNext]_consoleVars => ConsoleInv'
<1> SUFFICES ASSUME ConsoleInv, [ConsoleNext]_consoleVars PROVE ConsoleInv'
  OBVIOUS
<1>1. CASE UNCHANGED consoleVars
  <2>1. account' = account /\ lastId' = lastId /\ jobs' = jobs
    BY <1>1 DEF consoleVars
  <2> QED
    BY <2>1 DEF ConsoleInv, ConsoleTypes, IdsAreUnique, ListedIsKept, FoundIsListed
<1>2. ASSUME NEW c \in Commands, NEW op \in Operations, NEW name \in Names, NEW second \in Names,
             NEW force \in BOOLEAN, StartCommand(c, op, name, second, force)
      PROVE  ConsoleInv'
  BY <1>2, StartKeeps
<1>3. ASSUME NEW c \in Commands, Confirm(c) PROVE ConsoleInv'
  BY <1>3, BecomeKeeps DEF Confirm, Steps
<1>4. ASSUME NEW c \in Commands, FindOne(c) PROVE ConsoleInv'
  BY <1>4, FindOneKeeps
<1>5. ASSUME NEW c \in Commands, CreateRobot(c) \/ CreateTeam(c) \/ Invite(c) \/ CreateToken(c)
      PROVE  ConsoleInv'
  <2>1. CASE Fail(c)
    BY <2>1, BecomeKeeps DEF Fail, Steps
  <2>2. CASE ~Fail(c)
    <3>1. PICK kind \in Kinds, owner \in {Organization, jobs[c].found} :
             AddEntity(c, kind, jobs[c].name, owner) /\ (Become(c, "done") \/ Become(c, "failed"))
      BY <1>5, <2>2 DEF CreateRobot, CreateTeam, Invite, CreateToken, CreateEntity, Kinds
    <3>2. owner \in Nat
      BY DEF ConsoleInv, ConsoleTypes, Job, Organization
    <3> QED
      BY <3>1, <3>2, AddKeeps
  <2> QED
    BY <2>1, <2>2
<1>6. ASSUME NEW c \in Commands, DeleteEntity(c) PROVE ConsoleInv'
  BY <1>6, DeleteKeeps
<1>7. ASSUME NEW c \in Commands, JoinTeam(c) \/ LeaveTeam(c) \/ Grant(c) \/ Revoke(c)
      PROVE  ConsoleInv'
  <2>1. /\ Become(c, "failed") \/ Become(c, "done")
        /\ account' = account /\ lastId' = lastId
    BY <1>7 DEF JoinTeam, LeaveTeam, Grant, Revoke, ChangeLink, Fail, ConsoleSame
  <2> QED
    BY <2>1, LinkKeeps
<1> QED
  BY <1>1, <1>2, <1>3, <1>4, <1>5, <1>6, <1>7 DEF ConsoleNext

(* What is lost was meant: whatever the other commands make and delete     *)
(* meanwhile, a command deletes only what it had listed under the name it  *)
(* was given, the only such thing unless it was forced, and what belongs   *)
(* to it (robot/delete.go, team/delete.go, robot/token/delete.go,          *)
(* organization/user/remove.go).                                           *)
THEOREM DeletionsAreMeant == ConsoleSpec => MeantToBeLost
<1> DEFINE Lost == \A e \in account \ account' : \E c \in Commands :
          LET job == jobs[c]
              name == IF job.op = "token delete" THEN job.second ELSE job.name
              seen == Called(job.listed, name)
          IN  /\ job.op \in Deletions /\ jobs'[c].step = "done" /\ job.step # "done"
              /\ \E t \in seen \cap account :
                    /\ e = t \/ e.owner = t.id
                    /\ job.force \/ job.op = "user remove" \/ seen = {t}
<1>1. ASSUME ConsoleInv, ConsoleNext PROVE Lost
  <2>1. SUFFICES ASSUME NEW e \in account, e \notin account'
                 PROVE  \E c \in Commands :
                            /\ jobs[c].op \in Deletions /\ jobs'[c].step = "done" /\ jobs[c].step # "done"
                            /\ \E t \in Called(jobs[c].listed, Asked(jobs[c])) \cap account :
                                  /\ e = t \/ e.owner = t.id
                                  /\ \/ jobs[c].force \/ jobs[c].op = "user remove"
                                     \/ Called(jobs[c].listed, Asked(jobs[c])) = {t}
    BY DEF Asked
  <2>2. PICK c \in Commands : DeleteEntity(c)
    BY <1>1, <2>1, LossIsDeletion
  <2>3. ~Fail(c)
    BY <2>1 DEF Fail, ConsoleSame
  <2>4. /\ jobs[c].step = "act" /\ jobs[c].op \in Deletions
        /\ Knows(jobs[c].found) /\ Become(c, "done")
        /\ account' = {a \in account : a.id # jobs[c].found /\ a.owner # jobs[c].found}
    BY <2>2, <2>3 DEF DeleteEntity
  <2>5. PICK t \in Called(jobs[c].listed, Asked(jobs[c])) :
           /\ t.id = jobs[c].found
           /\ \/ jobs[c].force \/ jobs[c].op = "user remove"
              \/ Called(jobs[c].listed, Asked(jobs[c])) = {t}
    BY <1>1, <2>4 DEF ConsoleInv, FoundIsListed, MayDelete
  <2>6. \A a \in account : a.id = t.id => a = t
    BY <1>1, <2>5 DEF ConsoleInv, ListedIsKept, Called
  <2>7. t \in account
    BY <2>4, <2>5, <2>6 DEF Knows
  <2>8. e = t \/ e.owner = t.id
    BY <2>1, <2>4, <2>5, <2>6
  <2>9. jobs'[c].step = "done"
    BY <1>1, <2>4, BecomeFacts DEF Steps
  <2> QED
    BY <2>4, <2>5, <2>7, <2>8, <2>9
<1>2. ConsoleInv /\ [ConsoleNext]_consoleVars => [Lost]_consoleVars
  BY <1>1
<1> QED
  BY <1>2, ConsoleBegins, ConsoleStep, PTL DEF ConsoleSpec, MeantToBeLost
=============================================================================
