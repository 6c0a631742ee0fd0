---------------------------- MODULE SpaceConnect ----------------------------
(***************************************************************************)
(* `up space connect` and `up space disconnect` (cmd/up/space/connect.go,  *)
(* cmd/up/space/disconect.go) run by one operator, one command after       *)
(* another, against the Upbound console and one Space cluster.             *)
(*                                                                         *)
(* Every remote call is a step of its own: the process may be killed       *)
(* between any two of them, and every call may fail.  connect runs inside  *)
(* undo.Do, so a failure replays the registered undo functions in reverse  *)
(* order; a killed or panicking process replays nothing, and the next      *)
(* command starts from whatever was left.                                  *)
(***************************************************************************)
EXTENDS HelmRelease, Integers, Sequences, SequencesExt

CONSTANTS
  Names,      \* Space names a user may give
  GenNames,   \* names the console may generate ("connected-...")
  RobotIds, TokenIds,
  UserToken,  \* a token given with --robot-token
  Wanted,     \* the Space an operator keeps asking for (liveness only)
  MaxFaults   \* bound: calls that fail, and commands that are killed

AllNames == Names \cup GenNames
Tokens   == TokenIds \cup {UserToken}

ASSUME NamesAssumption ==
  /\ None \notin AllNames \cup RobotIds \cup Tokens
  /\ Names \cap GenNames = {}
  /\ UserToken \notin TokenIds

ASSUME WantedAssumption == Wanted \in AllNames

ASSUME MaxFaultsAssumption == MaxFaults \in Nat

VARIABLES
  \* The Upbound console, for one organization.
  spaces,     \* names of its Spaces
  robots,     \* robot id -> the name of the robot, None if there is none
  tokens,     \* token id -> the robot it belongs to, None if there is none
  \* The Space cluster, namespace upbound-system.
  cm,         \* ConfigMap "space-connect"
  secret,     \* Secret "space-token"
  release,    \* helm release of the agent; a revision runs for one Space
  \* The running command.
  pc,         \* the next remote call
  space,      \* c.Space
  token,      \* c.Token
  yes,        \* the answer to its prompts
  local,      \* data of the process's copy of the ConfigMap
  nilData,    \* that copy's Data is a nil map
  name,       \* Name of the Space object createSpace has sent
  rid, tid,   \* the robot and the token it is about to record
  undos,      \* undo functions registered with the Undoer
  \* Observation, and the bound on faults.
  outcome,    \* how the last command ended
  undoFailed, \* an undo function of this command failed
  before,     \* console and cluster when the running command started
  faults

console == <<spaces, robots, tokens>>
cluster == <<cm, secret, release>>
args    == <<space, token, yes>>
copy    == <<local, nilData>>
made    == <<name, rid, tid>>
seen    == <<outcome, undoFailed, before>>
vars    == <<console, cluster, pc, args, copy, made, undos, seen, faults>>

-----------------------------------------------------------------------------
(* Data *)

Data  == [space : AllNames \cup {None}, robot : RobotIds \cup {None},
          token : TokenIds \cup {None}]
Empty == [space |-> None, robot |-> None, token |-> None]

\* The Secret's two keys; a state never shows None in them, see ConnectInv.
Secrets == [space : AllNames \cup {None}, token : Tokens \cup {None}]

ASSUME ObjectsAssumption == None \notin Data \cup Secrets

Undo(kind, id) == [kind |-> kind, id |-> id]
Undos == [kind : {"map", "space", "robot", "token", "secret"},
          id : RobotIds \cup TokenIds \cup {None}]

ConnectCalls ==
  {"getMap", "createMap", "prepareSpace", "oldRobot", "dropSpace",
   "createSpace", "recordSpace", "findRobot", "createRobot", "recordRobot",
   "listTokens", "createToken", "recordToken", "namespace", "secret"}

DisconnectCalls ==
  {"consoleRobot", "getState", "lostRobot", "deleteSpace", "forgetSpace",
   "deleteRobot", "forgetRobot", "deleteMap", "uninstall", "deleteSecret"}

Labels == ConnectCalls \cup DisconnectCalls \cup
  {"idle", "oldSpace", "agent", "undo", "consoleSpace", "lostSpace"}

Outcomes == {"none", "connected", "disconnected", "removed", "failed",
             "killed", "panicked"}

\* Console and cluster as they are now.
Snapshot == [spaces |-> spaces, robots |-> robots, tokens |-> tokens,
             cm |-> cm, secret |-> secret, release |-> release]

RobotMaps == [RobotIds -> AllNames \cup {None}]
TokenMaps == [TokenIds -> RobotIds \cup {None}]

Snapshots ==
  [spaces : SUBSET AllNames, robots : RobotMaps, tokens : TokenMaps,
   cm : Data \cup {None}, secret : Secrets \cup {None},
   release : Releases(AllNames)]

ConsoleType ==
  /\ spaces \subseteq AllNames
  /\ robots \in RobotMaps
  /\ tokens \in TokenMaps

ClusterType ==
  /\ cm \in Data \cup {None}
  /\ secret \in Secrets \cup {None}
  /\ release \in Releases(AllNames)

CommandType ==
  /\ pc \in Labels
  /\ space \in AllNames \cup {None}
  /\ token \in Tokens \cup {None}
  /\ yes \in BOOLEAN
  /\ local \in Data
  /\ nilData \in BOOLEAN
  /\ name \in AllNames \cup {None}
  /\ rid \in RobotIds \cup {None}
  /\ tid \in TokenIds \cup {None}
  /\ undos \in Seq(Undos)

SeenType ==
  /\ outcome \in Outcomes
  /\ undoFailed \in BOOLEAN
  /\ before \in Snapshots \cup {None}
  /\ faults \in 0..MaxFaults

\* Every variable has its type; in particular what survives a crash, the
\* ConfigMap, the Secret and the release, is always well formed.
TypeOK == ConsoleType /\ ClusterType /\ CommandType /\ SeenType

-----------------------------------------------------------------------------
(* Helpers *)

Fault == faults < MaxFaults /\ faults' = faults + 1

\* Next remote call, with nothing registered and no fault.
Goto(l) == pc' = l /\ UNCHANGED <<undos, seen, faults>>

\* The same, after registering an undo function.
GotoWith(l, u) ==
  /\ pc' = l
  /\ undos' = Append(undos, u)
  /\ UNCHANGED <<seen, faults>>

\* The command returns (or dies) with outcome o: its memory is gone, c.Space
\* stays readable as the Space the command was about.
Finish(o) ==
  /\ pc' = "idle"
  /\ outcome' = o
  /\ token' = None
  /\ yes' = FALSE
  /\ local' = Empty
  /\ nilData' = FALSE
  /\ name' = None
  /\ rid' = None
  /\ tid' = None
  /\ undos' = <<>>
  /\ undoFailed' = FALSE
  /\ before' = None
  /\ UNCHANGED space

\* fn returns an error to undo.Do.
Abort == Goto("undo")

\* Update of the ConfigMap from the local copy.  client-go decodes the
\* answer into a new object: no data comes back as a nil map.
Update(d) ==
  /\ cm' = d
  /\ local' = d
  /\ nilData' = (d = Empty)
  /\ UNCHANGED <<secret, release>>

\* deleteSpace: the call may fail, and the condition `err == nil && ...`
\* turns every failure into a success.
DeleteSpace(n) ==
  /\ UNCHANGED <<robots, tokens>>
  /\ \/ spaces' = spaces \ {n} /\ UNCHANGED faults
     \/ UNCHANGED spaces /\ Fault

\* Deleting a robot deletes its tokens; one that is gone is not an error.
DeleteRobot(r) ==
  /\ robots' = [i \in RobotIds |-> IF i = r THEN None ELSE robots[i]]
  /\ tokens' = [t \in TokenIds |-> IF tokens[t] = r THEN None ELSE tokens[t]]
  /\ UNCHANGED spaces

Named(n) == {r \in RobotIds : robots[r] = n}

\* Ids the console would give next: new UUIDs are ids nothing refers to.
FreshRobots ==
  {r \in RobotIds : robots[r] = None /\ (cm # None => cm.robot # r)}
FreshTokens ==
  {t \in TokenIds : /\ tokens[t] = None
                    /\ (cm # None => cm.token # t)
                    /\ (secret # None => secret.token # t)}

-----------------------------------------------------------------------------
(* connect *)

\* The command starts: arguments, and the reads that precede the first
\* write (mxp-config, the organization); a failing one leaves no trace.
\* Bound: a nameless connect starts while a name is left to generate.
StartConnect(n, t, y) ==
  /\ pc = "idle"
  /\ n = None => ~(GenNames \subseteq spaces)
  /\ pc' = "getMap"
  /\ space' = n
  /\ token' = t
  /\ yes' = y
  /\ outcome' = "none"
  /\ before' = Snapshot
  /\ UNCHANGED <<console, cluster, copy, made, undos, undoFailed, faults>>

\* Mutant of GetMap: an existing ConfigMap is an error.
GetMapStrict ==
  /\ pc = "getMap"
  /\ IF cm # None THEN Abort ELSE Goto("createMap")
  /\ UNCHANGED <<console, cluster, args, copy, made>>

\* createConnectConfigmap: the ConfigMap of an earlier run is resumed.
GetMap ==
  /\ pc = "getMap"
  /\ IF cm # None
       THEN local' = cm /\ Goto("prepareSpace")
       ELSE UNCHANGED local /\ Goto("createMap")
  /\ UNCHANGED <<console, cluster, args, nilData, made>>

CreateMap ==
  /\ pc = "createMap"
  /\ cm' = Empty
  /\ local' = Empty
  /\ GotoWith("prepareSpace", Undo("map", None))
  /\ UNCHANGED <<console, secret, release, args, nilData, made>>

\* prepareSpace: the Space of an earlier run is replaced when this one is
\* given another name, and only if the user agrees.
PrepareSpace ==
  /\ pc = "prepareSpace"
  /\ LET replaces == /\ local.space # None
                     /\ space \notin {None, local.space}
     IN  CASE ~replaces       -> Goto("createSpace")
           [] replaces /\ yes -> Goto("oldRobot")
           [] OTHER           -> Abort
  /\ UNCHANGED <<console, cluster, args, copy, made>>

\* disconnectSpace of the old Space: first the robot with its name...
DropRobotNamed(n) ==
  \/ Named(n) = {} /\ UNCHANGED console
  \/ \E r \in Named(n) : DeleteRobot(r)

OldRobot ==
  /\ pc = "oldRobot"
  /\ DropRobotNamed(local.space)
  /\ Goto("oldSpace")
  /\ UNCHANGED <<cluster, args, copy, made>>

\* ...then the Space itself.
OldSpace ==
  /\ pc = "oldSpace"
  /\ DeleteSpace(local.space)
  /\ pc' = "dropSpace"
  /\ UNCHANGED <<cluster, args, copy, made, undos, seen>>

DropSpace ==
  /\ pc = "dropSpace"
  /\ Update([local EXCEPT !.space = None])
  /\ Goto("createSpace")
  /\ UNCHANGED <<console, args, made>>

\* prepareToken: a robot and a token are made unless a token was given.
AfterSpace == IF token = None THEN "findRobot" ELSE "namespace"

\* createSpace writes the Space's name to the local copy, which panics when
\* the map is nil, and then sends the copy.
RecordInCopy(n, us) ==
  IF nilData
    THEN Finish("panicked") /\ UNCHANGED faults
    ELSE /\ pc' = "recordSpace"
         /\ name' = n
         /\ undos' = us
         /\ UNCHANGED <<args, copy, rid, tid, seen, faults>>

\* A Space is created; the undo function reads c.Space when it runs.
CreateSpace ==
  /\ pc = "createSpace"
  /\ \E n \in (IF space = None THEN GenNames ELSE {space}) \ spaces :
       /\ spaces' = spaces \cup {n}
       /\ RecordInCopy(n, Append(undos, Undo("space", None)))
  /\ UNCHANGED <<robots, tokens, cluster>>

\* Mutant of AdoptSpace: the undo function is registered for a Space that
\* was there before, too.
AdoptSpaceWithUndo ==
  /\ pc = "createSpace"
  /\ space \in spaces
  /\ IF yes THEN RecordInCopy(space, Append(undos, Undo("space", None)))
            ELSE Abort /\ UNCHANGED <<args, copy, made>>
  /\ UNCHANGED <<console, cluster>>

\* The Space exists: it is overwritten if the user agrees.
AdoptSpace ==
  /\ pc = "createSpace"
  /\ space \in spaces
  /\ \/ ~yes /\ Abort /\ UNCHANGED <<args, copy, made>>
     \/ /\ yes
        /\ local.space = space
        /\ Goto(AfterSpace)
        /\ UNCHANGED <<args, copy, made>>
     \/ /\ yes
        /\ local.space # space
        /\ RecordInCopy(space, undos)
  /\ UNCHANGED <<console, cluster>>

RecordSpace ==
  /\ pc = "recordSpace"
  /\ Update([local EXCEPT !.space = name])
  /\ space' = name
  /\ Goto(AfterSpace)
  /\ UNCHANGED <<console, token, yes, made>>

\* createRobot: a robot with the Space's name is taken over, and the undo
\* function registered for it deletes it, whoever made it.
FindRobot ==
  /\ pc = "findRobot"
  /\ \/ /\ Named(space) = {}
        /\ UNCHANGED rid
        /\ Goto("createRobot")
     \/ \E r \in Named(space) :
          /\ rid' = r
          /\ GotoWith(IF local.robot = r THEN "listTokens" ELSE "recordRobot",
                      Undo("robot", r))
  /\ UNCHANGED <<console, cluster, args, copy, name, tid>>

\* Mutant of CreateRobot: no undo function.
CreateRobotWithoutUndo ==
  /\ pc = "createRobot"
  /\ \E r \in FreshRobots :
       /\ robots' = [robots EXCEPT ![r] = space]
       /\ rid' = r
       /\ Goto("recordRobot")
  /\ UNCHANGED <<spaces, tokens, cluster, args, copy, name, tid>>

CreateRobot ==
  /\ pc = "createRobot"
  /\ \E r \in FreshRobots :
       /\ robots' = [robots EXCEPT ![r] = space]
       /\ rid' = r
       /\ GotoWith("recordRobot", Undo("robot", r))
  /\ UNCHANGED <<spaces, tokens, cluster, args, copy, name, tid>>

RecordRobot ==
  /\ pc = "recordRobot"
  /\ Update([local EXCEPT !.robot = rid])
  /\ Goto("listTokens")
  /\ UNCHANGED <<console, args, made>>

\* createToken: the robot's token of an earlier run is replaced.  Robots and
\* their tokens carry the Space's name, so the name test always holds.
ListTokens ==
  /\ pc = "listTokens"
  /\ tokens' = [t \in TokenIds |-> IF tokens[t] = rid THEN None ELSE tokens[t]]
  /\ Goto("createToken")
  /\ UNCHANGED <<spaces, robots, cluster, args, copy, made>>

CreateToken ==
  /\ pc = "createToken"
  /\ \E t \in FreshTokens :
       /\ tokens' = [tokens EXCEPT ![t] = rid]
       /\ tid' = t
       /\ GotoWith("recordToken", Undo("token", t))
  /\ UNCHANGED <<spaces, robots, cluster, args, copy, name, rid>>

RecordToken ==
  /\ pc = "recordToken"
  /\ Update([local EXCEPT !.token = tid])
  /\ token' = tid
  /\ Goto("namespace")
  /\ UNCHANGED <<console, space, yes, made>>

\* createNamespace: the ConfigMap lives in that namespace, so it exists and
\* no undo function is registered.
CreateNamespace ==
  /\ pc = "namespace"
  /\ Goto("secret")
  /\ UNCHANGED <<console, cluster, args, copy, made>>

\* Mutant of CreateTokenSecret: an existing Secret is kept.
CreateTokenSecretOnce ==
  /\ pc = "secret"
  /\ secret' = IF secret = None THEN [space |-> space, token |-> token] ELSE secret
  /\ GotoWith("agent", Undo("secret", None))
  /\ UNCHANGED <<console, cm, release, args, copy, made>>

\* createTokenSecret: created, or replaced, or found equal; all three
\* register its deletion.
CreateTokenSecret ==
  /\ pc = "secret"
  /\ secret' = [space |-> space, token |-> token]
  /\ GotoWith("agent", Undo("secret", None))
  /\ UNCHANGED <<console, cm, release, args, copy, made>>

\* Mutant of InstallAgent: a deployed agent is left as it is.
InstallAgentOnce ==
  /\ pc = "agent"
  /\ \E o \in Install(release, space) :
       /\ release' = o.rel
       /\ IF o.fault THEN Fault ELSE UNCHANGED faults
       /\ IF o.err /\ release.status # "deployed"
            THEN /\ pc' = "undo"
                 /\ UNCHANGED <<args, copy, made, undos, seen>>
            ELSE Finish("connected")
  /\ UNCHANGED <<console, cm, secret>>

\* installAgent, the last call of connect: an undo function registered here
\* never runs.
InstallAgent ==
  /\ pc = "agent"
  /\ \E o \in IF release = NoRelease THEN Install(release, space)
                                     ELSE Upgrade(release, space) :
       /\ release' = o.rel
       /\ IF o.fault THEN Fault ELSE UNCHANGED faults
       /\ IF o.err
            THEN /\ pc' = "undo"
                 /\ UNCHANGED <<args, copy, made, undos, seen>>
            ELSE Finish("connected")
  /\ UNCHANGED <<console, cm, secret>>

\* A call of connect fails and changes nothing.
ConnectCallFails ==
  /\ pc \in ConnectCalls
  /\ Fault
  /\ pc' = "undo"
  /\ UNCHANGED <<console, cluster, args, copy, made, undos, seen>>

-----------------------------------------------------------------------------
(* undo.Do after an error *)

\* One undo function, last registered first.  One that fails is reported and
\* the others still run.
UndoEffect(u) ==
  CASE u.kind = "map"    -> /\ cm' = None
                            /\ UNCHANGED <<console, secret, release>>
    [] u.kind = "space"  -> /\ spaces' = spaces \ {space}
                            /\ UNCHANGED <<robots, tokens, cluster>>
    [] u.kind = "robot"  -> DeleteRobot(u.id) /\ UNCHANGED cluster
    [] u.kind = "token"  -> /\ tokens' = [tokens EXCEPT ![u.id] = None]
                            /\ UNCHANGED <<spaces, robots, cluster>>
    [] u.kind = "secret" -> /\ secret' = None
                            /\ UNCHANGED <<console, cm, release>>

\* Mutant of UndoStep: first registered first.
UndoStepInOrder ==
  /\ pc = "undo"
  /\ undos # <<>>
  /\ undos' = Tail(undos)
  /\ \/ UndoEffect(Head(undos)) /\ UNCHANGED <<undoFailed, faults>>
     \/ Fault /\ undoFailed' = TRUE /\ UNCHANGED <<console, cluster>>
  /\ UNCHANGED <<pc, args, copy, made, outcome, before>>

UndoStep ==
  /\ pc = "undo"
  /\ undos # <<>>
  /\ undos' = Front(undos)
  /\ \/ UndoEffect(Last(undos)) /\ UNCHANGED <<undoFailed, faults>>
     \/ Fault /\ undoFailed' = TRUE /\ UNCHANGED <<console, cluster>>
  /\ UNCHANGED <<pc, args, copy, made, outcome, before>>

UndoDone ==
  /\ pc = "undo"
  /\ undos = <<>>
  /\ Finish("failed")
  /\ UNCHANGED <<console, cluster, faults>>

-----------------------------------------------------------------------------
(* disconnect *)

\* Without a Space cluster (kube FALSE) a Space must be named.
StartDisconnect(n, kube, y) ==
  /\ pc = "idle"
  /\ kube \/ n # None
  /\ space' = n
  /\ yes' = y
  /\ outcome' = "none"
  /\ before' = Snapshot
  /\ pc' = IF kube THEN "getState" ELSE "consoleRobot"
  /\ UNCHANGED <<console, cluster, token, copy, made, undos, undoFailed, faults>>

\* Only remove the Space from the console, if the user agrees.
ConsoleRobot ==
  /\ pc = "consoleRobot"
  /\ IF yes
       THEN /\ DropRobotNamed(space)
            /\ Goto("consoleSpace")
            /\ UNCHANGED <<args, copy, made>>
       ELSE Finish("failed") /\ UNCHANGED <<console, faults>>
  /\ UNCHANGED cluster

ConsoleSpace ==
  /\ pc = "consoleSpace"
  /\ DeleteSpace(space)
  /\ Finish("removed")
  /\ UNCHANGED cluster

\* deleteResources: what to delete comes from the ConfigMap, or, without
\* one, from the command line and a confirmation.
GetState ==
  /\ pc = "getState"
  /\ \/ /\ cm # None
        /\ local' = cm
        /\ Goto("deleteSpace")
        /\ UNCHANGED <<args, nilData, made>>
     \/ /\ cm = None
        /\ space # None /\ yes
        /\ Goto("lostRobot")
        /\ UNCHANGED <<args, copy, made>>
     \/ /\ cm = None
        /\ space = None \/ ~yes
        /\ Finish("failed")
        /\ UNCHANGED faults
  /\ UNCHANGED <<console, cluster>>

LostRobot ==
  /\ pc = "lostRobot"
  /\ DropRobotNamed(space)
  /\ Goto("lostSpace")
  /\ UNCHANGED <<cluster, args, copy, made>>

LostSpace ==
  /\ pc = "lostSpace"
  /\ DeleteSpace(space)
  /\ pc' = "uninstall"
  /\ UNCHANGED <<cluster, args, copy, made, undos, seen>>

\* deleteGeneratedSpace: the recorded Space, which the one on the command
\* line must agree with.
DeleteRecordedSpace ==
  /\ pc = "deleteSpace"
  /\ \/ /\ local.space = None
        /\ Goto("deleteRobot")
        /\ UNCHANGED <<console, args, copy, made>>
     \/ /\ local.space # None
        /\ space \in {None, local.space}
        /\ space' = local.space
        /\ spaces' = spaces \ {local.space}
        /\ Goto("forgetSpace")
        /\ UNCHANGED <<robots, tokens, token, yes, copy, made>>
     \/ /\ local.space # None
        /\ space \notin {None, local.space}
        /\ Finish("failed")
        /\ UNCHANGED <<console, faults>>
  /\ UNCHANGED cluster

ForgetSpace ==
  /\ pc = "forgetSpace"
  /\ Update([local EXCEPT !.space = None])
  /\ Goto("deleteRobot")
  /\ UNCHANGED <<console, args, made>>

\* Mutant of DeleteRecordedRobot: only while a Space of that name exists,
\* which the step before has deleted.
DeleteRecordedRobotOfSpace ==
  /\ pc = "deleteRobot"
  /\ IF local.robot = None \/ space \notin spaces
       THEN Goto("deleteMap") /\ UNCHANGED console
       ELSE Goto("forgetRobot") /\ DeleteRobot(local.robot)
  /\ UNCHANGED <<cluster, args, copy, made>>

\* deleteAgentRobot: the recorded robot.
DeleteRecordedRobot ==
  /\ pc = "deleteRobot"
  /\ IF local.robot = None
       THEN Goto("deleteMap") /\ UNCHANGED console
       ELSE Goto("forgetRobot") /\ DeleteRobot(local.robot)
  /\ UNCHANGED <<cluster, args, copy, made>>

ForgetRobot ==
  /\ pc = "forgetRobot"
  /\ Update([local EXCEPT !.robot = None, !.token = None])
  /\ Goto("deleteMap")
  /\ UNCHANGED <<console, args, made>>

DeleteMap ==
  /\ pc = "deleteMap"
  /\ cm' = None
  /\ Goto("uninstall")
  /\ UNCHANGED <<console, secret, release, args, copy, made>>

\* An agent that is not installed counts as uninstalled.
UninstallAgent ==
  /\ pc = "uninstall"
  /\ \E o \in Uninstall(release) :
       /\ release' = o.rel
       /\ IF o.fault
            THEN Finish("failed") /\ Fault
            ELSE Goto("deleteSecret") /\ UNCHANGED <<args, copy, made>>
  /\ UNCHANGED <<console, cm, secret>>

DeleteTokenSecret ==
  /\ pc = "deleteSecret"
  /\ secret' = None
  /\ Finish("disconnected")
  /\ UNCHANGED <<console, cm, release, faults>>

\* Another call of disconnect fails: the command returns, nothing is undone.
DisconnectCallFails ==
  /\ pc \in DisconnectCalls \ {"uninstall"}
  /\ Fault
  /\ Finish("failed")
  /\ UNCHANGED <<console, cluster>>

-----------------------------------------------------------------------------
\* The process is killed; helm may be in the middle of an operation.
Kill ==
  /\ pc # "idle"
  /\ Fault
  /\ release' \in CASE pc = "agent"     -> Interrupted(release, space)
                   [] pc = "uninstall" -> HalfGone(release)
                   [] OTHER            -> {release}
  /\ Finish("killed")
  /\ UNCHANGED <<console, cm, secret>>

Init ==
  \* Other Space clusters may be connected already.
  /\ spaces \in SUBSET Names
  /\ robots \in {f \in RobotMaps : \A r, q \in RobotIds :
                  /\ f[r] \in spaces \cup {None}
                  /\ r # q /\ f[r] # None => f[q] = None}
  /\ tokens \in {f \in TokenMaps : \A t, u \in TokenIds :
                  /\ f[t] \in {r \in RobotIds : robots[r] # None} \cup {None}
                  /\ t # u /\ f[t] # None => f[u] = None}
  \* This one never was.
  /\ cm = None /\ secret = None /\ release = NoRelease
  /\ pc = "idle" /\ space = None /\ token = None /\ yes = FALSE
  /\ local = Empty /\ nilData = FALSE
  /\ name = None /\ rid = None /\ tid = None
  /\ undos = <<>>
  /\ outcome = "none" /\ undoFailed = FALSE /\ before = None
  /\ faults = 0

Connect ==
  \/ \E n \in AllNames \cup {None}, t \in {None, UserToken}, y \in BOOLEAN :
       StartConnect(n, t, y)
  \/ GetMap \/ CreateMap \/ PrepareSpace \/ OldRobot \/ OldSpace \/ DropSpace
  \/ CreateSpace \/ AdoptSpace \/ RecordSpace
  \/ FindRobot \/ CreateRobot \/ RecordRobot
  \/ ListTokens \/ CreateToken \/ RecordToken
  \/ CreateNamespace \/ CreateTokenSecret \/ InstallAgent
  \/ ConnectCallFails \/ UndoStep \/ UndoDone

Disconnect ==
  \/ \E n \in AllNames \cup {None}, k, y \in BOOLEAN : StartDisconnect(n, k, y)
  \/ ConsoleRobot \/ ConsoleSpace
  \/ GetState \/ LostRobot \/ LostSpace
  \/ DeleteRecordedSpace \/ ForgetSpace
  \/ DeleteRecordedRobot \/ ForgetRobot
  \/ DeleteMap \/ UninstallAgent \/ DeleteTokenSecret
  \/ DisconnectCallFails

Next == Connect \/ Disconnect \/ Kill

Spec == Init /\ [][Next]_vars

-----------------------------------------------------------------------------
(* Properties *)

TokenLive(t) == \/ t = UserToken
                \/ /\ t \in TokenIds
                   /\ tokens[t] # None
                   /\ robots[tokens[t]] # None

\* The cluster's agent can speak for Space n.
Usable(n) ==
  /\ n \in spaces
  /\ secret # None /\ secret.space = n /\ TokenLive(secret.token)
  /\ release.status = "deployed" /\ release.cur = n

\* When connect reports success, whatever earlier commands left behind, the
\* Space exists, the agent runs for it with a live token, and the ConfigMap
\* records the Space, the robot and the token a later disconnect must find.
ConnectedIsUsable ==
  outcome = "connected" =>
    /\ Usable(space)
    /\ cm # None /\ cm.space = space
    /\ secret.token # UserToken =>
         /\ cm.token = secret.token
         /\ cm.robot = tokens[cm.token]
         /\ robots[cm.robot] = space

(* Why: what the running connect has established when it reaches a call. *)

Robotless == {"findRobot", "createRobot"}
WithRobot == {"recordRobot", "listTokens", "createToken", "recordToken"}
WithToken == {"namespace", "secret", "agent"}
Recorded  == Robotless \cup WithRobot \cup WithToken
Unrecorded ==
  {"prepareSpace", "oldRobot", "oldSpace", "dropSpace", "createSpace",
   "recordSpace"}

CopyIsCurrent == pc \in Unrecorded \cup Recorded => cm # None /\ cm = local

SpaceIsMade ==
  /\ pc = "recordSpace" => name \in spaces
  /\ pc \in Recorded => space \in spaces /\ local.space = space

RobotIsMade ==
  /\ pc \in WithRobot => rid \in RobotIds /\ robots[rid] = space
  /\ pc \in WithRobot \ {"recordRobot"} => local.robot = rid
  /\ pc = "recordToken" => tid \in TokenIds /\ tokens[tid] = rid

TokenIsMade ==
  /\ pc \in {"getMap", "createMap"} \cup Unrecorded => token \in {None, UserToken}
  /\ pc \in WithToken =>
       \/ token = UserToken
       \/ /\ token \in TokenIds /\ local.token = token
          /\ local.robot \in RobotIds /\ tokens[token] = local.robot
          /\ robots[local.robot] = space

SecretIsMade == pc = "agent" => secret = [space |-> space, token |-> token]

\* The inductive strengthening of ConnectedIsUsable.
ConnectInv ==
  /\ CopyIsCurrent /\ SpaceIsMade /\ RobotIsMade /\ TokenIsMade /\ SecretIsMade
  /\ outcome = "connected" => pc = "idle"
  /\ ConnectedIsUsable

\* connect, failing on a cluster that was never connected and with a name
\* nobody uses, leaves console, ConfigMap and Secret as it found them, if no
\* undo function failed.  Not covered: a generated name that was never
\* recorded (space is None), and the helm release a failed Install leaves.
FailedConnectCleansUp ==
  [][ /\ UndoDone
      /\ ~undoFailed
      /\ space # None /\ space \notin before.spaces
      /\ \A r \in RobotIds : before.robots[r] # space
      /\ before.cm = None /\ before.secret = None
      => /\ <<spaces, robots, tokens>> =
              <<before.spaces, before.robots, before.tokens>>
         /\ cm = None /\ secret = None ]_vars

\* Undoing gives up the record of what was done last: when the ConfigMap
\* goes, everything this command made in the console is gone.
MapUndoneLast ==
  [][ /\ pc = "undo" /\ cm # None /\ cm' = None
      /\ ~undoFailed
      /\ name \in {None, space}
      => /\ spaces \subseteq before.spaces
         /\ \A r \in RobotIds : robots[r] # None => before.robots[r] = robots[r]
         /\ \A t \in TokenIds : tokens[t] # None => before.tokens[t] # None ]_vars

\* A disconnect that found a ConfigMap and reports success leaves nothing on
\* the cluster, and neither the recorded Space nor the recorded robot.
DisconnectedLeavesNothing ==
  [][ DeleteTokenSecret /\ before.cm # None
      => /\ cm' = None /\ secret' = None /\ release' = NoRelease
         /\ before.cm.space \notin spaces'
         /\ before.cm.robot # None =>
              /\ robots'[before.cm.robot] = None
              /\ \A t \in TokenIds : tokens'[t] # before.cm.robot ]_vars

\* A Space leaves the console only if this cluster was connected as it, if
\* the user named it and agreed, or if this very command created it: other
\* clusters' Spaces survive every failure.
OnlyConsentedSpacesRemoved ==
  [][ \A n \in spaces \ spaces' :
        \/ n \notin before.spaces
        \/ before.cm # None /\ n = before.cm.space
        \/ n = space /\ yes /\ pc \in {"consoleSpace", "lostSpace"} ]_vars

\* The cluster's link to the console, as SpaceLink has it.
Connecting == pc \in ConnectCalls \cup {"oldSpace", "agent", "undo"}

LinkedAs == IF secret # None /\ Usable(secret.space) THEN secret.space ELSE None

Phase == CASE pc = "idle" -> "idle"
           [] Connecting -> "connecting"
           [] OTHER -> "disconnecting"

\* The Space a connect is about: as named by the user, or as created.
About == IF name # None THEN name ELSE space
Goal  == IF Connecting THEN About ELSE None

Ending == IF outcome \in {"none", "connected", "disconnected"}
            THEN outcome ELSE "other"

Link == INSTANCE SpaceLink WITH
  SpaceNames <- AllNames, NoSpace <- None,
  link <- LinkedAs, phase <- Phase, goal <- Goal, result <- Ending

\* Both commands implement SpaceLink: no step of either makes the cluster
\* usable as a Space other than the one the command is about, and success
\* means what SpaceLink says.
LinkSpec == Link!Spec

\* What the program says: `Space "..." has been successfully disconnected
\* from Upbound Console`, printed when disconnect reports success.
DisconnectedSpaceIsGone ==
  outcome \in {"disconnected", "removed"} => space \notin spaces

\* What the prompt of a replacement says: the old Space is removed "and this
\* Space will be connected ... instead".  The process never panics instead.
NeverPanics == outcome # "panicked"

-----------------------------------------------------------------------------
(* Liveness *)

\* The process runs on once it is started: every call returns.  Being killed
\* and failing calls are bounded by MaxFaults, not fair.
Running == pc # "idle" /\ Next /\ ~Kill

\* An operator who wants the cluster connected as Wanted runs connect again
\* and again, agreeing to its prompts; other commands may come in between.
RetrySpec ==
  Spec /\ WF_vars(Running) /\ SF_vars(StartConnect(Wanted, None, TRUE))

\* A helm operation on the only revision was cut short: every upgrade is
\* refused and there is no revision to roll back to.
Wedged == Refused(release) /\ release.prev = None

\* connect can be resumed: whatever failures and kills came before, running
\* it again connects the Space, unless the release is wedged for good, that
\* is, unless no disconnect ever takes it away.
RetryConnects ==
  <>[]Wedged \/ []<>(outcome = "connected" /\ space = Wanted)

=============================================================================
