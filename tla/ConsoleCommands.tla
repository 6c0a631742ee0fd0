-------------------------- MODULE ConsoleCommands --------------------------
(***************************************************************************)
(* The commands that change an organization in the console: its robots,    *)
(* their tokens and teams, what teams may do with repositories, and its    *)
(* members.  Names need not be unique there, so each command lists, looks  *)
(* for a name and acts on the id it found, while others do the same.       *)
(***************************************************************************)
EXTENDS Naturals, FiniteSets

CONSTANTS
    Commands,     \* commands of up that run at the same time
    Operations,   \* what they are asked to do, a subset of AllOperations
    Names,        \* names of robots, tokens, teams and users
    MaxIds        \* bound: ids the console gives

ASSUME NamesAssumption == Names # {}

VARIABLES
    account,      \* what is in the organization: [id, kind, name, owner]
    links,        \* pairs of a robot and its team, and of a team and its repository
    lastId,       \* the last id given
    jobs          \* [Commands -> the step, the arguments and what was listed]

consoleVars == <<account, links, lastId, jobs>>

Organization == 0
Repository == 0
Deletions == {"robot delete", "team delete", "token delete", "user remove"}
Asking == Deletions \cup {"robot leave", "revoke"}
Making == {"robot create", "team create", "invite"}
AllOperations == Asking \cup Making \cup {"token create", "robot join", "grant"}

Nothing == [step |-> "idle", op |-> "none", name |-> "none", second |-> "none", force |-> FALSE,
            listed |-> {}, found |-> 0, robot |-> 0]

ConsoleInit ==
    /\ account = {[id |-> 1, kind |-> "robot", name |-> CHOOSE n \in Names : TRUE, owner |-> Organization],
                  [id |-> 2, kind |-> "member", name |-> CHOOSE n \in Names : TRUE, owner |-> Organization]}
    /\ links = {} /\ lastId = 2
    /\ jobs = [c \in Commands |-> Nothing]
-----------------------------------------------------------------------------
ConsoleSame == UNCHANGED <<account, links, lastId>>
Become(c, step) == jobs' = [jobs EXCEPT ![c].step = step]
Fail(c) == Become(c, "failed") /\ ConsoleSame

StartCommand(c, op, name, second, force) ==
    /\ jobs[c].step = "idle"
    /\ force => op \in Asking
    /\ second # name => op \in {"token delete", "robot join", "robot leave"}
    /\ jobs' = [jobs EXCEPT ![c] =
                   [Nothing EXCEPT !.op = op, !.name = name, !.second = second, !.force = force,
                    !.step = IF op \in Asking /\ ~force THEN "asking"
                             ELSE IF op \in Making THEN "create" ELSE "first"]]
    /\ ConsoleSame

Confirm(c) ==
    /\ jobs[c].step = "asking"
    /\ Become(c, "first") \/ Become(c, "canceled")
    /\ ConsoleSame

Listed(kind, owner) == {e \in account : e.kind = kind /\ e.owner = owner}
Called(listed, name) == {e \in listed : e.name = name}

\* An account that is none of an organization, an error of the listing, no
\* match, or more than one where that matters end the command.  Where it does
\* not, the first or the last one listed is taken, and without an order that
\* is any.
Find(c, list, name, unique, step) ==
    \/ Fail(c)
    \/ \E e \in Called(list, name) :
         /\ unique => Called(list, name) = {e}
         /\ jobs' = [jobs EXCEPT ![c].listed = list, ![c].found = e.id, ![c].step = step,
                                 ![c].robot = IF e.kind = "robot" THEN e.id ELSE @]
         /\ ConsoleSame

JobAt(c, step, op) == jobs[c].step = step /\ jobs[c].op = op

FindRobot(c, unique, step) == Find(c, Listed("robot", Organization), jobs[c].name, unique, step)

FindRobotToDelete(c) == JobAt(c, "first", "robot delete") /\ FindRobot(c, ~jobs[c].force, "act")
FindRobotForToken(c) == JobAt(c, "first", "token create") /\ FindRobot(c, TRUE, "act")
FindRobotOfToken(c) == JobAt(c, "first", "token delete") /\ FindRobot(c, TRUE, "second")
FindRobotToJoin(c) == JobAt(c, "first", "robot join") /\ FindRobot(c, TRUE, "second")
FindRobotToLeave(c) == JobAt(c, "first", "robot leave") /\ FindRobot(c, TRUE, "second")

FindTokenToDelete(c) ==
    /\ JobAt(c, "second", "token delete")
    /\ Find(c, Listed("token", jobs[c].robot), jobs[c].second, ~jobs[c].force, "act")

\* To join and to leave, to grant and to revoke, the first team of the name.
FindTeam(c, name) == Find(c, Listed("team", Organization), name, FALSE, "act")

FindTeamToDelete(c) ==
    /\ JobAt(c, "first", "team delete")
    /\ Find(c, Listed("team", Organization), jobs[c].name, ~jobs[c].force, "act")
FindTeamOfRobot(c) ==
    (JobAt(c, "second", "robot join") \/ JobAt(c, "second", "robot leave")) /\ FindTeam(c, jobs[c].second)
FindTeamOfRepository(c) ==
    (JobAt(c, "first", "grant") \/ JobAt(c, "first", "revoke")) /\ FindTeam(c, jobs[c].name)

\* An invite is looked for first; if that fails, in whatever way, a member.
FindUser(c) ==
    /\ JobAt(c, "first", "user remove")
    /\ \E kind \in {"invite", "member"} :
           Find(c, Listed(kind, Organization), jobs[c].name, FALSE, "act")

\* The console refuses an id it does not know.
Knows(id) == \E e \in account : e.id = id

AddEntity(c, kind, name, owner) ==
    /\ lastId < MaxIds
    /\ account' = account \cup {[id |-> lastId + 1, kind |-> kind, name |-> name, owner |-> owner]}
    /\ lastId' = lastId + 1 /\ UNCHANGED links

CreateEntity(c, op, kind) ==
    /\ JobAt(c, "create", op)
    /\ \/ Fail(c)
       \/ AddEntity(c, kind, jobs[c].name, Organization) /\ Become(c, "done")

CreateRobot(c) == CreateEntity(c, "robot create", "robot")
CreateTeam(c) == CreateEntity(c, "team create", "team")
Invite(c) == CreateEntity(c, "invite", "invite")

\* The token is shown once, to the command: if the file cannot be written the
\* token stays, and nobody can read it.
CreateToken(c) ==
    /\ JobAt(c, "act", "token create")
    /\ \/ Fail(c)
       \/ /\ Knows(jobs[c].found)
          /\ AddEntity(c, "token", jobs[c].name, jobs[c].found)
          /\ Become(c, "done") \/ Become(c, "failed")

DeleteByName(c) == \* Mutant: the console is asked by name, whatever was found
    LET gone == {e.id : e \in Called(account, IF jobs[c].op = "token delete" THEN jobs[c].second ELSE jobs[c].name)} IN
    /\ jobs[c].step = "act" /\ jobs[c].op \in Deletions
    /\ \/ Fail(c)
       \/ /\ account' = {e \in account : e.id \notin gone /\ e.owner \notin gone}
          /\ links' = {l \in links : l[1] \notin gone /\ l[2] \notin gone}
          /\ Become(c, "done") /\ UNCHANGED lastId

DeleteEntity(c) ==
    LET gone == jobs[c].found IN
    /\ jobs[c].step = "act" /\ jobs[c].op \in Deletions
    /\ \/ Fail(c)
       \/ /\ Knows(gone)
          /\ account' = {e \in account : e.id # gone /\ e.owner # gone}
          /\ links' = {l \in links : l[1] # gone /\ l[2] # gone}
          /\ Become(c, "done") /\ UNCHANGED lastId

ChangeLink(c, op, changed) ==
    /\ JobAt(c, "act", op)
    /\ \/ Fail(c)
       \/ /\ \A id \in {jobs[c].found, jobs[c].robot} \ {0} : Knows(id)
          /\ links' = changed
          /\ Become(c, "done") /\ UNCHANGED <<account, lastId>>

Membership(c) == <<jobs[c].robot, jobs[c].found>>
Permission(c) == <<jobs[c].found, Repository>>
JoinTeam(c) == ChangeLink(c, "robot join", links \cup {Membership(c)})
LeaveTeam(c) == ChangeLink(c, "robot leave", links \ {Membership(c)})
Grant(c) == ChangeLink(c, "grant", links \cup {Permission(c)})
Revoke(c) == ChangeLink(c, "revoke", links \ {Permission(c)})

FindOne(c) ==
    \/ FindRobotToDelete(c) \/ FindRobotForToken(c) \/ FindRobotOfToken(c)
    \/ FindRobotToJoin(c) \/ FindRobotToLeave(c) \/ FindTokenToDelete(c)
    \/ FindTeamToDelete(c) \/ FindTeamOfRobot(c) \/ FindTeamOfRepository(c) \/ FindUser(c)

ConsoleNext ==
    \E c \in Commands :
        \/ \E op \in Operations, name, second \in Names, force \in BOOLEAN :
               StartCommand(c, op, name, second, force)
        \/ Confirm(c) \/ FindOne(c)
        \/ CreateRobot(c) \/ CreateTeam(c) \/ Invite(c) \/ CreateToken(c)
        \/ DeleteEntity(c)
        \/ JoinTeam(c) \/ LeaveTeam(c) \/ Grant(c) \/ Revoke(c)

ConsoleSpec == ConsoleInit /\ [][ConsoleNext]_consoleVars
-----------------------------------------------------------------------------
(* What is lost was meant: whatever others made and deleted since, a       *)
(* command takes only one thing that it had seen, of the name it was       *)
(* given, the only one of that name it saw unless it was forced, and what  *)
(* belongs to it (robot/delete.go, team/delete.go, robot/token/delete.go). *)
(* User names are unique and not looked at twice.                          *)
MeantToBeLost ==
    [][\A e \in account \ account' : \E c \in Commands :
          LET job == jobs[c]
              name == IF job.op = "token delete" THEN job.second ELSE job.name
              seen == Called(job.listed, name)
          IN  /\ job.op \in Deletions /\ jobs'[c].step = "done" /\ job.step # "done"
              /\ \E t \in seen \cap account :
                    /\ e = t \/ e.owner = t.id
                    /\ job.force \/ job.op = "user remove" \/ seen = {t}]_consoleVars
=============================================================================
