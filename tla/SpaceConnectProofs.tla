------------------------- MODULE SpaceConnectProofs -------------------------
(***************************************************************************)
(* Theorems about SpaceConnect, for any names, ids and number of faults.   *)
(***************************************************************************)
EXTENDS SpaceConnect, SequenceTheorems, TLAPS

-----------------------------------------------------------------------------
(* Operators *)

LEMMA DataFacts ==
  /\ Empty \in Data
  /\ \A d \in Data : /\ \A n \in AllNames \cup {None} :
                          [d EXCEPT !.space = n] \in Data
                     /\ \A r \in RobotIds \cup {None} :
                          [d EXCEPT !.robot = r] \in Data
                     /\ \A t \in TokenIds \cup {None} :
                          [d EXCEPT !.token = t] \in Data
                     /\ [d EXCEPT !.robot = None, !.token = None] \in Data
                     /\ d.space \in AllNames \cup {None}
                     /\ d.robot \in RobotIds \cup {None}
                     /\ d.token \in TokenIds \cup {None}
BY DEF Data, Empty

LEMMA DataFields ==
  ASSUME NEW d \in Data, NEW v
  PROVE  /\ [d EXCEPT !.space = v].space = v
         /\ [d EXCEPT !.robot = v].robot = v
         /\ [d EXCEPT !.robot = v].space = d.space
         /\ [d EXCEPT !.token = v].token = v
         /\ [d EXCEPT !.token = v].space = d.space
         /\ [d EXCEPT !.token = v].robot = d.robot
BY DEF Data

\* What Install and Upgrade leave is a release, and success means the last
\* revision is deployed and runs v.
LEMMA HelmOutcome ==
  ASSUME NEW S, NEW r \in Releases(S), NEW v \in S \cup {None},
         NEW o \in Install(r, v) \cup Upgrade(r, v)
  PROVE  /\ o.rel \in Releases(S)
         /\ ~o.err => o.rel.status = "deployed" /\ o.rel.cur = v
<1> USE DEF Releases, Statuses, Deployed, Failed, NoRelease
<1>1. \A x \in Releases(S) : AfterRollback(x) \subseteq Releases(S) /\ RolledBack(x) \in Releases(S)
  BY DEF AfterRollback, RolledBack
<1>2. Deployed(v, r.cur) \in Releases(S) /\ Failed(v, r.cur) \in Releases(S)
  BY DEF Releases
<1>3. Deployed(v, None) \in Releases(S) /\ Failed(v, None) \in Releases(S)
  BY DEF Releases
<1>4. \/ o = Succeed(Deployed(v, r.cur)) \/ o = Succeed(Deployed(v, None))
      \/ o = Refuse(r) \/ o = Refuse(RolledBack(r)) \/ o = Break(r) \/ o = Break(Failed(v, None))
      \/ \E x \in AfterRollback(r) \cup AfterRollback(Failed(v, r.cur)) : o = Break(x)
  <2> HIDE DEF Deployed, Failed, NoRelease, Releases
  <2>1. CASE o \in Install(r, v)
    BY <2>1 DEF Install
  <2>2. CASE o \in Upgrade(r, v)
    BY <2>2 DEF Upgrade
  <2> QED BY <2>1, <2>2
<1> QED BY <1>1, <1>2, <1>3, <1>4 DEF Succeed, Refuse, Break

\* What an interrupted call or a failed uninstall leaves is a release, which
\* is as it was or not deployed.
LEMMA HelmReleases ==
  ASSUME NEW S, NEW r \in Releases(S), NEW v \in S \cup {None},
         NEW x \in Interrupted(r, v) \cup HalfGone(r)
  PROVE  x \in Releases(S) /\ (x = r \/ x.status # "deployed")
BY DEF Releases, Statuses, NoRelease, Interrupted, HalfGone, Pending, Failed

\* Uninstalling the agent ends the command, or goes on without the release.
LEMMA UninstallOutcome ==
  ASSUME TypeOK, UninstallAgent
  PROVE  /\ release' \in Releases(AllNames)
         /\ release' = release \/ release'.status # "deployed"
         /\ \/ Finish("failed") /\ Fault
            \/ release' = NoRelease /\ Goto("deleteSecret") /\ UNCHANGED <<args, copy, made>>
<1>1. PICK o \in Uninstall(release) :
        /\ release' = o.rel
        /\ IF o.fault
             THEN Finish("failed") /\ Fault
             ELSE Goto("deleteSecret") /\ UNCHANGED <<args, copy, made>>
  BY DEF UninstallAgent
<1>2. release \in Releases(AllNames) /\ NoRelease \in HalfGone(release)
  BY DEF TypeOK, ClusterType, HalfGone
<1>3. o.rel \in HalfGone(release) /\ (o.fault \/ o.rel = NoRelease)
  BY <1>1, <1>2 DEF Uninstall, Succeed, Refuse, Break
<1> QED BY <1>1, <1>2, <1>3, HelmReleases

\* Deleting from the console keeps its types.
LEMMA ConsoleDeletes ==
  ASSUME ConsoleType
  PROVE  /\ \A n : DeleteSpace(n) => ConsoleType'
         /\ \A r : DeleteRobot(r) => ConsoleType'
         /\ \A n : DropRobotNamed(n) => ConsoleType'
<1>1. ASSUME NEW n, DeleteSpace(n) PROVE ConsoleType'
  BY <1>1 DEF ConsoleType, DeleteSpace
<1>2. ASSUME NEW r, DeleteRobot(r) PROVE ConsoleType'
  BY <1>2 DEF ConsoleType, DeleteRobot, RobotMaps, TokenMaps
<1>3. ASSUME NEW n, DropRobotNamed(n) PROVE ConsoleType'
  BY <1>2, <1>3 DEF DropRobotNamed, ConsoleType, console
<1> QED BY <1>1, <1>2, <1>3

\* All but the last element of a sequence.
LEMMA FrontFacts ==
  ASSUME NEW S, NEW s \in Seq(S), s # <<>>
  PROVE  /\ Front(s) \in Seq(S)
         /\ Len(Front(s)) = Len(s) - 1
         /\ \A i \in 1..Len(s) - 1 : Front(s)[i] = s[i]
         /\ Len(s) \in Nat \ {0}
<1>1. Len(s) \in Nat \ {0} /\ \A i \in 1..Len(s) : s[i] \in S
  BY EmptySeq
<1> DEFINE n == Len(s) - 1
<1>2. n \in Nat /\ \A i \in 1..n : s[i] \in S
  BY <1>1
<1>3. Front(s) = SubSeq(s, 1, n) /\ n = Len(s) - 1
  BY DEF Front
<1> HIDE DEF n
<1>4. ASSUME NEW m \in Int, NEW k \in Int, \A i \in m..k : s[i] \in S
      PROVE  /\ SubSeq(s, m, k) \in Seq(S)
             /\ Len(SubSeq(s, m, k)) = IF m <= k THEN k - m + 1 ELSE 0
             /\ \A i \in 1..k - m + 1 : SubSeq(s, m, k)[i] = s[m + i - 1]
  BY <1>4, SubSeqProperties
<1>5. 1 \in Int /\ n \in Int
  BY <1>2
<1>6. /\ SubSeq(s, 1, n) \in Seq(S)
      /\ Len(SubSeq(s, 1, n)) = IF 1 <= n THEN n - 1 + 1 ELSE 0
      /\ \A i \in 1..n - 1 + 1 : SubSeq(s, 1, n)[i] = s[1 + i - 1]
  BY <1>2, <1>4, <1>5, Zenon
<1>7. (IF 1 <= n THEN n - 1 + 1 ELSE 0) = n /\ \A i \in 1..n : 1 + i - 1 = i
  BY <1>2
<1>8. n - 1 + 1 = n
  BY <1>2
<1> QED BY <1>1, <1>3, <1>6, <1>7, <1>8, Zenon

\* The undo stack stays a sequence of undo functions.
LEMMA UndoStack ==
  ASSUME undos \in Seq(Undos)
  PROVE  /\ \A u \in Undos : Append(undos, u) \in Seq(Undos)
         /\ undos # <<>> => Front(undos) \in Seq(Undos) /\ Last(undos) \in Undos
         /\ <<>> \in Seq(Undos)
BY DEF Front, Last

-----------------------------------------------------------------------------
(* Type correctness *)

LEMMA FaultType ==
  ASSUME faults \in 0..MaxFaults, Fault \/ UNCHANGED faults
  PROVE  faults' \in 0..MaxFaults
BY MaxFaultsAssumption DEF Fault

LEMMA FinishType ==
  ASSUME TypeOK, NEW o \in Outcomes, Finish(o), Fault \/ UNCHANGED faults
  PROVE  CommandType' /\ SeenType'
<1>1. faults' \in 0..MaxFaults
  BY FaultType DEF TypeOK, SeenType
<1>2. SeenType'
  BY <1>1 DEF TypeOK, SeenType, Finish
<1>3. CommandType'
  BY UndoStack, DataFacts DEF TypeOK, CommandType, Finish, Labels
<1> QED BY <1>2, <1>3

LEMMA InitType == Init => TypeOK
<1> SUFFICES ASSUME Init PROVE TypeOK
  OBVIOUS
<1>1. ConsoleType
  BY DEF Init, ConsoleType, AllNames
<1>2. ClusterType
  BY DEF Init, ClusterType, Releases, NoRelease, Statuses
<1>3. CommandType
  <2>1. <<>> \in Seq(Undos)
    OBVIOUS
  <2>2. /\ pc = "idle" /\ space = None /\ token = None /\ yes = FALSE
        /\ local = Empty /\ nilData = FALSE
        /\ name = None /\ rid = None /\ tid = None /\ undos = <<>>
    BY DEF Init
  <2> QED
    BY <2>1, <2>2, DataFacts DEF CommandType, Labels
<1>4. SeenType
  <2>1. /\ outcome = "none" /\ undoFailed = FALSE
        /\ before = None /\ faults = 0
    BY DEF Init
  <2>2. 0 \in 0..MaxFaults
    BY MaxFaultsAssumption
  <2> QED
    BY <2>1, <2>2 DEF SeenType, Outcomes
<1> QED BY <1>1, <1>2, <1>3, <1>4 DEF TypeOK


\* Goto, GotoWith and Update keep their variables' types.
LEMMA Moves ==
  ASSUME TypeOK
  PROVE  /\ \A l \in Labels : Goto(l) =>
              pc' \in Labels /\ undos' \in Seq(Undos) /\ SeenType'
         /\ \A l \in Labels, u \in Undos : GotoWith(l, u) =>
              pc' \in Labels /\ undos' \in Seq(Undos) /\ SeenType'
         /\ \A d \in Data : Update(d) =>
              local' \in Data /\ nilData' \in BOOLEAN /\ ClusterType'
<1>1. ASSUME NEW l \in Labels, Goto(l)
      PROVE  pc' \in Labels /\ undos' \in Seq(Undos) /\ SeenType'
  BY <1>1 DEF Goto, TypeOK, CommandType, SeenType, seen
<1>2. ASSUME NEW l \in Labels, NEW u \in Undos, GotoWith(l, u)
      PROVE  pc' \in Labels /\ undos' \in Seq(Undos) /\ SeenType'
  BY <1>2, UndoStack DEF GotoWith, TypeOK, CommandType, SeenType, seen
<1>3. ASSUME NEW d \in Data, Update(d)
      PROVE  local' \in Data /\ nilData' \in BOOLEAN /\ ClusterType'
  BY <1>3 DEF Update, TypeOK, ClusterType
<1> QED BY <1>1, <1>2, <1>3

LEMMA RecordType ==
  ASSUME TypeOK, NEW n \in AllNames, NEW us \in Seq(Undos),
         RecordInCopy(n, us)
  PROVE  CommandType' /\ SeenType'
<1>1. CASE nilData
  BY <1>1, FinishType DEF RecordInCopy, Outcomes
<1>2. CASE ~nilData
  BY <1>2 DEF RecordInCopy, TypeOK, CommandType, SeenType, args, copy, seen,
              Labels, ConnectCalls
<1> QED BY <1>1, <1>2

LEMMA ConnectType == TypeOK /\ Connect => TypeOK'
<1> SUFFICES ASSUME TypeOK, Connect PROVE TypeOK'
  OBVIOUS
<1> USE DEF console, cluster, args, copy, made, seen
<1>1. ASSUME NEW n \in AllNames \cup {None}, NEW t \in {None, UserToken},
             NEW y \in BOOLEAN, StartConnect(n, t, y)
      PROVE  TypeOK'
  <2>1. Snapshot \in Snapshots
    BY DEF TypeOK, ConsoleType, ClusterType, Snapshot, Snapshots
  <2>2. ConsoleType' /\ ClusterType'
    BY <1>1 DEF TypeOK, ConsoleType, ClusterType, StartConnect
  <2>3. CommandType'
    BY <1>1 DEF TypeOK, CommandType, StartConnect, Labels, ConnectCalls, Tokens
  <2>4. SeenType'
    BY <1>1, <2>1 DEF TypeOK, SeenType, StartConnect, Outcomes
  <2> QED BY <2>2, <2>3, <2>4 DEF TypeOK
<1>2. CASE GetMap
  BY <1>2, Moves DEF GetMap, TypeOK, ConsoleType, ClusterType, CommandType,
                     Labels, ConnectCalls
<1>3. CASE CreateMap
  <2>1. Empty \in Data
    BY DataFacts
  <2>2. "prepareSpace" \in Labels /\ Undo("map", None) \in Undos
    BY DEF Labels, ConnectCalls, Undo, Undos
  <2>3. pc' \in Labels /\ undos' \in Seq(Undos) /\ SeenType'
    BY <1>3, <2>2, Moves DEF CreateMap
  <2>4. ConsoleType' /\ ClusterType'
    BY <1>3, <2>1 DEF CreateMap, TypeOK, ConsoleType, ClusterType
  <2>5. CommandType'
    BY <1>3, <2>1, <2>3 DEF CreateMap, TypeOK, CommandType
  <2> QED
    BY <2>3, <2>4, <2>5 DEF TypeOK
<1>4. CASE PrepareSpace
  BY <1>4, Moves DEF PrepareSpace, Abort, TypeOK, ConsoleType, ClusterType,
       CommandType, Labels, ConnectCalls
<1>5. CASE OldRobot
  BY <1>5, Moves, ConsoleDeletes DEF OldRobot, TypeOK, ClusterType,
       CommandType, Labels
<1>6. CASE OldSpace
  <2>1. ConsoleType'
    BY <1>6, ConsoleDeletes DEF OldSpace, TypeOK
  <2>2. ClusterType'
    BY <1>6 DEF OldSpace, TypeOK, ClusterType
  <2>3. CommandType'
    BY <1>6 DEF OldSpace, TypeOK, CommandType, Labels, ConnectCalls
  <2>4. Fault \/ UNCHANGED faults
    BY <1>6 DEF OldSpace, DeleteSpace
  <2>5. SeenType'
    BY <1>6, <2>4, FaultType DEF OldSpace, TypeOK, SeenType
  <2> QED
    BY <2>1, <2>2, <2>3, <2>5 DEF TypeOK
<1>7. CASE DropSpace
  BY <1>7, Moves, DataFacts DEF DropSpace, TypeOK, ConsoleType,
       CommandType, Labels, ConnectCalls
<1>8. CASE CreateSpace
  <2>1. PICK n \in (IF space = None THEN GenNames ELSE {space}) \ spaces :
          /\ spaces' = spaces \cup {n}
          /\ RecordInCopy(n, Append(undos, Undo("space", None)))
    BY <1>8 DEF CreateSpace
  <2>2. n \in AllNames
    BY <2>1 DEF TypeOK, CommandType, AllNames
  <2>3. ConsoleType' /\ ClusterType'
    BY <1>8, <2>1, <2>2 DEF CreateSpace, TypeOK, ConsoleType, ClusterType
  <2>4. Append(undos, Undo("space", None)) \in Seq(Undos)
    BY UndoStack DEF TypeOK, CommandType, Undo, Undos
  <2>5. CommandType' /\ SeenType'
    BY <2>1, <2>2, <2>4, RecordType
  <2> QED BY <2>3, <2>5 DEF TypeOK
<1>9. CASE AdoptSpace
  <2>1. ConsoleType' /\ ClusterType'
    BY <1>9 DEF AdoptSpace, TypeOK, ConsoleType, ClusterType
  <2>2. space \in AllNames
    BY <1>9 DEF AdoptSpace, TypeOK, ConsoleType
  <2>3. AfterSpace \in Labels
    BY DEF AfterSpace, Labels, ConnectCalls
  <2>4. CASE ~RecordInCopy(space, undos)
    BY <1>9, <2>1, <2>3, <2>4, Moves
       DEF AdoptSpace, Abort, TypeOK, CommandType, Labels
  <2>5. CASE RecordInCopy(space, undos)
    BY <2>1, <2>2, <2>5, RecordType DEF TypeOK, CommandType
  <2> QED BY <2>4, <2>5
<1>10. CASE RecordSpace
  <2>1. AfterSpace \in Labels
    BY DEF AfterSpace, Labels, ConnectCalls
  <2> QED
    BY <1>10, <2>1, Moves, DataFacts DEF RecordSpace, TypeOK, ConsoleType,
       CommandType
<1>11. CASE FindRobot
  <2>1. {"createRobot", "recordRobot", "listTokens"} \subseteq Labels
    BY DEF Labels, ConnectCalls
  <2>2. \A r \in RobotIds : Undo("robot", r) \in Undos
    BY DEF Undo, Undos
  <2>3. rid' \in RobotIds \cup {None} /\ pc' \in Labels /\ undos' \in Seq(Undos) /\ SeenType'
    <3>1. CASE UNCHANGED rid /\ Goto("createRobot")
      BY <2>1, <3>1, Moves DEF TypeOK, CommandType
    <3>2. ASSUME NEW r \in RobotIds, NEW l \in Labels, rid' = r, GotoWith(l, Undo("robot", r))
          PROVE  rid' \in RobotIds \cup {None} /\ pc' \in Labels /\ undos' \in Seq(Undos) /\ SeenType'
      BY <2>2, <3>2, Moves
    <3>3. \/ UNCHANGED rid /\ Goto("createRobot")
          \/ \E r \in RobotIds, l \in Labels : rid' = r /\ GotoWith(l, Undo("robot", r))
      BY <1>11, <2>1 DEF FindRobot, Named
    <3> QED
      BY <3>1, <3>2, <3>3
  <2>4. ConsoleType' /\ ClusterType'
    BY <1>11 DEF FindRobot, TypeOK, ConsoleType, ClusterType
  <2>5. CommandType'
    BY <1>11, <2>3 DEF FindRobot, TypeOK, CommandType
  <2> QED
    BY <2>3, <2>4, <2>5 DEF TypeOK
<1>12. CASE CreateRobot
  <2>1. PICK r \in RobotIds : /\ robots' = [robots EXCEPT ![r] = space]
                              /\ rid' = r
                              /\ GotoWith("recordRobot", Undo("robot", r))
    BY <1>12 DEF CreateRobot, FreshRobots
  <2>2. Undo("robot", r) \in Undos /\ "recordRobot" \in Labels
    BY DEF Undo, Undos, Labels, ConnectCalls
  <2>3. ConsoleType'
    BY <1>12, <2>1 DEF CreateRobot, TypeOK, ConsoleType, CommandType, RobotMaps
  <2>4. pc' \in Labels /\ undos' \in Seq(Undos) /\ SeenType'
    BY <2>1, <2>2, Moves
  <2> QED
    BY <1>12, <2>1, <2>3, <2>4 DEF CreateRobot, TypeOK, ClusterType, CommandType
<1>13. CASE RecordRobot
  BY <1>13, Moves, DataFacts DEF RecordRobot, TypeOK, ConsoleType,
       CommandType, Labels, ConnectCalls
<1>14. CASE ListTokens
  BY <1>14, Moves DEF ListTokens, TypeOK, ConsoleType, ClusterType,
       CommandType, Labels, ConnectCalls, TokenMaps
<1>15. CASE CreateToken
  <2>1. PICK t \in TokenIds : /\ tokens' = [tokens EXCEPT ![t] = rid]
                              /\ tid' = t
                              /\ GotoWith("recordToken", Undo("token", t))
    BY <1>15 DEF CreateToken, FreshTokens
  <2>2. Undo("token", t) \in Undos /\ "recordToken" \in Labels
    BY DEF Undo, Undos, Labels, ConnectCalls
  <2>3. ConsoleType'
    BY <1>15, <2>1 DEF CreateToken, TypeOK, ConsoleType, CommandType, TokenMaps
  <2>4. pc' \in Labels /\ undos' \in Seq(Undos) /\ SeenType'
    BY <2>1, <2>2, Moves
  <2> QED
    BY <1>15, <2>1, <2>3, <2>4 DEF CreateToken, TypeOK, ClusterType, CommandType
<1>16. CASE RecordToken
  BY <1>16, Moves, DataFacts DEF RecordToken, TypeOK, ConsoleType,
       CommandType, Labels, ConnectCalls, Tokens
<1>17. CASE CreateNamespace
  BY <1>17, Moves DEF CreateNamespace, TypeOK, ConsoleType, ClusterType,
       CommandType, Labels, ConnectCalls
<1>18. CASE CreateTokenSecret
  <2>1. ClusterType'
    BY <1>18 DEF CreateTokenSecret, TypeOK, ClusterType, CommandType, Secrets
  <2> QED
    BY <1>18, <2>1, Moves DEF CreateTokenSecret, TypeOK, ConsoleType,
       CommandType, Labels, Undo, Undos
<1>19. CASE InstallAgent
  <2>1. PICK o \in Install(release, space) \cup Upgrade(release, space) :
          /\ release' = o.rel
          /\ IF o.fault THEN Fault ELSE UNCHANGED faults
          /\ IF o.err
               THEN /\ pc' = "undo"
                    /\ UNCHANGED <<args, copy, made, undos, seen>>
               ELSE Finish("connected")
    BY <1>19 DEF InstallAgent
  <2>2. release \in Releases(AllNames) /\ space \in AllNames \cup {None}
    BY DEF TypeOK, ClusterType, CommandType
  <2>3. release' \in Releases(AllNames)
    BY <2>1, <2>2, HelmOutcome
  <2>4. ConsoleType' /\ ClusterType'
    BY <1>19, <2>3 DEF InstallAgent, TypeOK, ConsoleType, ClusterType
  <2>5. CASE Finish("connected")
    BY <2>1, <2>4, <2>5, FinishType DEF TypeOK, Outcomes
  <2>6. CASE pc' = "undo" /\ UNCHANGED <<args, copy, made, undos, seen>>
    BY <2>1, <2>4, <2>6, FaultType DEF TypeOK, CommandType, SeenType, Labels
  <2> QED BY <2>1, <2>5, <2>6
<1>20. CASE ConnectCallFails
  BY <1>20, FaultType DEF ConnectCallFails, TypeOK, ConsoleType, ClusterType,
       CommandType, SeenType, Labels
<1>21. CASE UndoStep
  <2>1. /\ undos' \in Seq(Undos)
        /\ Last(undos) \in Undos
    BY <1>21, UndoStack DEF UndoStep, TypeOK, CommandType
  <2>2. ASSUME UndoEffect(Last(undos)) PROVE ConsoleType' /\ ClusterType'
    <3>1. ConsoleType'
      <4> DEFINE k == Last(undos).kind
      <4>1. CASE k = "map" \/ k = "secret"
        BY <2>2, <4>1 DEF UndoEffect, TypeOK, ConsoleType
      <4>2. CASE k = "space"
        BY <2>2, <4>2 DEF UndoEffect, TypeOK, ConsoleType
      <4>3. CASE k = "robot"
        BY <2>2, <4>3, ConsoleDeletes DEF UndoEffect, TypeOK
      <4>4. CASE k = "token"
        BY <2>2, <4>4 DEF UndoEffect, TypeOK, ConsoleType, TokenMaps
      <4> QED
        BY <2>1, <4>1, <4>2, <4>3, <4>4 DEF Undos
    <3>2. ClusterType'
      BY <2>1, <2>2 DEF UndoEffect, TypeOK, ClusterType, Undos
    <3> QED BY <3>1, <3>2
  <2>3. ConsoleType' /\ ClusterType'
    BY <1>21, <2>2 DEF UndoStep, TypeOK, ConsoleType, ClusterType
  <2>4. SeenType'
    BY <1>21, FaultType DEF UndoStep, TypeOK, SeenType
  <2> QED
    BY <1>21, <2>1, <2>3, <2>4 DEF UndoStep, TypeOK, CommandType
<1>22. CASE UndoDone
  BY <1>22, FinishType DEF UndoDone, TypeOK, ConsoleType, ClusterType, Outcomes
<1> QED
  BY <1>1, <1>2, <1>3, <1>4, <1>5, <1>6, <1>7, <1>8, <1>9, <1>10, <1>11, <1>12,
     <1>13, <1>14, <1>15, <1>16, <1>17, <1>18, <1>19, <1>20, <1>21, <1>22
     DEF Connect


LEMMA DisconnectType == TypeOK /\ Disconnect => TypeOK'
<1> SUFFICES ASSUME TypeOK, Disconnect PROVE TypeOK'
  OBVIOUS
<1> USE DEF console, cluster, args, copy, made, seen
<1>1. ASSUME NEW n \in AllNames \cup {None}, NEW k \in BOOLEAN,
             NEW y \in BOOLEAN, StartDisconnect(n, k, y)
      PROVE  TypeOK'
  <2>1. Snapshot \in Snapshots
    BY DEF TypeOK, ConsoleType, ClusterType, Snapshot, Snapshots
  <2>2. ConsoleType' /\ ClusterType'
    BY <1>1 DEF TypeOK, ConsoleType, ClusterType, StartDisconnect
  <2>3. CommandType'
    BY <1>1 DEF TypeOK, CommandType, StartDisconnect, Labels, DisconnectCalls
  <2>4. SeenType'
    BY <1>1, <2>1 DEF TypeOK, SeenType, StartDisconnect, Outcomes
  <2> QED BY <2>2, <2>3, <2>4 DEF TypeOK
<1>2. CASE ConsoleRobot
  <2>1. "failed" \in Outcomes /\ "consoleSpace" \in Labels
    BY DEF Outcomes, Labels
  <2>2. ConsoleType' /\ ClusterType'
    BY <1>2, ConsoleDeletes DEF ConsoleRobot, TypeOK, ConsoleType, ClusterType
  <2> QED
    BY <1>2, <2>1, <2>2, Moves, FinishType DEF ConsoleRobot, TypeOK, CommandType
<1>3. CASE ConsoleSpace
  BY <1>3, FinishType, ConsoleDeletes DEF ConsoleSpace, DeleteSpace, TypeOK,
       ClusterType, Outcomes
<1>4. CASE GetState
  <2>1. ConsoleType' /\ ClusterType'
    BY <1>4 DEF GetState, TypeOK, ConsoleType, ClusterType
  <2>2. CASE Finish("failed") /\ UNCHANGED faults
    BY <2>1, <2>2, FinishType DEF TypeOK, Outcomes
  <2>3. CASE cm # None /\ local' = cm /\ Goto("deleteSpace")
             /\ UNCHANGED <<args, nilData, made>>
    BY <2>1, <2>3, Moves DEF TypeOK, ClusterType, CommandType, Labels,
         DisconnectCalls
  <2>4. CASE Goto("lostRobot") /\ UNCHANGED <<args, copy, made>>
    BY <2>1, <2>4, Moves DEF TypeOK, CommandType, Labels, DisconnectCalls
  <2> QED BY <1>4, <2>2, <2>3, <2>4 DEF GetState
<1>5. CASE LostRobot
  BY <1>5, Moves, ConsoleDeletes DEF LostRobot, TypeOK, ClusterType,
       CommandType, Labels
<1>6. CASE LostSpace
  BY <1>6, FaultType, ConsoleDeletes DEF LostSpace, DeleteSpace, TypeOK,
       ClusterType, CommandType, SeenType, Labels, DisconnectCalls
<1>7. CASE DeleteRecordedSpace
  <2>1. ConsoleType' /\ ClusterType'
    BY <1>7 DEF DeleteRecordedSpace, TypeOK, ConsoleType, ClusterType
  <2>2. CASE Finish("failed") /\ UNCHANGED faults
    BY <2>1, <2>2, FinishType DEF TypeOK, Outcomes
  <2>3. CASE Goto("deleteRobot") /\ UNCHANGED <<args, copy, made>>
    BY <2>1, <2>3, Moves DEF TypeOK, CommandType, Labels, DisconnectCalls
  <2>4. CASE /\ space' = local.space
             /\ Goto("forgetSpace")
             /\ UNCHANGED <<token, yes, copy, made>>
    BY <2>1, <2>4, Moves, DataFacts DEF TypeOK, CommandType, Labels,
         DisconnectCalls
  <2> QED BY <1>7, <2>2, <2>3, <2>4 DEF DeleteRecordedSpace
<1>8. CASE ForgetSpace
  BY <1>8, Moves, DataFacts DEF ForgetSpace, TypeOK, ConsoleType,
       CommandType, Labels, DisconnectCalls
<1>9. CASE DeleteRecordedRobot
  BY <1>9, Moves, ConsoleDeletes DEF DeleteRecordedRobot, TypeOK, ConsoleType,
       ClusterType, CommandType, Labels, DisconnectCalls
<1>10. CASE ForgetRobot
  BY <1>10, Moves, DataFacts DEF ForgetRobot, TypeOK, ConsoleType,
       CommandType, Labels, DisconnectCalls
<1>11. CASE DeleteMap
  BY <1>11, Moves DEF DeleteMap, TypeOK, ConsoleType, ClusterType,
       CommandType, Labels, DisconnectCalls
<1>12. CASE UninstallAgent
  <2>1. ConsoleType' /\ ClusterType'
    BY <1>12, UninstallOutcome DEF UninstallAgent, TypeOK, ConsoleType, ClusterType, console
  <2>2. CASE Finish("failed") /\ Fault
    BY <2>1, <2>2, FinishType DEF TypeOK, Outcomes
  <2>3. CASE Goto("deleteSecret") /\ UNCHANGED <<args, copy, made>>
    BY <2>1, <2>3, Moves DEF TypeOK, CommandType, Labels, DisconnectCalls
  <2> QED BY <1>12, <2>2, <2>3, UninstallOutcome
<1>13. CASE DeleteTokenSecret
  BY <1>13, FinishType DEF DeleteTokenSecret, TypeOK, ConsoleType,
       ClusterType, Outcomes
<1>14. CASE DisconnectCallFails
  BY <1>14, FinishType DEF DisconnectCallFails, TypeOK, ConsoleType,
       ClusterType, Outcomes
<1> QED
  BY <1>1, <1>2, <1>3, <1>4, <1>5, <1>6, <1>7, <1>8, <1>9, <1>10, <1>11, <1>12,
     <1>13, <1>14 DEF Disconnect

\* Every reachable state of SpaceConnect is well typed: what a failed or
\* killed command leaves in the cluster is always readable by the next one.
THEOREM TypeCorrect == Spec => []TypeOK
<1>1. TypeOK /\ Kill => TypeOK'
  <2> SUFFICES ASSUME TypeOK, Kill PROVE TypeOK'
    OBVIOUS
  <2>1. release' \in Releases(AllNames)
    <3>1. release \in Releases(AllNames) /\ space \in AllNames \cup {None}
      BY DEF TypeOK, ClusterType, CommandType
    <3>2. release' \in {release} \cup Interrupted(release, space) \cup HalfGone(release)
      BY DEF Kill
    <3> QED BY <3>1, <3>2, HelmReleases
  <2> QED
    BY <2>1, FinishType DEF Kill, TypeOK, ConsoleType, ClusterType, Outcomes,
                            console
<1>2. TypeOK /\ UNCHANGED vars => TypeOK'
  BY DEF TypeOK, ConsoleType, ClusterType, CommandType, SeenType, vars,
         console, cluster, args, copy, made, seen
<1>3. TypeOK /\ [Next]_vars => TypeOK'
  BY <1>1, <1>2, ConnectType, DisconnectType DEF Next
<1> QED
  BY InitType, <1>3, PTL DEF Spec


-----------------------------------------------------------------------------
(* connect keeps its promise *)

Elsewhere == Labels \ ({"idle", "getMap", "createMap"} \cup Unrecorded \cup Recorded)

\* Outside connect's own calls ConnectInv says nothing but that connect has
\* not just succeeded.
LEMMA FinishVacuous ==
  ASSUME NEW o, o # "connected", Finish(o)
  PROVE  ConnectInv'
<1>1. outcome' # "connected" /\ pc' \in Elsewhere \cup {"idle"}
  BY DEF Finish
<1> QED
  BY <1>1 DEF ConnectInv, CopyIsCurrent, SpaceIsMade, RobotIsMade, TokenIsMade,
       SecretIsMade, ConnectedIsUsable, Elsewhere, Unrecorded, Recorded,
       Robotless, WithRobot, WithToken

LEMMA ElsewhereVacuous ==
  ASSUME pc' \in Elsewhere, outcome' # "connected"
  PROVE  ConnectInv'
BY DEF ConnectInv, CopyIsCurrent, SpaceIsMade, RobotIsMade, TokenIsMade,
       SecretIsMade, ConnectedIsUsable, Elsewhere, Unrecorded, Recorded,
       Robotless, WithRobot, WithToken

\* No disconnect step, and no step that undoes or kills, ends in success of
\* connect.
LEMMA DisconnectInv == TypeOK /\ ConnectInv /\ (Disconnect \/ Kill) => ConnectInv'
<1> SUFFICES ASSUME TypeOK, ConnectInv, Disconnect \/ Kill PROVE ConnectInv'
  OBVIOUS
<1>1. pc # "idle" => outcome # "connected"
  BY DEF ConnectInv
<1>2. DisconnectCalls \cup {"consoleSpace", "lostSpace"} \subseteq Elsewhere
  BY DEF Elsewhere, Labels, DisconnectCalls, ConnectCalls, Unrecorded, Recorded,
         Robotless, WithRobot, WithToken
<1>3. \A o \in {"failed", "removed", "disconnected", "killed"} :
        Finish(o) => ConnectInv'
  BY FinishVacuous
<1>4. \A l \in DisconnectCalls \cup {"consoleSpace", "lostSpace"} :
        Goto(l) /\ outcome # "connected" => ConnectInv'
  BY <1>2, ElsewhereVacuous DEF Goto, seen
<1>5. ASSUME NEW n, NEW k, NEW y, StartDisconnect(n, k, y) PROVE ConnectInv'
  BY <1>2, <1>5, ElsewhereVacuous DEF StartDisconnect, DisconnectCalls
<1>6. CASE LostSpace
  <2>1. pc' = "uninstall" /\ outcome' = outcome /\ pc = "lostSpace"
    BY <1>6 DEF LostSpace, seen
  <2> QED
    BY <1>1, <1>2, <2>1, ElsewhereVacuous DEF DisconnectCalls
<1>7. CASE ConsoleRobot
  BY <1>1, <1>3, <1>4, <1>7 DEF ConsoleRobot
<1>8. CASE ConsoleSpace
  BY <1>3, <1>8 DEF ConsoleSpace
<1>9. CASE GetState
  BY <1>1, <1>3, <1>4, <1>9 DEF GetState, DisconnectCalls
<1>10. CASE LostRobot
  BY <1>1, <1>4, <1>10 DEF LostRobot
<1>11. CASE DeleteRecordedSpace
  BY <1>1, <1>3, <1>4, <1>11 DEF DeleteRecordedSpace, DisconnectCalls
<1>12. CASE ForgetSpace
  BY <1>1, <1>4, <1>12 DEF ForgetSpace, DisconnectCalls
<1>13. CASE DeleteRecordedRobot
  BY <1>1, <1>4, <1>13 DEF DeleteRecordedRobot, DisconnectCalls
<1>14. CASE ForgetRobot
  BY <1>1, <1>4, <1>14 DEF ForgetRobot, DisconnectCalls
<1>15. CASE DeleteMap
  BY <1>1, <1>4, <1>15 DEF DeleteMap, DisconnectCalls
<1>16. CASE UninstallAgent
  BY <1>1, <1>3, <1>4, <1>16, UninstallOutcome DEF UninstallAgent, DisconnectCalls
<1>17. CASE DeleteTokenSecret \/ DisconnectCallFails \/ Kill
  BY <1>3, <1>17 DEF DeleteTokenSecret, DisconnectCallFails, Kill
<1> QED
  BY <1>5, <1>6, <1>7, <1>8, <1>9, <1>10, <1>11, <1>12, <1>13, <1>14, <1>15,
     <1>16, <1>17 DEF Disconnect

\* Each step of connect establishes what the next call relies on.
LEMMA ConnectStepInv == TypeOK /\ ConnectInv /\ Connect => ConnectInv'
<1> SUFFICES ASSUME TypeOK, ConnectInv, Connect PROVE ConnectInv'
  OBVIOUS
<1> USE DEF console, cluster, args, copy, made, seen
<1> DEFINE Facts == /\ CopyIsCurrent /\ SpaceIsMade /\ RobotIsMade
                    /\ TokenIsMade /\ SecretIsMade
<1>1. pc # "idle" => outcome # "connected"
  BY DEF ConnectInv
<1>2. ASSUME outcome' # "connected", Facts' PROVE ConnectInv'
  BY <1>2 DEF ConnectInv, ConnectedIsUsable
<1>3. Facts
  BY DEF ConnectInv
<1>4. {"undo"} \subseteq Elsewhere
  BY DEF Elsewhere, Labels, DisconnectCalls, ConnectCalls, Unrecorded, Recorded,
         Robotless, WithRobot, WithToken
<1> USE DEF CopyIsCurrent, SpaceIsMade, RobotIsMade, TokenIsMade, SecretIsMade,
            Unrecorded, Recorded, Robotless, WithRobot, WithToken
<1>5. ASSUME NEW n, NEW t \in {None, UserToken}, NEW y, StartConnect(n, t, y)
      PROVE  ConnectInv'
  BY <1>2, <1>3, <1>5 DEF StartConnect
<1>6. CASE GetMap
  BY <1>1, <1>2, <1>3, <1>6 DEF GetMap, Goto
<1>7. CASE CreateMap
  BY <1>1, <1>2, <1>3, <1>7, DataFacts, ObjectsAssumption
     DEF CreateMap, GotoWith
<1>8. CASE PrepareSpace
  BY <1>1, <1>2, <1>3, <1>8 DEF PrepareSpace, Abort, Goto
<1>9. CASE OldRobot
  BY <1>1, <1>2, <1>3, <1>9 DEF OldRobot, Goto
<1>10. CASE OldSpace
  BY <1>1, <1>2, <1>3, <1>10 DEF OldSpace
<1>11. \A d \in Data : Update(d) => cm' # None /\ cm' = local'
  BY ObjectsAssumption DEF Update
<1>12. local \in Data
  BY DEF TypeOK, CommandType
<1>13. CASE DropSpace
  BY <1>1, <1>2, <1>3, <1>11, <1>12, <1>13, DataFacts DEF DropSpace, Goto
<1>14. CASE CreateSpace
  <2>1. PICK n \in (IF space = None THEN GenNames ELSE {space}) \ spaces :
          /\ spaces' = spaces \cup {n}
          /\ RecordInCopy(n, Append(undos, Undo("space", None)))
    BY <1>14 DEF CreateSpace
  <2>2. CASE nilData
    BY <2>1, <2>2, FinishVacuous DEF RecordInCopy
  <2>3. CASE ~nilData
    <3>1. pc' = "recordSpace" /\ name' = n /\ name' \in spaces'
      BY <2>1, <2>3 DEF RecordInCopy
    <3>2. UNCHANGED <<cm, local, token, outcome>>
      BY <1>14, <2>1, <2>3 DEF CreateSpace, RecordInCopy
    <3> QED
      BY <1>1, <1>2, <1>3, <1>14, <3>1, <3>2 DEF CreateSpace
  <2> QED BY <2>2, <2>3
<1>15. CASE AdoptSpace
  <2>1. CASE RecordInCopy(space, undos) /\ nilData
    BY <2>1, FinishVacuous DEF RecordInCopy
  <2>2. CASE RecordInCopy(space, undos) /\ ~nilData
    BY <1>1, <1>2, <1>3, <1>15, <2>2 DEF RecordInCopy, AdoptSpace
  <2>3. CASE ~RecordInCopy(space, undos)
    BY <1>1, <1>2, <1>3, <1>15, <2>3 DEF AdoptSpace, AfterSpace, Abort, Goto
  <2> QED BY <2>1, <2>2, <2>3
<1>16. CASE RecordSpace
  <2>1. /\ name \in spaces /\ name \in AllNames /\ space' = name
        /\ pc' \in {"findRobot", "namespace"}
        /\ pc' = "namespace" => token = UserToken
        /\ UNCHANGED <<spaces, token, outcome>>
    BY <1>3, <1>16 DEF RecordSpace, Goto, AfterSpace, TypeOK, ConsoleType
  <2>2. cm' # None /\ cm' = local' /\ local'.space = name
    BY <1>11, <1>12, <1>16, <2>1, DataFacts, DataFields DEF RecordSpace, Update
  <2> QED
    BY <1>1, <1>2, <1>16, <2>1, <2>2 DEF RecordSpace
<1>17. CASE FindRobot
  BY <1>1, <1>2, <1>3, <1>17 DEF FindRobot, Named, Goto, GotoWith
<1>18. CASE CreateRobot
  BY <1>1, <1>2, <1>3, <1>18 DEF CreateRobot, FreshRobots, GotoWith, TypeOK,
                                 ConsoleType, RobotMaps
<1>19. CASE RecordRobot
  <2>1. /\ rid \in RobotIds /\ robots[rid] = space
        /\ pc' = "listTokens"
        /\ space \in spaces /\ local.space = space
        /\ UNCHANGED <<console, space, rid, outcome>>
    BY <1>3, <1>19 DEF RecordRobot, Goto
  <2>2. /\ cm' # None /\ cm' = local'
        /\ local'.space = local.space /\ local'.robot = rid
    BY <1>11, <1>12, <1>19, <2>1, DataFacts, DataFields DEF RecordRobot, Update
  <2> QED
    BY <1>1, <1>2, <1>19, <2>1, <2>2 DEF RecordRobot
<1>20. CASE ListTokens
  BY <1>1, <1>2, <1>3, <1>20 DEF ListTokens, Goto
<1>21. CASE CreateToken
  BY <1>1, <1>2, <1>3, <1>21 DEF CreateToken, FreshTokens, GotoWith, TypeOK,
                                 ConsoleType, TokenMaps
<1>22. CASE RecordToken
  <2>1. /\ rid \in RobotIds /\ robots[rid] = space /\ local.robot = rid
        /\ tid \in TokenIds /\ tokens[tid] = rid /\ token' = tid
        /\ pc' = "namespace"
        /\ space \in spaces /\ local.space = space
        /\ UNCHANGED <<console, space, rid, outcome>>
    BY <1>3, <1>22 DEF RecordToken, Goto
  <2>2. /\ cm' # None /\ cm' = local'
        /\ local'.space = local.space
        /\ local'.robot = local.robot
        /\ local'.token = tid
    BY <1>11, <1>12, <1>22, <2>1, DataFacts, DataFields DEF RecordToken, Update
  <2> QED
    BY <1>1, <1>2, <1>22, <2>1, <2>2 DEF RecordToken
<1>23. CASE CreateNamespace
  BY <1>1, <1>2, <1>3, <1>23 DEF CreateNamespace, Goto
<1>24. CASE CreateTokenSecret
  BY <1>1, <1>2, <1>3, <1>24 DEF CreateTokenSecret, GotoWith
<1>25. CASE InstallAgent
  <2>1. PICK o \in Install(release, space) \cup Upgrade(release, space) :
          /\ release' = o.rel
          /\ IF o.err
               THEN pc' = "undo" /\ UNCHANGED outcome
               ELSE Finish("connected")
    BY <1>25 DEF InstallAgent
  <2>2. CASE pc' = "undo" /\ UNCHANGED outcome
    BY <1>1, <1>4, <1>25, <2>2, ElsewhereVacuous DEF InstallAgent
  <2>3. CASE ~o.err /\ Finish("connected")
    <3>1. /\ pc' = "idle" /\ outcome' = "connected"
          /\ UNCHANGED <<console, cm, secret, space>>
      BY <1>25, <2>3 DEF InstallAgent, Finish
    <3>2. /\ cm # None /\ cm = local
          /\ space \in spaces /\ local.space = space
          /\ secret = [space |-> space, token |-> token]
          /\ \/ token = UserToken
             \/ /\ token \in TokenIds /\ local.token = token
                /\ local.robot \in RobotIds /\ tokens[token] = local.robot
                /\ robots[local.robot] = space
      BY <1>3, <1>25 DEF InstallAgent
    <3>3. release'.status = "deployed" /\ release'.cur = space
      <4>1. release \in Releases(AllNames) /\ space \in AllNames \cup {None}
        BY DEF TypeOK, ClusterType, CommandType
      <4> QED
        BY <2>1, <2>3, <4>1, HelmOutcome
    <3>4. space # None /\ None \notin RobotIds /\ secret # None
      <4>1. space \in AllNames /\ token \in Tokens
        BY <3>2 DEF TypeOK, ConsoleType, Tokens
      <4> QED
        BY <3>2, <4>1, NamesAssumption, ObjectsAssumption DEF Secrets
    <3>5. secret.space = space /\ secret.token = token
      BY <3>2
    <3>6. /\ tokens' = tokens /\ robots' = robots /\ spaces' = spaces
          /\ cm' = cm /\ secret' = secret /\ space' = space
          /\ secret'.space = space /\ secret'.token = token
      BY <3>1, <3>5 DEF console
    <3>7. ConnectedIsUsable'
      BY <3>1, <3>2, <3>3, <3>4, <3>5, <3>6 DEF ConnectedIsUsable, Usable,
         TokenLive
    <3>8. Facts'
      BY <3>1
    <3> QED
      BY <3>1, <3>7, <3>8 DEF ConnectInv
  <2> QED BY <2>1, <2>2, <2>3
<1>26. CASE ConnectCallFails
  BY <1>1, <1>4, <1>26, ElsewhereVacuous DEF ConnectCallFails, ConnectCalls
<1>27. CASE UndoStep
  BY <1>1, <1>4, <1>27, ElsewhereVacuous DEF UndoStep
<1>28. CASE UndoDone
  BY <1>28, FinishVacuous DEF UndoDone
<1> QED
  BY <1>5, <1>6, <1>7, <1>8, <1>9, <1>10, <1>13, <1>14, <1>15, <1>16, <1>17,
     <1>18, <1>19, <1>20, <1>21, <1>22, <1>23, <1>24, <1>25, <1>26, <1>27, <1>28
     DEF Connect

LEMMA ConnectInvHolds == Spec => []ConnectInv
<1>1. Init => ConnectInv
  BY DEF Init, ConnectInv, CopyIsCurrent, SpaceIsMade, RobotIsMade,
         TokenIsMade, SecretIsMade, ConnectedIsUsable, Unrecorded, Recorded,
         Robotless, WithRobot, WithToken
<1>2. TypeOK /\ ConnectInv /\ UNCHANGED vars => ConnectInv'
  BY DEF vars, console, cluster, args, copy, made, seen,
         ConnectInv, CopyIsCurrent, SpaceIsMade, RobotIsMade, TokenIsMade,
         SecretIsMade, ConnectedIsUsable, Usable, TokenLive
<1>3. TypeOK /\ ConnectInv /\ [Next]_vars => ConnectInv'
  BY <1>2, ConnectStepInv, DisconnectInv DEF Next
<1> QED
  BY <1>1, <1>3, TypeCorrect, PTL DEF Spec

\* Whatever earlier commands failed, were killed or were left half undone,
\* a connect that reports success leaves a cluster whose agent can speak for
\* the Space, and the records a later disconnect needs.
THEOREM ConnectKeepsItsPromise == Spec => []ConnectedIsUsable
<1>1. ConnectInv => ConnectedIsUsable
  BY DEF ConnectInv
<1> QED
  BY <1>1, ConnectInvHolds, PTL

-----------------------------------------------------------------------------
(* Both commands implement SpaceLink *)

\* Calls of connect before it has sent a Space object.
Replacing == {"oldRobot", "oldSpace", "dropSpace"}
Unnamed   == {"getMap", "createMap", "prepareSpace", "createSpace"} \cup Replacing

\* Calls of disconnect.
Away == DisconnectCalls \cup {"consoleSpace", "lostSpace"}

\* A token belongs to a robot that exists.
TokensOwned ==
  \A t \in TokenIds : tokens[t] # None => robots[tokens[t]] # None

\* What name and c.Space say of each other, and when the copy of the
\* ConfigMap may have lost its map.
NameInv ==
  /\ pc \in Unnamed \cup {"idle"} => name = None
  /\ pc = "recordSpace" => name \in AllNames /\ space \in {None, name}
  /\ pc \in Recorded => name \in {None, space}
  /\ pc = "undo" => name = None \/ space \in {None, name}
  /\ pc \in Replacing => space \notin {None, local.space}
  /\ pc \in {"idle", "getMap", "createMap", "prepareSpace"} => ~nilData
  /\ pc = "createSpace" /\ nilData => space # None

LinkInv == TokensOwned /\ NameInv

\* The command has returned or died.
Ended == /\ pc' = "idle" /\ name' = None /\ ~nilData' /\ undos' = <<>>
         /\ before' = None /\ space' = space

LEMMA FinishEnds == ASSUME NEW o, Finish(o) PROVE Ended
BY DEF Finish, Ended

\* disconnect never gets into connect's calls.
LEMMA DisconnectStaysAway == Disconnect => Ended \/ pc' \in Away
<1> USE FinishEnds DEF Away, DisconnectCalls, Goto
<1>1. ASSUME NEW n, NEW k, NEW y, StartDisconnect(n, k, y) PROVE pc' \in Away
  BY <1>1 DEF StartDisconnect
<1>2. CASE ConsoleRobot \/ ConsoleSpace \/ GetState
  BY <1>2 DEF ConsoleRobot, ConsoleSpace, GetState
<1>3. CASE LostRobot \/ LostSpace \/ DeleteRecordedSpace \/ ForgetSpace
  BY <1>3 DEF LostRobot, LostSpace, DeleteRecordedSpace, ForgetSpace
<1>4. CASE DeleteRecordedRobot \/ ForgetRobot \/ DeleteMap \/ UninstallAgent
  BY <1>4 DEF DeleteRecordedRobot, ForgetRobot, DeleteMap, UninstallAgent
<1>5. CASE DeleteTokenSecret \/ DisconnectCallFails
  BY <1>5 DEF DeleteTokenSecret, DisconnectCallFails
<1> QED BY <1>1, <1>2, <1>3, <1>4, <1>5 DEF Disconnect

\* The calls of both commands are told apart.
LEMMA CallsApart ==
  /\ Away \cap (Unnamed \cup Recorded \cup {"idle", "recordSpace", "undo"}) = {}
  /\ Unnamed \cap (Recorded \cup {"idle", "recordSpace", "undo"}) = {}
  /\ Recorded \cap {"idle", "recordSpace", "undo"} = {}
  /\ Labels = Away \cup Unnamed \cup Recorded \cup {"idle", "recordSpace", "undo"}
  /\ Connecting <=> pc \in Unnamed \cup Recorded \cup {"recordSpace", "undo"}
BY DEF Away, Unnamed, Recorded, Replacing, Robotless, WithRobot, WithToken,
       DisconnectCalls, ConnectCalls, Labels, Connecting

LEMMA NameStep == TypeOK /\ NameInv /\ Next => NameInv'
<1> SUFFICES ASSUME TypeOK, NameInv, Next PROVE NameInv'
  OBVIOUS
<1> USE DEF console, cluster, args, copy, made, seen
<1>1. Ended => NameInv'
  BY CallsApart DEF Ended, NameInv, Unnamed, Replacing
<1>2. pc' \in Away => NameInv'
  BY CallsApart DEF NameInv, Unnamed
<1>3. CASE Disconnect \/ Kill
  BY <1>1, <1>2, <1>3, DisconnectStaysAway, FinishEnds DEF Kill
<1>4. CASE ConnectCallFails \/ InstallAgent
  <2>1. pc \in Unnamed \cup Recorded \cup {"recordSpace"}
    BY <1>4 DEF ConnectCallFails, InstallAgent, ConnectCalls, Unnamed,
       Replacing, Recorded, Robotless, WithRobot, WithToken
  <2>2. Ended \/ (pc' = "undo" /\ UNCHANGED <<name, space>>)
    BY <1>4, FinishEnds DEF ConnectCallFails, InstallAgent
  <2>3. name = None \/ space \in {None, name}
    BY <2>1 DEF NameInv
  <2>4. pc' = "undo" /\ UNCHANGED <<name, space>> => NameInv'
    BY <2>3 DEF NameInv, Unnamed, Replacing, Recorded, Robotless, WithRobot,
       WithToken
  <2> QED BY <1>1, <2>2, <2>4
<1> USE DEF NameInv, Unnamed, Replacing, Recorded, Robotless, WithRobot, WithToken
<1>5. CASE UndoStep \/ UndoDone
  BY <1>1, <1>5, FinishEnds DEF UndoStep, UndoDone
<1>6. ASSUME NEW n, NEW t, NEW y, StartConnect(n, t, y) PROVE NameInv'
  BY <1>6 DEF StartConnect
<1>7. CASE GetMap \/ CreateMap \/ PrepareSpace
  BY <1>7 DEF GetMap, CreateMap, PrepareSpace, Abort, Goto, GotoWith
<1>8. CASE OldRobot \/ OldSpace \/ DropSpace
  BY <1>8 DEF OldRobot, OldSpace, DropSpace, Goto
<1>9. ASSUME NEW n \in AllNames, NEW us, RecordInCopy(n, us), pc = "createSpace",
             space \in {None, n}
      PROVE  NameInv'
  BY <1>1, <1>9, FinishEnds DEF RecordInCopy
<1>10. CASE CreateSpace
  BY <1>9, <1>10 DEF CreateSpace, TypeOK, CommandType, AllNames
<1>11. CASE AdoptSpace
  BY <1>9, <1>11 DEF AdoptSpace, Abort, Goto, AfterSpace, TypeOK, ConsoleType
<1>12. CASE RecordSpace
  BY <1>12 DEF RecordSpace, Goto, AfterSpace
<1>13. CASE FindRobot \/ CreateRobot \/ RecordRobot
  BY <1>13 DEF FindRobot, CreateRobot, RecordRobot, Goto, GotoWith
<1>14. CASE ListTokens \/ CreateToken \/ RecordToken
  BY <1>14 DEF ListTokens, CreateToken, RecordToken, Goto, GotoWith
<1>15. CASE CreateNamespace \/ CreateTokenSecret
  BY <1>15 DEF CreateNamespace, CreateTokenSecret, Goto, GotoWith
<1> QED
  BY <1>3, <1>4, <1>5, <1>6, <1>7, <1>8, <1>10, <1>11, <1>12, <1>13, <1>14,
     <1>15 DEF Next, Connect

\* What a step does to the console's tokens and to their robots.
LEMMA OwnedStep == TypeOK /\ ConnectInv /\ TokensOwned /\ Next => TokensOwned'
<1> SUFFICES ASSUME TypeOK, ConnectInv, TokensOwned, Next PROVE TokensOwned'
  OBVIOUS
<1> USE DEF console, cluster, args, copy, made, seen, TokensOwned
<1> robots \in RobotMaps /\ tokens \in TokenMaps
  BY DEF TypeOK, ConsoleType
<1>1. UNCHANGED <<robots, tokens>> => TokensOwned'
  OBVIOUS
<1>2. ASSUME NEW r, DeleteRobot(r) PROVE TokensOwned'
  BY <1>2 DEF DeleteRobot, RobotMaps, TokenMaps
<1>3. ASSUME NEW n, DropRobotNamed(n) PROVE TokensOwned'
  BY <1>1, <1>2, <1>3 DEF DropRobotNamed
<1>4. ASSUME NEW n, DeleteSpace(n) PROVE TokensOwned'
  BY <1>1, <1>4 DEF DeleteSpace
<1>5. CASE \/ ConnectCallFails \/ UndoDone \/ Kill \/ InstallAgent
           \/ GetMap \/ CreateMap \/ PrepareSpace \/ DropSpace
           \/ RecordSpace \/ RecordRobot \/ RecordToken \/ FindRobot
           \/ CreateNamespace \/ CreateTokenSecret \/ CreateSpace \/ AdoptSpace
  BY <1>1, <1>5 DEF ConnectCallFails, UndoDone, Kill, InstallAgent, GetMap,
       CreateMap, PrepareSpace, DropSpace, RecordSpace, RecordRobot,
       RecordToken, FindRobot, CreateNamespace, CreateTokenSecret, CreateSpace,
       AdoptSpace
<1>6. CASE OldRobot \/ OldSpace
  BY <1>3, <1>4, <1>6 DEF OldRobot, OldSpace
<1>7. CASE CreateRobot
  <2>1. PICK r \in RobotIds : robots' = [robots EXCEPT ![r] = space]
    BY <1>7 DEF CreateRobot, FreshRobots
  <2>2. space # None /\ tokens' = tokens
    BY <1>7, NamesAssumption DEF CreateRobot, ConnectInv, SpaceIsMade, Recorded,
         Robotless, TypeOK, ConsoleType
  <2> QED
    BY <2>1, <2>2 DEF RobotMaps, TokenMaps
<1>8. CASE ListTokens
  BY <1>8 DEF ListTokens, TokenMaps
<1>9. CASE CreateToken
  <2>1. rid \in RobotIds /\ robots[rid] = space /\ space \in spaces
    BY <1>9 DEF CreateToken, ConnectInv, RobotIsMade, SpaceIsMade, Recorded,
                WithRobot
  <2>2. space # None /\ robots' = robots
    BY <1>9, <2>1, NamesAssumption DEF CreateToken, TypeOK, ConsoleType
  <2> QED
    BY <1>9, <2>1, <2>2 DEF CreateToken, TokenMaps
<1>10. CASE UndoStep
  <2>1. \/ UNCHANGED <<robots, tokens>>
        \/ \E r : DeleteRobot(r)
        \/ /\ robots' = robots
           /\ \E t : tokens' = [tokens EXCEPT ![t] = None]
    <3>1. Last(undos) \in Undos
      BY <1>10, UndoStack DEF UndoStep, TypeOK, CommandType
    <3> QED
      BY <1>10, <3>1 DEF UndoStep, UndoEffect, Undos
  <2> QED BY <1>1, <1>2, <2>1 DEF TokenMaps
<1>11. ASSUME NEW n, NEW t, NEW y, StartConnect(n, t, y) PROVE TokensOwned'
  BY <1>1, <1>11 DEF StartConnect
<1>12. ASSUME NEW n, NEW k, NEW y, StartDisconnect(n, k, y) PROVE TokensOwned'
  BY <1>1, <1>12 DEF StartDisconnect
<1>13. CASE ConsoleRobot \/ ConsoleSpace \/ GetState \/ LostRobot \/ LostSpace
  BY <1>1, <1>3, <1>4, <1>13 DEF ConsoleRobot, ConsoleSpace, GetState,
       LostRobot, LostSpace
<1>14. CASE DeleteRecordedSpace \/ ForgetSpace \/ DeleteRecordedRobot \/ ForgetRobot
  BY <1>1, <1>2, <1>14 DEF DeleteRecordedSpace, ForgetSpace,
       DeleteRecordedRobot, ForgetRobot
<1>15. CASE DeleteMap \/ UninstallAgent \/ DeleteTokenSecret \/ DisconnectCallFails
  BY <1>1, <1>15 DEF DeleteMap, UninstallAgent, DeleteTokenSecret,
       DisconnectCallFails
<1> QED
  BY <1>5, <1>6, <1>7, <1>8, <1>9, <1>10, <1>11, <1>12, <1>13, <1>14, <1>15
     DEF Next, Connect, Disconnect

\* A step that adds no Space but g, gives the cluster no other Secret, deploys
\* nothing and brings no token of the Secret to life makes no link but to g.
LEMMA NothingElseLinks ==
  ASSUME NEW g, spaces' \subseteq spaces \cup {g},
         secret' \in {secret, None},
         release' = release \/ release'.status # "deployed",
         secret # None /\ TokenLive(secret.token)' => TokenLive(secret.token)
  PROVE  LinkedAs' \in {LinkedAs, None, g}
<1>1. CASE secret' = None
  BY <1>1 DEF LinkedAs
<1>2. CASE secret' = secret /\ secret # None
  <2>1. Usable(secret.space)' => secret.space = g \/ Usable(secret.space)
    BY <1>2 DEF Usable, TokenLive
  <2> QED
    BY <1>2, <2>1 DEF LinkedAs
<1> QED BY <1>1, <1>2

\* What deletes in the console brings nothing to life.
LEMMA DeletingKillsTokens ==
  ASSUME TypeOK, UNCHANGED secret,
         \/ UNCHANGED <<robots, tokens>>
         \/ \E r : DeleteRobot(r)
         \/ \E n : DeleteSpace(n) \/ DropRobotNamed(n)
         \/ /\ UNCHANGED robots
            /\ \A t \in TokenIds : tokens'[t] \in {tokens[t], None}
  PROVE  secret # None /\ TokenLive(secret.token)' => TokenLive(secret.token)
<1> robots \in RobotMaps /\ tokens \in TokenMaps /\ None \notin RobotIds
  BY NamesAssumption DEF TypeOK, ConsoleType
<1>1. ASSUME UNCHANGED <<robots, tokens>>, TokenLive(secret.token)'
      PROVE  TokenLive(secret.token)
  BY <1>1 DEF TokenLive
<1>2. ASSUME NEW r, DeleteRobot(r), TokenLive(secret.token)'
      PROVE  TokenLive(secret.token)
  BY <1>2 DEF TokenLive, DeleteRobot, RobotMaps, TokenMaps
<1>3. ASSUME UNCHANGED robots, \A t \in TokenIds : tokens'[t] \in {tokens[t], None},
             TokenLive(secret.token)'
      PROVE  TokenLive(secret.token)
  BY <1>3 DEF TokenLive
<1> QED
  BY <1>1, <1>2, <1>3 DEF DeleteSpace, DropRobotNamed, console

\* The only step that may link the cluster anew is one of connect, and it
\* links it to the Space the connect is about.
LEMMA LinkStep ==
  ASSUME TypeOK, ConnectInv, LinkInv, Next
  PROVE  \/ LinkedAs' \in {LinkedAs, None}
         \/ Connecting /\ LinkedAs' = IF pc' = "idle" THEN About ELSE About'
<1> USE DEF console, cluster, args, copy, made, seen
<1> DEFINE Same == LinkedAs' \in {LinkedAs, None}
<1>1. UNCHANGED <<console, secret, release>> => Same
  BY NothingElseLinks, DeletingKillsTokens
<1>2. ASSUME NEW r, DeleteRobot(r) \/ DropRobotNamed(r) \/ DeleteSpace(r),
             UNCHANGED <<secret, release>>
      PROVE  Same
  <2>1. spaces' \subseteq spaces
    BY <1>2 DEF DeleteRobot, DropRobotNamed, DeleteSpace
  <2> QED BY <1>2, <2>1, NothingElseLinks, DeletingKillsTokens
<1>3. CASE \/ GetMap \/ CreateMap \/ PrepareSpace \/ DropSpace \/ AdoptSpace
           \/ RecordSpace \/ FindRobot \/ RecordRobot \/ RecordToken
           \/ CreateNamespace \/ ConnectCallFails \/ UndoDone
  BY <1>1, <1>3 DEF GetMap, CreateMap, PrepareSpace, DropSpace, AdoptSpace,
       RecordSpace, FindRobot, RecordRobot, RecordToken, CreateNamespace,
       ConnectCallFails, UndoDone, Update
<1>4. CASE OldRobot \/ OldSpace
  BY <1>2, <1>4 DEF OldRobot, OldSpace
<1>5. CASE CreateSpace
  <2>1. PICK n \in (IF space = None THEN GenNames ELSE {space}) \ spaces :
          /\ spaces' = spaces \cup {n}
          /\ RecordInCopy(n, Append(undos, Undo("space", None)))
          /\ UNCHANGED <<robots, tokens, cluster>>
    BY <1>5 DEF CreateSpace
  <2>2. LinkedAs' \in {LinkedAs, None, n}
    BY <2>1, NothingElseLinks, DeletingKillsTokens
  <2>3. pc = "createSpace" /\ name = None
    BY <1>5 DEF CreateSpace, LinkInv, NameInv, Unnamed
  <2>4. CASE nilData
    <3>1. n = About /\ pc' = "idle"
      BY <2>1, <2>3, <2>4 DEF RecordInCopy, Finish, LinkInv, NameInv, About
    <3> QED BY <2>2, <2>3, <3>1 DEF Connecting, ConnectCalls
  <2>5. CASE ~nilData
    <3>1. n # None
      BY <2>1, NamesAssumption DEF TypeOK, CommandType, AllNames
    <3>2. n = About' /\ pc' # "idle"
      BY <2>1, <2>5, <3>1 DEF RecordInCopy, About
    <3> QED BY <2>2, <2>3, <3>2 DEF Connecting, ConnectCalls
  <2> QED BY <2>4, <2>5
<1>6. CASE CreateRobot
  <2>1. PICK r \in RobotIds : robots[r] = None /\ robots' = [robots EXCEPT ![r] = space]
    BY <1>6 DEF CreateRobot, FreshRobots
  <2>2. \A t : TokenLive(t)' => TokenLive(t)
    BY <1>6, <2>1 DEF CreateRobot, TokenLive, LinkInv, TokensOwned, TypeOK,
         ConsoleType, RobotMaps, TokenMaps
  <2> QED BY <1>6, <2>2, NothingElseLinks DEF CreateRobot
<1>7. CASE ListTokens
  BY <1>7, NothingElseLinks, DeletingKillsTokens DEF ListTokens
<1>8. CASE CreateToken
  <2>1. PICK t \in FreshTokens : tokens' = [tokens EXCEPT ![t] = rid]
    BY <1>8 DEF CreateToken
  <2>2. secret # None /\ TokenLive(secret.token)' => TokenLive(secret.token)
    BY <1>8, <2>1 DEF CreateToken, FreshTokens, TokenLive, TypeOK, ConsoleType,
         TokenMaps
  <2> QED BY <1>8, <2>2, NothingElseLinks DEF CreateToken
<1>9. CASE CreateTokenSecret
  <2>1. LinkedAs' \in {space, None} /\ pc = "secret" /\ pc' # "idle"
        /\ UNCHANGED <<name, space>>
    BY <1>9 DEF CreateTokenSecret, GotoWith, LinkedAs
  <2>2. name \in {None, space}
    BY <2>1 DEF LinkInv, NameInv, Recorded, WithToken
  <2> QED BY <2>1, <2>2 DEF About, Connecting, ConnectCalls
<1>10. CASE InstallAgent
  <2>1. secret.space = space /\ secret' = secret /\ pc = "agent"
    BY <1>10 DEF InstallAgent, ConnectInv, SecretIsMade
  <2>2. name \in {None, space}
    BY <2>1 DEF LinkInv, NameInv, Recorded, WithToken
  <2>3. pc' = "idle" \/ UNCHANGED <<name, space>>
    BY <1>10 DEF InstallAgent, Finish
  <2>4. LinkedAs' \in {space, None}
    BY <2>1 DEF LinkedAs
  <2> QED BY <2>1, <2>2, <2>3, <2>4 DEF About, Connecting
<1>11. CASE UndoStep
  <2>1. \/ UNCHANGED <<console, secret, release>>
        \/ \E n : /\ DeleteRobot(n) \/ (spaces' = spaces \ {n} /\ UNCHANGED <<robots, tokens>>)
                  /\ UNCHANGED <<secret, release>>
        \/ /\ \A t \in TokenIds : tokens'[t] \in {tokens[t], None}
           /\ UNCHANGED <<spaces, robots, secret, release>>
        \/ UNCHANGED <<console, release>> /\ secret' = None
    <3>1. Last(undos) \in Undos
      BY <1>11, UndoStack DEF UndoStep, TypeOK, CommandType
    <3>2. tokens \in TokenMaps
      BY DEF TypeOK, ConsoleType
    <3> QED
      BY <1>11, <3>1, <3>2 DEF UndoStep, UndoEffect, Undos, TokenMaps
  <2>2. secret' = None => Same
    BY DEF LinkedAs
  <2>3. ASSUME NEW n, spaces' = spaces \ {n}, UNCHANGED <<robots, tokens, secret, release>>
        PROVE  Same
    BY <2>3, NothingElseLinks, DeletingKillsTokens
  <2> QED BY <1>1, <1>2, <2>1, <2>2, <2>3, NothingElseLinks, DeletingKillsTokens
<1>12. ASSUME NEW n, NEW t, NEW y, StartConnect(n, t, y) \/ StartDisconnect(n, t, y)
       PROVE  Same
  BY <1>1, <1>12 DEF StartConnect, StartDisconnect
<1>13. CASE ConsoleRobot \/ ConsoleSpace \/ GetState \/ LostRobot \/ LostSpace
  BY <1>13, <1>1, <1>2 DEF ConsoleRobot, ConsoleSpace, GetState, LostRobot, LostSpace
<1>14. CASE DeleteRecordedSpace
  BY <1>14, <1>1, NothingElseLinks, DeletingKillsTokens DEF DeleteRecordedSpace
<1>15. CASE ForgetSpace \/ DeleteRecordedRobot \/ ForgetRobot \/ DeleteMap
  BY <1>15, <1>1, <1>2 DEF ForgetSpace, DeleteRecordedRobot, ForgetRobot, DeleteMap, Update
<1>16. CASE UninstallAgent \/ DisconnectCallFails
  <2>1. release' = release \/ release'.status # "deployed"
    BY <1>16, UninstallOutcome DEF DisconnectCallFails
  <2> QED
    BY <1>16, <1>1, <2>1, NothingElseLinks, DeletingKillsTokens
       DEF UninstallAgent, DisconnectCallFails
<1>17. CASE DeleteTokenSecret
  BY <1>17 DEF DeleteTokenSecret, LinkedAs
<1>18. CASE Kill
  <2>1. release' = release \/ release'.status # "deployed"
    <3>1. release \in Releases(AllNames) /\ space \in AllNames \cup {None}
      BY DEF TypeOK, ClusterType, CommandType
    <3>2. release' \in {release} \cup Interrupted(release, space) \cup HalfGone(release)
      BY <1>18 DEF Kill
    <3> QED BY <3>1, <3>2, HelmReleases
  <2> QED BY <1>18, <2>1, NothingElseLinks, DeletingKillsTokens DEF Kill
<1> QED
  BY <1>3, <1>4, <1>5, <1>6, <1>7, <1>8, <1>9, <1>10, <1>11, <1>12, <1>13,
     <1>14, <1>15, <1>16, <1>17, <1>18 DEF Next, Connect, Disconnect

\* A command starts and changes nothing, or ends, or goes on about the same
\* Space.
LEMMA PhaseStep ==
  ASSUME TypeOK, NameInv, Next
  PROVE  \/ /\ pc = "idle" /\ Phase' # "idle" /\ outcome' = "none"
            /\ UNCHANGED <<console, secret, release>>
         \/ pc # "idle" /\ pc' = "idle" /\ outcome' # "none"
         \/ /\ Phase # "idle" /\ Phase' = Phase /\ outcome' = outcome
            /\ Connecting => About \in {None, About'}
<1> USE DEF console, cluster, args, copy, made, seen
<1> DEFINE Starts == /\ pc = "idle" /\ Phase' # "idle" /\ outcome' = "none"
                     /\ UNCHANGED <<console, secret, release>>
           Ends == pc # "idle" /\ pc' = "idle" /\ outcome' # "none"
           Works == /\ Phase # "idle" /\ Phase' = Phase /\ outcome' = outcome
                    /\ Connecting => About \in {None, About'}
<1> SUFFICES Starts \/ Ends \/ Works
  OBVIOUS
<1>1. ASSUME NEW o \in {"connected", "disconnected", "removed", "failed",
                        "killed", "panicked"}, Finish(o), pc # "idle"
      PROVE  Ends
  BY <1>1 DEF Finish
<1>2. ASSUME pc \in Away, pc' \in Away, outcome' = outcome PROVE Works
  <2>1. ~Connecting /\ ~Connecting' /\ pc # "idle" /\ pc' # "idle"
    BY <1>2 DEF Connecting, Away, ConnectCalls, DisconnectCalls
  <2> QED BY <1>2, <2>1 DEF Phase
<1>3. ASSUME Connecting, Connecting', outcome' = outcome,
             UNCHANGED <<space, name>> \/ (name = None /\ space \in {None, About'})
             \/ (About' = About)
      PROVE  Works
  BY <1>3 DEF Phase, Connecting, ConnectCalls, About
<1>4. ASSUME NEW n, NEW t, NEW y, StartConnect(n, t, y) \/ StartDisconnect(n, t, y)
      PROVE  Starts
  <2>1. pc' \in {"getMap", "getState", "consoleRobot"}
    BY <1>4 DEF StartConnect, StartDisconnect
  <2>2. Phase' # "idle"
    BY <2>1 DEF Phase
  <2> QED BY <1>4, <2>2 DEF StartConnect, StartDisconnect
<1>5. CASE Kill
  BY <1>1, <1>5 DEF Kill
<1>6. CASE ConnectCallFails \/ UndoStep \/ UndoDone \/ InstallAgent
  <2>1. Connecting
    BY <1>6 DEF ConnectCallFails, UndoStep, UndoDone, InstallAgent, Connecting
  <2>2. \/ Finish("failed") \/ Finish("connected")
        \/ pc' = "undo" /\ UNCHANGED <<space, name, outcome>>
    BY <1>6 DEF ConnectCallFails, UndoStep, UndoDone, InstallAgent
  <2> QED BY <1>1, <1>3, <2>1, <2>2 DEF Connecting, ConnectCalls
<1>7. CASE GetMap \/ CreateMap \/ PrepareSpace \/ OldRobot \/ OldSpace \/ DropSpace
  <2>1. /\ pc \in ConnectCalls \cup {"oldSpace"}
        /\ pc' \in ConnectCalls \cup {"oldSpace", "undo"}
        /\ UNCHANGED <<space, name, outcome>>
    BY <1>7 DEF GetMap, CreateMap, PrepareSpace, OldRobot, OldSpace, DropSpace,
         Abort, Goto, GotoWith, ConnectCalls
  <2> QED BY <1>3, <2>1 DEF Connecting
<1>8. ASSUME NEW n \in AllNames, NEW us, RecordInCopy(n, us), pc = "createSpace",
             space \in {None, n}
      PROVE  Ends \/ Works
  <2>1. CASE nilData
    BY <1>1, <1>8, <2>1 DEF RecordInCopy
  <2>2. CASE ~nilData
    <3>1. n # None /\ name = None
      BY <1>8, NamesAssumption DEF NameInv, Unnamed
    <3> QED
      BY <1>3, <1>8, <2>2, <3>1 DEF RecordInCopy, About, Connecting, ConnectCalls
  <2> QED BY <2>1, <2>2
<1>9. CASE CreateSpace
  BY <1>8, <1>9 DEF CreateSpace, TypeOK, CommandType, AllNames
<1>10. CASE AdoptSpace
  <2>1. CASE RecordInCopy(space, undos)
    BY <1>8, <1>10, <2>1 DEF AdoptSpace, TypeOK, ConsoleType
  <2>2. CASE ~RecordInCopy(space, undos)
    BY <1>3, <1>10, <2>2 DEF AdoptSpace, Abort, Goto, AfterSpace, Connecting,
         ConnectCalls
  <2> QED BY <2>1, <2>2
<1>11. CASE RecordSpace
  <2>1. About' = About
    BY <1>11, NamesAssumption DEF RecordSpace, NameInv, About
  <2> QED BY <1>3, <1>11, <2>1 DEF RecordSpace, Goto, AfterSpace, Connecting,
             ConnectCalls
<1>12. CASE FindRobot \/ CreateRobot \/ RecordRobot
  BY <1>3, <1>12 DEF FindRobot, CreateRobot, RecordRobot, Goto, GotoWith,
                     Connecting, ConnectCalls
<1>13. CASE ListTokens \/ CreateToken \/ RecordToken
  BY <1>3, <1>13 DEF ListTokens, CreateToken, RecordToken, Goto, GotoWith,
                     Connecting, ConnectCalls
<1>14. CASE CreateNamespace \/ CreateTokenSecret
  BY <1>3, <1>14 DEF CreateNamespace, CreateTokenSecret, Goto, GotoWith,
                     Connecting, ConnectCalls
<1>15. CASE ConsoleRobot \/ ConsoleSpace \/ GetState \/ LostRobot \/ LostSpace
  BY <1>1, <1>2, <1>15 DEF ConsoleRobot, ConsoleSpace, GetState, LostRobot,
       LostSpace, Goto, Away, DisconnectCalls
<1>16. CASE DeleteRecordedSpace \/ ForgetSpace \/ DeleteRecordedRobot \/ ForgetRobot
  BY <1>1, <1>2, <1>16 DEF DeleteRecordedSpace, ForgetSpace,
       DeleteRecordedRobot, ForgetRobot, Goto, Away, DisconnectCalls
<1>17. CASE DeleteMap \/ UninstallAgent \/ DeleteTokenSecret \/ DisconnectCallFails
  BY <1>1, <1>2, <1>17 DEF DeleteMap, UninstallAgent, DeleteTokenSecret,
       DisconnectCallFails, Goto, Away, DisconnectCalls
<1> HIDE DEF Starts, Ends, Works
<1>18. Connect => Starts \/ Ends \/ Works
  BY <1>4, <1>6, <1>7, <1>9, <1>10, <1>11, <1>12, <1>13, <1>14 DEF Connect
<1>19. Disconnect => Starts \/ Ends \/ Works
  BY <1>4, <1>15, <1>16, <1>17 DEF Disconnect
<1> QED BY <1>5, <1>18, <1>19 DEF Next

\* Success is reported by one step of each command.
LEMMA SuccessStep ==
  ASSUME Next, pc # "idle", pc' = "idle"
  PROVE  \/ pc = "agent" /\ outcome' = "connected" /\ UNCHANGED space
         \/ ~Connecting /\ outcome' = "disconnected" /\ secret' = None
         \/ outcome' \notin {"connected", "disconnected", "none"}
<1> USE DEF console, cluster, args, copy, made, seen
<1> DEFINE Won == pc = "agent" /\ outcome' = "connected" /\ UNCHANGED space
           Gone == ~Connecting /\ outcome' = "disconnected" /\ secret' = None
           Lost == outcome' \notin {"connected", "disconnected", "none"}
<1> SUFFICES Won \/ Gone \/ Lost
  OBVIOUS
<1>1. ASSUME NEW o \in {"removed", "failed", "killed", "panicked"}, Finish(o)
      PROVE  Lost
  BY <1>1 DEF Finish
<1>2. CASE Kill \/ ConnectCallFails \/ UndoStep \/ UndoDone
  BY <1>1, <1>2 DEF Kill, ConnectCallFails, UndoStep, UndoDone
<1>3. CASE InstallAgent
  BY <1>3 DEF InstallAgent, Finish, Connecting
<1>4. CASE DeleteTokenSecret
  <2>1. ~Connecting
    BY <1>4 DEF DeleteTokenSecret, Connecting, ConnectCalls
  <2> QED BY <1>4, <2>1 DEF DeleteTokenSecret, Finish
<1>5. CASE CreateSpace \/ AdoptSpace
  BY <1>1, <1>5 DEF CreateSpace, AdoptSpace, RecordInCopy, Abort, Goto, AfterSpace
<1>6. CASE \/ ConsoleRobot \/ ConsoleSpace \/ GetState \/ DeleteRecordedSpace
           \/ UninstallAgent \/ DisconnectCallFails
  BY <1>1, <1>6 DEF ConsoleRobot, ConsoleSpace, GetState, DeleteRecordedSpace,
       UninstallAgent, DisconnectCallFails, Goto
<1>7. CASE \/ GetMap \/ CreateMap \/ PrepareSpace \/ OldRobot \/ OldSpace
           \/ DropSpace \/ RecordSpace \/ FindRobot \/ CreateRobot \/ RecordRobot
           \/ ListTokens \/ CreateToken \/ RecordToken \/ CreateNamespace
           \/ CreateTokenSecret
  BY <1>7 DEF GetMap, CreateMap, PrepareSpace, OldRobot, OldSpace, DropSpace,
       RecordSpace, FindRobot, CreateRobot, RecordRobot, ListTokens,
       CreateToken, RecordToken, CreateNamespace, CreateTokenSecret, Abort,
       Goto, GotoWith, AfterSpace
<1>8. CASE \/ LostRobot \/ LostSpace \/ ForgetSpace \/ DeleteRecordedRobot
           \/ ForgetRobot \/ DeleteMap
  BY <1>8 DEF LostRobot, LostSpace, ForgetSpace, DeleteRecordedRobot,
       ForgetRobot, DeleteMap, Goto
<1>9. ASSUME NEW n, NEW t, NEW y, StartConnect(n, t, y) \/ StartDisconnect(n, t, y)
      PROVE  FALSE
  BY <1>9 DEF StartConnect, StartDisconnect
<1> HIDE DEF Won, Gone, Lost
<1> QED
  BY <1>2, <1>3, <1>4, <1>5, <1>6, <1>7, <1>8, <1>9 DEF Next, Connect, Disconnect

LEMMA LinkInvStep == TypeOK /\ ConnectInv /\ LinkInv /\ [Next]_vars => LinkInv'
<1>1. TypeOK /\ ConnectInv /\ LinkInv /\ Next => LinkInv'
  BY OwnedStep, NameStep DEF LinkInv
<1>2. LinkInv /\ UNCHANGED vars => LinkInv'
  BY DEF vars, console, cluster, args, copy, made, LinkInv, TokensOwned, NameInv
<1> QED BY <1>1, <1>2

LEMMA LinkInvInit == Init => LinkInv
<1> SUFFICES ASSUME Init PROVE LinkInv
  OBVIOUS
<1>1. TokensOwned
  BY DEF Init, TokensOwned, TokenMaps
<1>2. NameInv
  BY DEF Init, NameInv, Unnamed, Replacing, Recorded, Robotless, WithRobot,
         WithToken
<1> QED BY <1>1, <1>2 DEF LinkInv

\* Every step of the two commands is a step of the link, or none.
LEMMA LinkSimulation ==
  TypeOK /\ ConnectInv /\ ConnectInv' /\ LinkInv /\ LinkInv' /\ TypeOK' /\ Next
    => Link!Next
<1> SUFFICES ASSUME TypeOK, ConnectInv, ConnectInv', LinkInv, LinkInv', TypeOK', Next
             PROVE  Link!Next
  OBVIOUS
<1> USE DEF console, cluster
<1>1. /\ About \in AllNames \cup {None} /\ About' \in AllNames \cup {None}
      /\ NameInv /\ NameInv'
  BY DEF About, TypeOK, CommandType, LinkInv
<1>2. CASE pc = "idle" /\ Phase' # "idle" /\ outcome' = "none"
           /\ UNCHANGED <<console, secret, release>>
  <2>1. LinkedAs' = LinkedAs
    BY <1>2 DEF LinkedAs, Usable, TokenLive
  <2>2. Phase = "idle"
    BY <1>2 DEF Phase, Connecting, ConnectCalls
  <2>3. Ending' = "none"
    BY <1>2 DEF Ending
  <2>4. Connecting' <=> Phase' = "connecting"
    BY DEF Phase, Connecting, ConnectCalls
  <2>5. Phase' \in {"connecting", "disconnecting"}
    BY <1>2 DEF Phase
  <2>6. Goal' \in IF Phase' = "connecting" THEN AllNames \cup {None} ELSE {None}
    BY <1>1, <2>4 DEF Goal
  <2> QED BY <2>1, <2>2, <2>3, <2>5, <2>6 DEF Link!Next, Link!Start
<1>3. \/ LinkedAs' \in {LinkedAs, None}
      \/ Connecting /\ LinkedAs' = IF pc' = "idle" THEN About ELSE About'
  BY LinkStep
<1>4. /\ Phase = "connecting" <=> Connecting
      /\ Phase = "idle" <=> pc = "idle"
      /\ Phase' = "connecting" <=> Connecting'
      /\ Phase' = "idle" <=> pc' = "idle"
  BY DEF Phase, Connecting, ConnectCalls
<1>5. CASE Phase # "idle" /\ Phase' = Phase /\ outcome' = outcome
           /\ (Connecting => About \in {None, About'})
  <2>1. Goal = None \/ Goal' = Goal
    BY <1>4, <1>5 DEF Goal
  <2>2. Goal' \in AllNames \cup {None}
    BY <1>1 DEF Goal
  <2>3. Phase = "disconnecting" => Goal' = None
    BY <1>4, <1>5 DEF Goal
  <2>4. LinkedAs' \in {LinkedAs, None} \cup
                      (IF Phase = "connecting" THEN {Goal'} ELSE {})
    BY <1>3, <1>4, <1>5 DEF Goal
  <2>5. Ending' = Ending
    BY <1>5 DEF Ending
  <2> QED
    BY <1>5, <2>1, <2>2, <2>3, <2>4, <2>5 DEF Link!Next, Link!Work, Link!Reachable
<1>6. CASE pc # "idle" /\ pc' = "idle" /\ outcome' # "none"
  <2>1. Phase # "idle" /\ Phase' = "idle" /\ Goal' = None
    BY <1>4, <1>6 DEF Goal, Connecting, ConnectCalls
  <2>2. CASE pc = "agent" /\ outcome' = "connected" /\ UNCHANGED space
    <3>1. Usable(space)' /\ secret'.space = space /\ secret' # None
      BY <2>2 DEF ConnectInv, ConnectedIsUsable, Usable
    <3>2. LinkedAs' = space /\ space \in AllNames
      BY <2>2, <3>1 DEF LinkedAs, Usable, TypeOK, ConsoleType
    <3>3. Connecting /\ name \in {None, space}
      BY <1>1, <2>2 DEF Connecting, NameInv, Recorded, WithToken
    <3>4. Phase = "connecting" /\ Ending' = "connected" /\ space # None
      BY <1>4, <2>2, <3>2, <3>3, NamesAssumption DEF Ending
    <3>5. Goal = space
      BY <3>3 DEF Goal, About
    <3> QED BY <2>1, <3>2, <3>4, <3>5 DEF Link!Next, Link!End
  <2>3. CASE ~Connecting /\ outcome' = "disconnected" /\ secret' = None
    <3>1. LinkedAs' = None /\ Phase = "disconnecting" /\ Ending' = "disconnected"
      BY <1>4, <2>1, <2>3 DEF LinkedAs, Ending, Phase
    <3> QED BY <2>1, <3>1 DEF Link!Next, Link!End
  <2>4. CASE outcome' \notin {"connected", "disconnected", "none"}
    <3>1. Ending' = "other"
      BY <2>4 DEF Ending
    <3>2. LinkedAs' \in {LinkedAs, None} \cup
                        (IF Phase = "connecting" THEN {Goal} ELSE {})
      BY <1>3, <1>4, <1>6 DEF Goal
    <3> QED BY <2>1, <3>1, <3>2 DEF Link!Next, Link!End, Link!Reachable
  <2> QED BY <1>6, <2>2, <2>3, <2>4, SuccessStep
<1> QED BY <1>1, <1>2, <1>5, <1>6, PhaseStep

LEMMA LinkInvHolds == Spec => []LinkInv
BY ConnectInvHolds, TypeCorrect, LinkInvInit, LinkInvStep, PTL DEF Spec

\* Both commands, failing, killed and resumed in any order, implement
\* SpaceLink: the cluster is never usable as a Space other than the one a
\* connect was about, and success means what SpaceLink says.
THEOREM ImplementsLink == Spec => LinkSpec
<1>1. Init => Link!Init
  <2> SUFFICES ASSUME Init PROVE Link!Init
    OBVIOUS
  <2>1. LinkedAs = None /\ Goal = None /\ Ending = "none"
    BY DEF Init, LinkedAs, Goal, Connecting, ConnectCalls, Ending
  <2>2. Phase = "idle"
    BY DEF Init, Phase, Connecting, ConnectCalls
  <2> QED BY <2>1, <2>2 DEF Link!Init
<1>2. UNCHANGED vars => UNCHANGED Link!vars
  BY DEF vars, console, cluster, args, copy, made, seen, Link!vars, LinkedAs,
         Usable, TokenLive, Phase, Goal, About, Connecting, Ending
<1>3. /\ TypeOK /\ ConnectInv /\ ConnectInv' /\ LinkInv /\ LinkInv' /\ TypeOK'
      /\ [Next]_vars
      => [Link!Next]_Link!vars
  BY <1>2, LinkSimulation
<1> QED
  BY <1>1, <1>3, ConnectInvHolds, LinkInvHolds, TypeCorrect, PTL
     DEF Spec, LinkSpec, Link!Spec

-----------------------------------------------------------------------------
(* No Space leaves the console without consent *)

\* The undo functions that are registered and have not run.
ToUndo == ToSet(undos)

SpaceUndoPending == \E u \in ToUndo : u.kind = "space"

ConsentInv ==
  /\ pc # "idle" => before \in Snapshots
  /\ pc \in {"getMap", "createMap", "getState"} => cm = before.cm
  /\ pc \in {"prepareSpace"} \cup Replacing /\ local.space # None =>
       before.cm # None /\ local.space = before.cm.space
  /\ pc \in Unnamed => \A n \in before.spaces \ spaces : space # None /\ n # space
  /\ SpaceUndoPending =>
       /\ pc \in {"recordSpace", "undo"} \cup Recorded
       /\ name # None /\ name \notin before.spaces /\ space \in {None, name}
  /\ pc \in {"consoleSpace", "lostRobot", "lostSpace"} => yes
  /\ pc \in {"deleteSpace", "forgetSpace"} => before.cm # None /\ local = before.cm

\* What registering and running an undo function does to those pending.
LEMMA PendingFacts ==
  ASSUME undos \in Seq(Undos)
  PROVE  /\ \A u : undos' = Append(undos, u) => ToUndo' = ToUndo \cup {u}
         /\ undos # <<>> /\ undos' = Front(undos) =>
              ToUndo = ToUndo' \cup {Last(undos)}
         /\ undos' = <<>> => ToUndo' = {}
         /\ UNCHANGED undos => UNCHANGED ToUndo
         /\ undos = <<>> <=> ToUndo = {}
<1>1. ASSUME NEW u, undos' = Append(undos, u) PROVE ToUndo' = ToUndo \cup {u}
  <2>1. /\ undos' \in Seq(Undos \cup {u}) /\ Len(undos') = Len(undos) + 1
        /\ \A i \in 1..Len(undos) : undos'[i] = undos[i]
        /\ undos'[Len(undos) + 1] = u
    BY <1>1
  <2>2. ToUndo = {undos[i] : i \in 1..Len(undos)}
    BY DEF ToUndo, ToSet
  <2>3. ToUndo' = {undos'[i] : i \in 1..Len(undos')}
    BY <2>1 DEF ToUndo, ToSet
  <2> QED BY <2>1, <2>2, <2>3
<1>2. ASSUME undos # <<>>, undos' = Front(undos)
      PROVE  ToUndo = ToUndo' \cup {Last(undos)}
  <2>1. /\ Len(undos) \in Nat \ {0} /\ Len(undos') = Len(undos) - 1
        /\ undos' \in Seq(Undos)
        /\ \A i \in 1..Len(undos) - 1 : undos'[i] = undos[i]
        /\ undos[Len(undos)] = Last(undos)
    BY <1>2, FrontFacts DEF Last
  <2>2. ToUndo = {undos[i] : i \in 1..Len(undos)}
    BY DEF ToUndo, ToSet
  <2>3. ToUndo' = {undos'[i] : i \in 1..Len(undos')}
    BY <2>1 DEF ToUndo, ToSet
  <2> QED BY <2>1, <2>2, <2>3
<1>3. ASSUME undos' = <<>> PROVE ToUndo' = {}
  BY <1>3 DEF ToUndo, ToSet
<1>4. ASSUME UNCHANGED undos PROVE UNCHANGED ToUndo
  BY <1>4 DEF ToUndo
<1>5. undos = <<>> <=> ToUndo = {}
  <2>1. ToUndo = {undos[i] : i \in 1..Len(undos)} /\ Len(undos) \in Nat
    BY DEF ToUndo, ToSet
  <2>2. undos = <<>> <=> Len(undos) = 0
    BY EmptySeq
  <2> QED BY <2>1, <2>2
<1> QED BY <1>1, <1>2, <1>3, <1>4, <1>5

LEMMA ConsentVacuous == Ended => ConsentInv'
BY DEF Ended, ConsentInv, SpaceUndoPending, ToUndo, ToSet, Unnamed, Replacing,
       Recorded, Robotless, WithRobot, WithToken

LEMMA ConsentDisconnect ==
  TypeOK /\ ConsentInv /\ (Disconnect \/ Kill) => ConsentInv'
<1> SUFFICES ASSUME TypeOK, ConsentInv, Disconnect \/ Kill PROVE ConsentInv'
  OBVIOUS
<1> USE DEF console, cluster, args, copy, made, seen
<1> USE ConsentVacuous, FinishEnds
<1>1. undos \in Seq(Undos)
  BY DEF TypeOK, CommandType
<1>2. ASSUME pc \in Away \cup {"idle"}, pc' \in Away, UNCHANGED undos,
             before' \in Snapshots,
             pc' = "getState" => cm' = before'.cm,
             pc' \in {"consoleSpace", "lostRobot", "lostSpace"} => yes',
             pc' \in {"deleteSpace", "forgetSpace"} =>
               before'.cm # None /\ local' = before'.cm
      PROVE  ConsentInv'
  <2>1. ~SpaceUndoPending'
    BY <1>1, <1>2, CallsApart, PendingFacts DEF ConsentInv, SpaceUndoPending
  <2>2. pc' \notin {"getMap", "createMap", "prepareSpace"} \cup Unnamed
    BY <1>2, CallsApart DEF Unnamed
  <2> QED BY <1>2, <2>1, <2>2 DEF ConsentInv, Unnamed, Away, DisconnectCalls
<1>3. pc # "idle" => before \in Snapshots
  BY DEF ConsentInv
<1> USE DEF Away, DisconnectCalls, Goto
<1>4. ASSUME NEW n, NEW k, NEW y, StartDisconnect(n, k, y) PROVE ConsentInv'
  <2>1. Snapshot \in Snapshots /\ Snapshot.cm = cm
    BY DEF TypeOK, ConsoleType, ClusterType, Snapshot, Snapshots
  <2> QED BY <1>2, <1>4, <2>1 DEF StartDisconnect
<1>5. CASE Kill
  BY <1>5 DEF Kill
<1>6. CASE ConsoleRobot \/ ConsoleSpace
  BY <1>2, <1>3, <1>6 DEF ConsoleRobot, ConsoleSpace
<1>7. CASE GetState
  BY <1>2, <1>3, <1>7 DEF GetState, ConsentInv
<1>8. CASE LostRobot \/ LostSpace
  BY <1>2, <1>3, <1>8 DEF LostRobot, LostSpace, ConsentInv
<1>9. CASE DeleteRecordedSpace
  BY <1>2, <1>3, <1>9 DEF DeleteRecordedSpace, ConsentInv
<1>10. CASE ForgetSpace \/ DeleteRecordedRobot \/ ForgetRobot
  BY <1>2, <1>3, <1>10 DEF ForgetSpace, DeleteRecordedRobot, ForgetRobot
<1>11. CASE DeleteMap \/ UninstallAgent \/ DeleteTokenSecret \/ DisconnectCallFails
  BY <1>2, <1>3, <1>11 DEF DeleteMap, UninstallAgent, DeleteTokenSecret,
       DisconnectCallFails
<1> QED
  BY <1>4, <1>5, <1>6, <1>7, <1>8, <1>9, <1>10, <1>11 DEF Disconnect
LEMMA ConsentConnect ==
  TypeOK /\ NameInv /\ ConsentInv /\ Connect => ConsentInv'
<1> SUFFICES ASSUME TypeOK, NameInv, ConsentInv, Connect PROVE ConsentInv'
  OBVIOUS
<1> USE DEF console, cluster, args, copy, made, seen
<1> undos \in Seq(Undos) /\ (pc # "idle" => before \in Snapshots)
  BY DEF TypeOK, CommandType, ConsentInv
<1> DEFINE Consented == \A n \in before.spaces \ spaces : space # None /\ n # space
           Mine == /\ name # None /\ name \notin before.spaces
                   /\ space \in {None, name}
           Recalled == local.space # None =>
                         before.cm # None /\ local.space = before.cm.space
<1>1. Ended => ConsentInv'
  BY ConsentVacuous
<1>2. ASSUME pc' \in Unnamed, before' \in Snapshots, ~SpaceUndoPending', Consented',
             pc' \in {"getMap", "createMap"} => cm' = before'.cm,
             pc' \in {"prepareSpace"} \cup Replacing => Recalled'
      PROVE  ConsentInv'
  BY <1>2, CallsApart DEF ConsentInv, Away, DisconnectCalls
<1>3. ASSUME pc' \in {"recordSpace", "undo"} \cup Recorded, before' \in Snapshots,
             SpaceUndoPending' => Mine'
      PROVE  ConsentInv'
  BY <1>3, CallsApart DEF ConsentInv, Away, DisconnectCalls, Unnamed
<1>4. pc \in Unnamed => Consented /\ ~SpaceUndoPending
  BY CallsApart DEF ConsentInv
<1>5. ASSUME NEW n, NEW t, NEW y, StartConnect(n, t, y) PROVE ConsentInv'
  <2>1. /\ Snapshot \in Snapshots /\ Snapshot.cm = cm /\ Snapshot.spaces = spaces
    BY DEF TypeOK, ConsoleType, ClusterType, Snapshot, Snapshots
  <2>2. ~SpaceUndoPending'
    BY <1>5, CallsApart, PendingFacts DEF StartConnect, ConsentInv, SpaceUndoPending
  <2> QED BY <1>2, <1>5, <2>1, <2>2 DEF StartConnect, Unnamed, Replacing
<1>6. SpaceUndoPending => Mine
  BY DEF ConsentInv
<1>7. UNCHANGED undos => UNCHANGED SpaceUndoPending
  BY PendingFacts DEF SpaceUndoPending
<1>8. \A u : undos' = Append(undos, u) /\ u.kind # "space" =>
        (SpaceUndoPending' <=> SpaceUndoPending)
  BY PendingFacts DEF SpaceUndoPending
<1>9. \A k, i : Undo(k, i).kind = k
  BY DEF Undo
<1>10. CASE ConnectCallFails
  <2>1. pc # "idle"
    BY <1>10 DEF ConnectCallFails, ConnectCalls
  <2> QED BY <1>3, <1>6, <1>7, <1>10, <2>1 DEF ConnectCallFails
<1>11. CASE UndoStep
  <2>1. SpaceUndoPending' => SpaceUndoPending
    BY <1>11, PendingFacts DEF UndoStep, SpaceUndoPending
  <2> QED BY <1>3, <1>6, <1>11, <2>1 DEF UndoStep
<1>12. CASE UndoDone
  BY <1>1, <1>12, FinishEnds DEF UndoDone
<1>13. CASE InstallAgent
  BY <1>1, <1>3, <1>6, <1>7, <1>13, FinishEnds DEF InstallAgent
<1> USE DEF Unnamed, Replacing, Goto, GotoWith
<1>14. CASE GetMap
  <2>1. cm = before.cm /\ ((local' = cm /\ cm # None) \/ pc' = "createMap")
    BY <1>14 DEF GetMap, ConsentInv
  <2> QED BY <1>2, <1>4, <1>7, <1>14, <2>1 DEF GetMap
<1>15. CASE CreateMap
  <2>1. local'.space = None /\ ~SpaceUndoPending'
    BY <1>4, <1>8, <1>9, <1>15 DEF CreateMap, Empty
  <2> QED BY <1>2, <1>4, <1>15, <2>1 DEF CreateMap
<1>16. CASE PrepareSpace
  <2>1. Recalled
    BY <1>16 DEF PrepareSpace, ConsentInv
  <2>2. pc \in Unnamed /\ pc' \in {"createSpace", "oldRobot", "undo"}
        /\ UNCHANGED <<spaces, space, local, name, undos, before>>
    BY <1>16 DEF PrepareSpace, Abort
  <2> QED BY <1>2, <1>3, <1>4, <1>6, <1>7, <2>1, <2>2
<1>17. CASE OldRobot
  BY <1>2, <1>4, <1>7, <1>17 DEF OldRobot, ConsentInv, DropRobotNamed, DeleteRobot
<1>18. CASE OldSpace
  <2>1. space \notin {None, local.space}
    BY <1>18 DEF OldSpace, NameInv
  <2>2. Consented'
    BY <1>4, <1>18, <2>1 DEF OldSpace, DeleteSpace
  <2> QED BY <1>2, <1>4, <1>7, <1>18, <2>2 DEF OldSpace, ConsentInv
<1>19. CASE DropSpace
  BY <1>2, <1>4, <1>7, <1>19 DEF DropSpace
<1>20. CASE CreateSpace
  <2>1. PICK n \in (IF space = None THEN GenNames ELSE {space}) \ spaces :
          RecordInCopy(n, Append(undos, Undo("space", None)))
    BY <1>20 DEF CreateSpace
  <2>2. n # None /\ n \notin before.spaces /\ space \in {None, n}
    BY <1>4, <1>20, <2>1, NamesAssumption DEF CreateSpace, TypeOK, CommandType, AllNames
  <2>3. CASE nilData
    BY <1>1, <2>1, <2>3, FinishEnds DEF RecordInCopy
  <2>4. CASE ~nilData
    BY <1>3, <1>20, <2>1, <2>2, <2>4 DEF RecordInCopy, CreateSpace
  <2> QED BY <2>3, <2>4
<1>21. CASE AdoptSpace
  <2>1. ~SpaceUndoPending /\ before \in Snapshots
    BY <1>4, <1>21 DEF AdoptSpace
  <2>2. \/ Ended
        \/ pc' \in {"recordSpace", "undo"} \cup Recorded /\ UNCHANGED <<undos, before>>
    BY <1>21, FinishEnds DEF AdoptSpace, RecordInCopy, Abort, AfterSpace, Recorded,
       Robotless, WithToken
  <2> QED BY <1>1, <1>3, <1>7, <2>1, <2>2
<1> USE DEF Recorded, Robotless, WithRobot, WithToken
<1>22. CASE RecordSpace
  BY <1>3, <1>6, <1>7, <1>22 DEF RecordSpace, AfterSpace
<1>23. CASE FindRobot \/ CreateRobot \/ RecordRobot
  BY <1>3, <1>6, <1>7, <1>8, <1>9, <1>23 DEF FindRobot, CreateRobot, RecordRobot
<1>24. CASE ListTokens \/ CreateToken \/ RecordToken
  BY <1>3, <1>6, <1>7, <1>8, <1>9, <1>24 DEF ListTokens, CreateToken, RecordToken
<1>25. CASE CreateNamespace \/ CreateTokenSecret
  BY <1>3, <1>6, <1>7, <1>8, <1>9, <1>25 DEF CreateNamespace, CreateTokenSecret
<1> QED
  BY <1>5, <1>10, <1>11, <1>12, <1>13, <1>14, <1>15, <1>16, <1>17, <1>18, <1>19,
     <1>20, <1>21, <1>22, <1>23, <1>24, <1>25 DEF Connect

\* What one step may take from the console's Spaces.
LEMMA ConsentedStep ==
  ASSUME TypeOK, ConsentInv, Next, NEW n \in spaces \ spaces'
  PROVE  \/ n \notin before.spaces
         \/ before.cm # None /\ n = before.cm.space
         \/ n = space /\ yes /\ pc \in {"consoleSpace", "lostSpace"}
<1> USE DEF console, cluster, args, copy, made, seen
<1>1. n \in AllNames /\ n # None
  BY NamesAssumption DEF TypeOK, ConsoleType
<1>2. \A r : ~DropRobotNamed(r) /\ ~DeleteRobot(r)
  BY DEF DropRobotNamed, DeleteRobot
<1>3. \A m : DeleteSpace(m) => n = m
  BY DEF DeleteSpace
<1>4. CASE Connect
  <2>1. OldSpace \/ UndoStep
    BY <1>2, <1>4 DEF Connect, StartConnect, GetMap, CreateMap, PrepareSpace,
       OldRobot, DropSpace, CreateSpace, AdoptSpace, RecordSpace, FindRobot,
       CreateRobot, RecordRobot, ListTokens, CreateToken, RecordToken,
       CreateNamespace, CreateTokenSecret, InstallAgent, ConnectCallFails,
       UndoDone
  <2>2. CASE OldSpace
    BY <1>1, <1>3, <2>2 DEF OldSpace, ConsentInv, Replacing
  <2>3. CASE UndoStep
    <3>1. Last(undos) \in Undos /\ Last(undos) \in ToUndo
      BY <2>3, UndoStack, PendingFacts DEF UndoStep, TypeOK, CommandType
    <3>2. Last(undos).kind = "space" /\ n = space
      BY <1>2, <2>3, <3>1 DEF UndoStep, UndoEffect, Undos
    <3> QED BY <1>1, <3>1, <3>2 DEF ConsentInv, SpaceUndoPending
  <2> QED BY <2>1, <2>2, <2>3
<1>5. CASE Disconnect
  <2>1. ConsoleSpace \/ LostSpace \/ DeleteRecordedSpace
    BY <1>2, <1>5 DEF Disconnect, StartDisconnect, ConsoleRobot, GetState,
       LostRobot, ForgetSpace, DeleteRecordedRobot, ForgetRobot, DeleteMap,
       UninstallAgent, DeleteTokenSecret, DisconnectCallFails
  <2>2. CASE ConsoleSpace \/ LostSpace
    BY <1>3, <2>2 DEF ConsoleSpace, LostSpace, ConsentInv
  <2>3. CASE DeleteRecordedSpace
    BY <2>3 DEF DeleteRecordedSpace, ConsentInv
  <2> QED BY <2>1, <2>2, <2>3
<1>6. CASE Kill
  BY <1>6 DEF Kill
<1> QED BY <1>4, <1>5, <1>6 DEF Next

LEMMA ConsentHolds == Spec => []ConsentInv
<1>1. Init => ConsentInv
  BY DEF Init, ConsentInv, SpaceUndoPending, ToUndo, ToSet, Unnamed, Replacing
<1>2. ConsentInv /\ UNCHANGED vars => ConsentInv'
  BY DEF vars, console, cluster, args, copy, made, seen, ConsentInv,
         SpaceUndoPending, ToUndo
<1>3. TypeOK /\ NameInv /\ ConsentInv /\ [Next]_vars => ConsentInv'
  BY <1>2, ConsentConnect, ConsentDisconnect DEF Next
<1>4. LinkInv => NameInv
  BY DEF LinkInv
<1> QED BY <1>1, <1>3, <1>4, TypeCorrect, LinkInvHolds, PTL DEF Spec

\* A Space leaves the console only because this cluster was connected as it,
\* because the user named it and agreed, or because the running command made
\* it: other clusters' Spaces survive every failure, kill and retry.
THEOREM OthersKeepTheirSpaces == Spec => OnlyConsentedSpacesRemoved
<1>1. TypeOK /\ ConsentInv /\ [Next]_vars =>
        [\A n \in spaces \ spaces' :
           \/ n \notin before.spaces
           \/ before.cm # None /\ n = before.cm.space
           \/ n = space /\ yes /\ pc \in {"consoleSpace", "lostSpace"}]_vars
  BY ConsentedStep
<1> QED
  BY <1>1, TypeCorrect, ConsentHolds, PTL DEF Spec, OnlyConsentedSpacesRemoved

-----------------------------------------------------------------------------
(* disconnect leaves nothing *)

\* The recorded Space and the recorded robot are out of the console.
SpaceGone == before.cm.space \notin spaces
RobotGone == before.cm.robot # None =>
  /\ robots[before.cm.robot] = None
  /\ \A t \in TokenIds : tokens[t] # before.cm.robot

GoneInv ==
  /\ pc \in {"lostRobot", "lostSpace"} => cm = None /\ before.cm = None
  /\ pc = "forgetSpace" => SpaceGone
  /\ pc = "deleteRobot" =>
       before.cm # None /\ local.robot = before.cm.robot /\ SpaceGone
  /\ pc \in {"forgetRobot", "deleteMap"} => before.cm # None /\ SpaceGone /\ RobotGone
  /\ pc \in {"uninstall", "deleteSecret"} =>
       cm = None /\ (before.cm # None => SpaceGone /\ RobotGone)
  /\ pc = "deleteSecret" => release = NoRelease

LEMMA GoneStep == TypeOK /\ ConsentInv /\ GoneInv /\ Next => GoneInv'
<1> SUFFICES ASSUME TypeOK, ConsentInv, GoneInv, Next PROVE GoneInv'
  OBVIOUS
<1> USE DEF console, cluster, args, copy, made, seen, GoneInv, Goto
<1>1. pc' \in {"idle", "consoleSpace", "undo", "recordSpace", "getState"}
             \cup Unnamed \cup Recorded => GoneInv'
  BY DEF Unnamed, Replacing, Recorded, Robotless, WithRobot, WithToken
<1>2. CASE Connect \/ Kill
  <2>1. pc' \in {"idle", "undo", "recordSpace"} \cup Unnamed \cup Recorded
    BY <1>2 DEF Kill, Connect, StartConnect, GetMap, CreateMap, PrepareSpace,
       OldRobot, OldSpace, DropSpace, CreateSpace, AdoptSpace, RecordInCopy,
       RecordSpace, FindRobot, CreateRobot, RecordRobot, ListTokens,
       CreateToken, RecordToken, CreateNamespace, CreateTokenSecret,
       InstallAgent, ConnectCallFails, UndoStep, UndoDone, Abort, GotoWith,
       AfterSpace, Finish, Unnamed, Replacing, Recorded, Robotless, WithRobot,
       WithToken
  <2> QED BY <1>1, <2>1
<1>3. CASE Ended
  BY <1>3 DEF Ended
<1>4. pc # "idle" => before \in Snapshots
  BY DEF ConsentInv
<1>5. ASSUME NEW n, NEW k, NEW y, StartDisconnect(n, k, y) PROVE GoneInv'
  BY <1>5 DEF StartDisconnect
<1>6. CASE ConsoleRobot \/ ConsoleSpace \/ DeleteTokenSecret \/ DisconnectCallFails
  BY <1>3, <1>6, FinishEnds DEF ConsoleRobot, ConsoleSpace, DeleteTokenSecret,
     DisconnectCallFails
<1>7. CASE GetState
  BY <1>3, <1>7, FinishEnds DEF GetState, ConsentInv
<1>8. CASE LostRobot \/ LostSpace
  BY <1>8 DEF LostRobot, LostSpace
<1>9. CASE DeleteRecordedSpace
  <2>1. before.cm # None /\ local = before.cm
    BY <1>9 DEF DeleteRecordedSpace, ConsentInv
  <2>2. CASE local.space = None /\ Goto("deleteRobot") /\ UNCHANGED <<console, local>>
    <3>1. before.cm.space \notin spaces
      BY <2>1, <2>2, NamesAssumption DEF TypeOK, ConsoleType
    <3> QED BY <2>1, <2>2, <3>1 DEF SpaceGone
  <2>3. CASE spaces' = spaces \ {local.space} /\ Goto("forgetSpace")
    BY <2>1, <2>3 DEF SpaceGone
  <2> QED BY <1>3, <1>9, <2>2, <2>3, FinishEnds DEF DeleteRecordedSpace
<1>10. CASE ForgetSpace
  <2>1. before.cm # None /\ local = before.cm /\ SpaceGone /\ local \in Data
    BY <1>10 DEF ForgetSpace, ConsentInv, TypeOK, CommandType
  <2>2. local'.robot = local.robot
    BY <1>10, <2>1 DEF ForgetSpace, Update, Data
  <2> QED BY <1>10, <2>1, <2>2 DEF ForgetSpace, SpaceGone
<1>11. CASE DeleteRecordedRobot
  <2>1. before.cm # None /\ local.robot = before.cm.robot /\ SpaceGone
    BY <1>11 DEF DeleteRecordedRobot
  <2>2. CASE local.robot = None /\ Goto("deleteMap") /\ UNCHANGED console
    BY <2>1, <2>2 DEF SpaceGone, RobotGone
  <2>3. CASE Goto("forgetRobot") /\ DeleteRobot(local.robot)
    <3>1. RobotGone'
      <4>1. local.robot # None => local.robot \in RobotIds
        BY DataFacts DEF TypeOK, CommandType
      <4> QED
        BY <2>1, <2>3, <4>1 DEF DeleteRobot, RobotGone
    <3>2. SpaceGone'
      BY <2>1, <2>3 DEF DeleteRobot, SpaceGone
    <3> QED BY <2>1, <2>3, <3>1, <3>2
  <2> QED BY <1>11, <2>2, <2>3 DEF DeleteRecordedRobot
<1>12. CASE ForgetRobot \/ DeleteMap
  BY <1>12 DEF ForgetRobot, DeleteMap, SpaceGone, RobotGone
<1>13. CASE UninstallAgent
  <2>1. CASE Finish("failed")
    BY <1>3, <2>1, FinishEnds
  <2>2. CASE release' = NoRelease /\ Goto("deleteSecret")
    BY <1>13, <2>2 DEF UninstallAgent, SpaceGone, RobotGone
  <2> QED BY <1>13, <2>1, <2>2, UninstallOutcome
<1> QED
  BY <1>2, <1>5, <1>6, <1>7, <1>8, <1>9, <1>10, <1>11, <1>12, <1>13
     DEF Next, Disconnect

\* A disconnect that found a ConfigMap and reports success has taken the
\* Space, the robot and its tokens out of the console and the agent, the
\* Secret and the ConfigMap out of the cluster.
THEOREM DisconnectKeepsItsPromise == Spec => DisconnectedLeavesNothing
<1> USE DEF console, cluster, args, copy, made, seen
<1>1. Init => GoneInv
  BY DEF Init, GoneInv
<1>2. GoneInv /\ UNCHANGED vars => GoneInv'
  BY DEF vars, GoneInv, SpaceGone, RobotGone
<1>3. TypeOK /\ ConsentInv /\ GoneInv /\ [Next]_vars => GoneInv'
  BY <1>2, GoneStep
<1>4. GoneInv =>
        [DeleteTokenSecret /\ before.cm # None =>
           /\ cm' = None /\ secret' = None /\ release' = NoRelease
           /\ before.cm.space \notin spaces'
           /\ before.cm.robot # None =>
                /\ robots'[before.cm.robot] = None
                /\ \A t \in TokenIds : tokens'[t] # before.cm.robot]_vars
  BY DEF GoneInv, SpaceGone, RobotGone, DeleteTokenSecret
<1> QED
  BY <1>1, <1>3, <1>4, TypeCorrect, ConsentHolds, PTL
     DEF Spec, DisconnectedLeavesNothing

-----------------------------------------------------------------------------
(* Undoing takes back what connect made *)

\* What the running connect made in the console has an undo function.
Undoable == ~undoFailed /\ (pc = "undo" => name \in {None, space})

Traced ==
  /\ \A n \in spaces \ before.spaces : n = About /\ Undo("space", None) \in ToUndo
  /\ \A r \in RobotIds : robots[r] # None =>
       before.robots[r] = robots[r] \/ Undo("robot", r) \in ToUndo
  /\ \A t \in TokenIds : tokens[t] # None =>
       before.tokens[t] # None \/ Undo("token", t) \in ToUndo

MapFirst == \A i \in 1..Len(undos) : undos[i].kind = "map" => i = 1

MadeInv ==
  /\ pc \in {"idle", "getMap", "createMap"} => undos = <<>>
  /\ MapFirst
  /\ Connecting /\ Undoable => Traced

LEMMA MapFirstStep ==
  ASSUME undos \in Seq(Undos), MapFirst
  PROVE  /\ UNCHANGED undos => MapFirst'
         /\ undos' = <<>> => MapFirst'
         /\ \A u \in Undos : undos' = Append(undos, u) /\ (u.kind = "map" => undos = <<>>)
              => MapFirst'
         /\ undos # <<>> /\ undos' = Front(undos) => MapFirst'
         /\ undos # <<>> /\ Last(undos).kind = "map" => ToUndo = {Last(undos)}
<1>1. UNCHANGED undos => MapFirst'
  BY DEF MapFirst
<1>2. undos' = <<>> => MapFirst'
  BY DEF MapFirst
<1>3. ASSUME NEW u \in Undos, undos' = Append(undos, u), u.kind = "map" => undos = <<>>
      PROVE  MapFirst'
  <2>1. /\ Len(undos') = Len(undos) + 1 /\ undos'[Len(undos) + 1] = u
        /\ \A i \in 1..Len(undos) : undos'[i] = undos[i]
        /\ Len(undos) \in Nat /\ (undos = <<>> => Len(undos) = 0)
    BY <1>3
  <2> QED BY <1>3, <2>1 DEF MapFirst
<1>4. ASSUME undos # <<>>, undos' = Front(undos) PROVE MapFirst'
  BY <1>4, FrontFacts DEF MapFirst
<1>5. ASSUME undos # <<>>, Last(undos).kind = "map" PROVE ToUndo = {Last(undos)}
  <2>1. Len(undos) \in Nat \ {0} /\ Last(undos) = undos[Len(undos)]
    BY <1>5, FrontFacts DEF Last
  <2>2. Len(undos) = 1
    <3>1. undos[Len(undos)].kind = "map" /\ Len(undos) \in 1..Len(undos)
      BY <1>5, <2>1
    <3> QED BY <3>1, Zenon DEF MapFirst
  <2>3. ToUndo = {undos[i] : i \in 1..Len(undos)}
    BY DEF ToUndo, ToSet
  <2> QED BY <2>1, <2>2, <2>3
<1> QED BY <1>1, <1>2, <1>3, <1>4, <1>5

\* A step of the same connect that makes nothing in the console.
LEMMA TracedStep ==
  ASSUME Traced, spaces' \subseteq spaces,
         \A r \in RobotIds : robots'[r] \in {robots[r], None},
         \A t \in TokenIds : tokens'[t] \in {tokens[t], None},
         UNCHANGED before, ToUndo \subseteq ToUndo', About' = About
  PROVE  Traced'
BY DEF Traced

LEMMA DeletesOnly ==
  ASSUME TypeOK,
         \/ UNCHANGED <<spaces, robots, tokens>>
         \/ \E n : DeleteSpace(n) \/ DeleteRobot(n) \/ DropRobotNamed(n)
  PROVE  /\ spaces' \subseteq spaces
         /\ \A r \in RobotIds : robots'[r] \in {robots[r], None}
         /\ \A t \in TokenIds : tokens'[t] \in {tokens[t], None}
<1> robots \in RobotMaps /\ tokens \in TokenMaps
  BY DEF TypeOK, ConsoleType
<1>1. \A n : DropRobotNamed(n) =>
        UNCHANGED <<spaces, robots, tokens>> \/ \E r : DeleteRobot(r)
  BY DEF DropRobotNamed, console
<1>2. \A n : DeleteSpace(n) => spaces' \subseteq spaces /\ UNCHANGED <<robots, tokens>>
  BY DEF DeleteSpace
<1>3. \A r : DeleteRobot(r) =>
        /\ UNCHANGED spaces
        /\ \A q \in RobotIds : robots'[q] \in {robots[q], None}
        /\ \A t \in TokenIds : tokens'[t] \in {tokens[t], None}
  BY DEF DeleteRobot
<1> QED BY <1>1, <1>2, <1>3

LEMMA MadeStep ==
  TypeOK /\ NameInv /\ ConsentInv /\ MadeInv /\ Next => MadeInv'
<1> SUFFICES ASSUME TypeOK, NameInv, ConsentInv, MadeInv, Next PROVE MadeInv'
  OBVIOUS
<1> USE DEF console, cluster, args, copy, made, seen
<1> undos \in Seq(Undos) /\ robots \in RobotMaps /\ tokens \in TokenMaps
  BY DEF TypeOK, CommandType, ConsoleType
<1> MapFirst
  BY DEF MadeInv
<1>1. CASE Ended
  BY <1>1, MapFirstStep DEF Ended, MadeInv, Connecting, ConnectCalls
<1>2. ASSUME pc' \in Away, UNCHANGED undos PROVE MadeInv'
  BY <1>2, MapFirstStep DEF MadeInv, Away, DisconnectCalls, Connecting, ConnectCalls
<1>3. Disconnect => UNCHANGED undos \/ Ended
  BY FinishEnds DEF Disconnect, StartDisconnect, ConsoleRobot, ConsoleSpace,
     GetState, LostRobot, LostSpace, DeleteRecordedSpace, ForgetSpace,
     DeleteRecordedRobot, ForgetRobot, DeleteMap, UninstallAgent,
     DeleteTokenSecret, DisconnectCallFails, Goto
<1>4. CASE Disconnect \/ Kill
  BY <1>1, <1>2, <1>3, <1>4, DisconnectStaysAway, FinishEnds DEF Kill
\* Connect
<1>5. ASSUME NEW n, NEW t, NEW y, StartConnect(n, t, y) PROVE MadeInv'
  <2>1. /\ Snapshot.spaces = spaces /\ Snapshot.robots = robots
        /\ Snapshot.tokens = tokens
    BY DEF Snapshot
  <2>2. Traced'
    BY <1>5, <2>1 DEF StartConnect, Traced
  <2> QED BY <1>5, <2>2, MapFirstStep DEF StartConnect, MadeInv
<1>6. ASSUME Connecting, pc' \notin {"idle", "getMap"},
             pc' = "createMap" => pc = "getMap" /\ UNCHANGED undos,
             \/ UNCHANGED undos
             \/ \E u \in Undos : undos' = Append(undos, u) /\
                  (u.kind = "map" => undos = <<>>),
             UNCHANGED <<before, undoFailed>>,
             Traced => Traced',
             pc # "undo"
      PROVE  MadeInv'
  BY <1>6, MapFirstStep DEF MadeInv, Undoable
<1>7. ASSUME Connecting, pc' \notin {"idle", "getMap"},
             pc' = "createMap" => pc = "getMap" /\ UNCHANGED undos,
             \/ UNCHANGED undos
             \/ \E u \in Undos : undos' = Append(undos, u) /\
                  (u.kind = "map" => undos = <<>>),
             UNCHANGED <<before, undoFailed>>, About' = About,
             spaces' \subseteq spaces,
             \A r \in RobotIds : robots'[r] \in {robots[r], None},
             \A t \in TokenIds : tokens'[t] \in {tokens[t], None},
             pc # "undo"
      PROVE  MadeInv'
  <2>1. ToUndo \subseteq ToUndo'
    BY <1>7, PendingFacts
  <2>2. Traced => Traced'
    BY <1>7, <2>1, TracedStep
  <2> QED BY <1>6, <1>7, <2>2
<1> HIDE DEF Away
<1>8. \A k \in {"map", "space", "robot", "token", "secret"},
         i \in RobotIds \cup TokenIds \cup {None} :
        Undo(k, i) \in Undos /\ Undo(k, i).kind = k
  BY DEF Undo, Undos
<1>9. CASE GetMap \/ CreateMap
  <2>1. /\ Connecting /\ UNCHANGED <<before, undoFailed, name, space, spaces, robots, tokens>>
        /\ pc' \notin {"idle", "getMap"} /\ pc # "undo"
        /\ pc' = "createMap" => pc = "getMap" /\ UNCHANGED undos
        /\ UNCHANGED undos \/ (undos' = Append(undos, Undo("map", None)) /\ pc = "createMap")
    BY <1>9 DEF GetMap, CreateMap, Goto, GotoWith, Connecting, ConnectCalls
  <2>2. pc = "createMap" => undos = <<>>
    BY DEF MadeInv
  <2> QED BY <1>7, <1>8, <2>1, <2>2 DEF About
<1>10. CASE \/ PrepareSpace \/ OldRobot \/ OldSpace \/ DropSpace \/ RecordRobot
            \/ ListTokens \/ RecordToken \/ CreateNamespace \/ ConnectCallFails
  <2>1. /\ Connecting /\ UNCHANGED <<before, undoFailed, name, space, undos>>
        /\ pc' \notin {"idle", "getMap", "createMap"} /\ pc # "undo"
    BY <1>10 DEF PrepareSpace, OldRobot, OldSpace, DropSpace, RecordRobot,
       ListTokens, RecordToken, CreateNamespace, ConnectCallFails, Abort, Goto,
       Connecting, ConnectCalls
  <2>2. \/ UNCHANGED <<spaces, robots, tokens>>
        \/ \E n : DeleteSpace(n) \/ DropRobotNamed(n)
        \/ ListTokens
    BY <1>10 DEF PrepareSpace, OldRobot, OldSpace, DropSpace, RecordRobot,
       RecordToken, CreateNamespace, ConnectCallFails
  <2>3. /\ spaces' \subseteq spaces
        /\ \A r \in RobotIds : robots'[r] \in {robots[r], None}
        /\ \A t \in TokenIds : tokens'[t] \in {tokens[t], None}
    BY <2>2, DeletesOnly DEF ListTokens
  <2> QED BY <1>7, <2>1, <2>3 DEF About
<1>11. CASE CreateSpace
  <2>1. PICK n \in (IF space = None THEN GenNames ELSE {space}) \ spaces :
          /\ spaces' = spaces \cup {n}
          /\ RecordInCopy(n, Append(undos, Undo("space", None)))
    BY <1>11 DEF CreateSpace
  <2>2. CASE nilData
    BY <1>1, <2>1, <2>2, FinishEnds DEF RecordInCopy
  <2>3. CASE ~nilData
    <3>1. /\ pc = "createSpace" /\ pc' = "recordSpace" /\ name' = n
          /\ undos' = Append(undos, Undo("space", None))
          /\ UNCHANGED <<robots, tokens, before, undoFailed>>
      BY <1>11, <2>1, <2>3 DEF CreateSpace, RecordInCopy
    <3>2. ToUndo' = ToUndo \cup {Undo("space", None)}
      BY <3>1, PendingFacts
    <3>3. ~SpaceUndoPending
      BY <3>1, CallsApart DEF ConsentInv, Unnamed
    <3>4. n # None
      BY <2>1, NamesAssumption DEF TypeOK, CommandType, AllNames
    <3>5. ASSUME Traced PROVE Traced'
      <4>1. spaces \subseteq before.spaces
        BY <1>8, <3>3, <3>5 DEF Traced, SpaceUndoPending
      <4> QED BY <2>1, <3>1, <3>2, <3>4, <3>5, <4>1 DEF Traced, About
    <3> QED BY <1>6, <1>8, <3>1, <3>5 DEF Connecting, ConnectCalls
  <2> QED BY <2>2, <2>3
<1>12. CASE AdoptSpace
  <2>1. \/ Ended
        \/ /\ pc = "createSpace" /\ pc' \notin {"idle", "getMap", "createMap"}
           /\ UNCHANGED <<spaces, robots, tokens, before, undoFailed, undos, space>>
           /\ name' \in {name, space}
    BY <1>12, FinishEnds DEF AdoptSpace, RecordInCopy, Abort, AfterSpace, Goto
  <2>2. pc = "createSpace" => name = None
    BY DEF NameInv, Unnamed
  <2> QED BY <1>1, <1>7, <2>1, <2>2 DEF About, Connecting, ConnectCalls
<1>13. CASE RecordSpace
  <2>1. About' = About
    BY <1>13, NamesAssumption DEF RecordSpace, NameInv, About
  <2>2. /\ pc = "recordSpace" /\ pc' \notin {"idle", "getMap", "createMap"}
        /\ UNCHANGED <<spaces, robots, tokens, before, undoFailed, undos>>
    BY <1>13 DEF RecordSpace, AfterSpace, Goto
  <2> QED BY <1>7, <2>1, <2>2 DEF Connecting, ConnectCalls
<1>14. CASE FindRobot \/ CreateTokenSecret
  <2>1. /\ pc \in {"findRobot", "secret"} /\ pc' \notin {"idle", "getMap", "createMap"}
        /\ UNCHANGED <<spaces, robots, tokens, before, undoFailed, name, space>>
        /\ \/ UNCHANGED undos
           \/ undos' = Append(undos, Undo("secret", None))
           \/ \E r \in RobotIds : undos' = Append(undos, Undo("robot", r))
    BY <1>14 DEF FindRobot, CreateTokenSecret, Named, Goto, GotoWith
  <2> QED BY <1>7, <1>8, <2>1 DEF About, Connecting, ConnectCalls
<1>15. CASE CreateRobot
  <2>1. PICK r \in RobotIds :
          /\ robots' = [robots EXCEPT ![r] = space]
          /\ undos' = Append(undos, Undo("robot", r))
          /\ pc = "createRobot" /\ pc' = "recordRobot"
          /\ UNCHANGED <<spaces, tokens, before, undoFailed, name, space>>
    BY <1>15 DEF CreateRobot, FreshRobots, GotoWith
  <2>2. ToUndo' = ToUndo \cup {Undo("robot", r)}
    BY <2>1, PendingFacts
  <2>3. Traced => Traced'
    BY <2>1, <2>2 DEF Traced, About, RobotMaps
  <2> QED BY <1>6, <1>8, <2>1, <2>3 DEF Connecting, ConnectCalls
<1>16. CASE CreateToken
  <2>1. PICK t \in TokenIds :
          /\ tokens' = [tokens EXCEPT ![t] = rid]
          /\ undos' = Append(undos, Undo("token", t))
          /\ pc = "createToken" /\ pc' = "recordToken"
          /\ UNCHANGED <<spaces, robots, before, undoFailed, name, space>>
    BY <1>16 DEF CreateToken, FreshTokens, GotoWith
  <2>2. ToUndo' = ToUndo \cup {Undo("token", t)}
    BY <2>1, PendingFacts
  <2>3. Traced => Traced'
    BY <2>1, <2>2 DEF Traced, About, TokenMaps
  <2> QED BY <1>6, <1>8, <2>1, <2>3 DEF Connecting, ConnectCalls
<1>17. CASE InstallAgent
  <2>1. \/ Ended
        \/ /\ pc = "agent" /\ pc' = "undo"
           /\ UNCHANGED <<spaces, robots, tokens, before, undoFailed, undos, name, space>>
    BY <1>17, FinishEnds DEF InstallAgent
  <2> QED BY <1>1, <1>7, <2>1 DEF About, Connecting
<1>18. CASE UndoDone
  BY <1>1, <1>18, FinishEnds DEF UndoDone
<1>19. CASE UndoStep
  <2> DEFINE u == Last(undos)
  <2>1. /\ pc = "undo" /\ pc' = "undo" /\ undos # <<>> /\ undos' = Front(undos)
        /\ UNCHANGED <<name, space, before>>
        /\ \/ UndoEffect(u) /\ UNCHANGED undoFailed
           \/ undoFailed' = TRUE
    BY <1>19 DEF UndoStep
  <2>2. ToUndo = ToUndo' \cup {u} /\ u \in Undos
    BY <2>1, PendingFacts, UndoStack
  <2>3. MapFirst'
    BY <2>1, MapFirstStep
  <2>4. ASSUME Undoable', UndoEffect(u), UNCHANGED undoFailed PROVE Traced'
    <3>1. Traced /\ name \in {None, space}
      BY <2>1, <2>4 DEF MadeInv, Undoable, Connecting
    <3>2. About = space /\ About' = space
      BY <2>1, <3>1 DEF About
    <3>3. CASE u.kind \in {"map", "secret"}
      <4>1. UNCHANGED <<spaces, robots, tokens>>
        BY <2>4, <3>3 DEF UndoEffect
      <4> QED BY <1>8, <2>1, <2>2, <3>1, <3>2, <3>3, <4>1 DEF Traced
    <3>4. CASE u.kind = "space"
      <4>1. spaces' = spaces \ {space} /\ UNCHANGED <<robots, tokens>>
        BY <2>4, <3>4 DEF UndoEffect
      <4> QED BY <1>8, <2>1, <2>2, <3>1, <3>2, <3>4, <4>1 DEF Traced
    <3>5. CASE u.kind = "robot"
      <4>1. DeleteRobot(u.id)
        BY <2>4, <3>5 DEF UndoEffect
      <4>2. \A r \in RobotIds : u = Undo("robot", r) => u.id = r
        BY DEF Undo
      <4>3. \A r \in RobotIds : robots'[r] # None => u # Undo("robot", r)
        BY <4>1, <4>2 DEF DeleteRobot
      <4>4. /\ spaces' \subseteq spaces
            /\ \A r \in RobotIds : robots'[r] \in {robots[r], None}
            /\ \A t \in TokenIds : tokens'[t] \in {tokens[t], None}
        BY <4>1, DeletesOnly
      <4> QED BY <1>8, <2>1, <2>2, <3>1, <3>2, <3>5, <4>3, <4>4 DEF Traced
    <3>6. CASE u.kind = "token"
      <4>1. tokens' = [tokens EXCEPT ![u.id] = None] /\ UNCHANGED <<spaces, robots>>
        BY <2>4, <3>6 DEF UndoEffect
      <4>2. \A t \in TokenIds : u = Undo("token", t) => u.id = t
        BY DEF Undo
      <4>3. \A t \in TokenIds : /\ tokens'[t] # None => u # Undo("token", t)
                                /\ tokens'[t] \in {tokens[t], None}
        BY <4>1, <4>2 DEF TokenMaps
      <4> QED BY <1>8, <2>1, <2>2, <3>1, <3>2, <3>6, <4>1, <4>3 DEF Traced
    <3> QED BY <2>2, <3>3, <3>4, <3>5, <3>6 DEF Undos
  <2> QED BY <2>1, <2>3, <2>4 DEF MadeInv, Undoable
<1>20. Connect => MadeInv'
  BY <1>5, <1>9, <1>10, <1>11, <1>12, <1>13, <1>14, <1>15, <1>16, <1>17, <1>18,
     <1>19 DEF Connect
<1> QED BY <1>4, <1>20 DEF Next

LEMMA MadeHolds == Spec => []MadeInv
<1>1. Init => MadeInv
  BY DEF Init, MadeInv, MapFirst, Connecting, ConnectCalls
<1>2. MadeInv /\ UNCHANGED vars => MadeInv'
  BY DEF vars, console, cluster, args, copy, made, seen, MadeInv, MapFirst,
         Connecting, Undoable, Traced, About, ToUndo
<1>3. TypeOK /\ NameInv /\ ConsentInv /\ MadeInv /\ [Next]_vars => MadeInv'
  BY <1>2, MadeStep
<1>4. LinkInv => NameInv
  BY DEF LinkInv
<1> QED
  BY <1>1, <1>3, <1>4, TypeCorrect, LinkInvHolds, ConsentHolds, PTL DEF Spec

\* The ConfigMap, the only record of what was made, is the last thing undo
\* takes back: when it goes, nothing this command made is left in the console.
THEOREM MapIsUndoneLast == Spec => MapUndoneLast
<1> DEFINE Undone ==
      pc = "undo" /\ cm # None /\ cm' = None /\ ~undoFailed /\ name \in {None, space}
      => /\ spaces \subseteq before.spaces
         /\ \A r \in RobotIds : robots[r] # None => before.robots[r] = robots[r]
         /\ \A t \in TokenIds : tokens[t] # None => before.tokens[t] # None
<1>1. ASSUME TypeOK, MadeInv, Next, pc = "undo", cm # None, cm' = None,
             ~undoFailed, name \in {None, space}
      PROVE  /\ spaces \subseteq before.spaces
             /\ \A r \in RobotIds : robots[r] # None => before.robots[r] = robots[r]
             /\ \A t \in TokenIds : tokens[t] # None => before.tokens[t] # None
  <2>1. UndoStep
    BY <1>1 DEF Next, Connect, Disconnect, StartConnect, StartDisconnect,
       GetMap, CreateMap, PrepareSpace, OldRobot, OldSpace, DropSpace,
       CreateSpace, AdoptSpace, RecordSpace, FindRobot, CreateRobot,
       RecordRobot, ListTokens, CreateToken, RecordToken, CreateNamespace,
       CreateTokenSecret, InstallAgent, ConnectCallFails, UndoDone,
       ConsoleRobot, ConsoleSpace, GetState, LostRobot, LostSpace,
       DeleteRecordedSpace, ForgetSpace, DeleteRecordedRobot, ForgetRobot,
       DeleteMap, UninstallAgent, DeleteTokenSecret, DisconnectCallFails,
       ConnectCalls, DisconnectCalls, Kill, cluster
  <2>2. undos # <<>> /\ Last(undos).kind = "map"
    BY <1>1, <2>1, UndoStack DEF UndoStep, UndoEffect, cluster, TypeOK,
       CommandType, Undos
  <2>3. ToUndo = {Last(undos)}
    BY <1>1, <2>2, MapFirstStep DEF MadeInv, TypeOK, CommandType
  <2>4. \A k, i : Undo(k, i).kind = k
    BY DEF Undo
  <2>5. Traced
    BY <1>1 DEF MadeInv, Connecting, Undoable
  <2> QED BY <2>2, <2>3, <2>4, <2>5 DEF Traced
<1>2. TypeOK /\ MadeInv /\ [Next]_vars => [Undone]_vars
  BY <1>1
<1> QED
  BY <1>2, TypeCorrect, MadeHolds, PTL DEF Spec, MapUndoneLast

-----------------------------------------------------------------------------
(* A connect that fails where nothing was leaves nothing *)

\* Every token of the console as the command found it belonged to a robot.
OwnedBefore == \A t \in TokenIds :
  before.tokens[t] # None => before.robots[before.tokens[t]] # None

\* The command found a cluster that was not connected, and nothing in the
\* console has the name it asks for.
FreshStart ==
  /\ before.cm = None /\ before.secret = None
  /\ About # None => /\ About \notin before.spaces
                     /\ \A r \in RobotIds : before.robots[r] # About

\* What was there is still there, and nothing that undoes touches it.
Kept ==
  /\ before.spaces \subseteq spaces
  /\ \A r \in RobotIds : before.robots[r] # None => robots[r] = before.robots[r]
  /\ \A t \in TokenIds : before.tokens[t] # None => tokens[t] = before.tokens[t]
  /\ \A r \in RobotIds : Undo("robot", r) \in ToUndo => before.robots[r] = None
  /\ \A t \in TokenIds : Undo("token", t) \in ToUndo => before.tokens[t] = None
  /\ cm # None => Undo("map", None) \in ToUndo
  /\ secret # None => Undo("secret", None) \in ToUndo

KeptInv ==
  /\ pc # "idle" => OwnedBefore
  /\ pc \in Replacing => before.cm # None
  /\ pc \in WithRobot => Undo("robot", rid) \in ToUndo
  /\ Connecting /\ Undoable /\ FreshStart => Kept

\* A step that touches neither the console nor the cluster's objects.
LEMMA KeptStep ==
  ASSUME Kept, UNCHANGED <<spaces, robots, tokens, before, undos>>,
         cm' # None => cm # None, UNCHANGED secret
  PROVE  Kept'
BY DEF Kept, ToUndo

LEMMA KeptUndoStep ==
  ASSUME TypeOK, MadeInv, KeptInv, UndoStep, Undoable', FreshStart'
  PROVE  Kept'
<1> USE DEF console, cluster, args, copy, made, seen
<1> undos \in Seq(Undos) /\ robots \in RobotMaps /\ tokens \in TokenMaps
  BY DEF TypeOK, CommandType, ConsoleType
<1> DEFINE u == Last(undos)
<1>1. /\ pc = "undo" /\ undos # <<>> /\ undos' = Front(undos)
      /\ UNCHANGED <<pc, name, space, before, undoFailed>>
      /\ UndoEffect(u)
  BY DEF UndoStep, Undoable
<1>2. ToUndo = ToUndo' \cup {u} /\ u \in Undos
  BY <1>1, PendingFacts, UndoStack
<1>3. Kept /\ FreshStart /\ name \in {None, space} /\ OwnedBefore
  BY <1>1 DEF KeptInv, Undoable, FreshStart, About, Connecting
<1>4. About = space
  BY <1>3 DEF About
<1>5. \A k, i : Undo(k, i).kind = k /\ Undo(k, i).id = i
  BY DEF Undo
<1>6. CASE u.kind = "map"
  <2>1. cm' = None /\ UNCHANGED <<spaces, robots, tokens, secret>>
    BY <1>1, <1>6 DEF UndoEffect
  <2> QED BY <1>1, <1>2, <1>3, <1>5, <1>6, <2>1 DEF Kept
<1>7. CASE u.kind = "secret"
  <2>1. secret' = None /\ UNCHANGED <<spaces, robots, tokens, cm>>
    BY <1>1, <1>7 DEF UndoEffect
  <2> QED BY <1>1, <1>2, <1>3, <1>5, <1>7, <2>1 DEF Kept
<1>8. CASE u.kind = "space"
  <2>1. spaces' = spaces \ {space} /\ UNCHANGED <<robots, tokens, cm, secret>>
    BY <1>1, <1>8 DEF UndoEffect
  <2>2. space \notin before.spaces
    BY <1>3, <1>4, NamesAssumption DEF FreshStart, Kept, TypeOK, ConsoleType
  <2> QED BY <1>1, <1>2, <1>3, <1>5, <1>8, <2>1, <2>2 DEF Kept
<1>9. CASE u.kind = "robot"
  <2>1. DeleteRobot(u.id) /\ UNCHANGED <<cm, secret>>
    BY <1>1, <1>9 DEF UndoEffect
  <2>2. u = Undo("robot", u.id)
    BY <1>2, <1>9 DEF Undo, Undos
  <2>3. u.id \in RobotIds => before.robots[u.id] = None
    BY <1>2, <1>3, <2>2 DEF Kept
  <2>4. \A r \in RobotIds : before.robots[r] # None => robots'[r] = before.robots[r]
    BY <1>3, <2>1, <2>3 DEF Kept, DeleteRobot
  <2>5. \A t \in TokenIds : before.tokens[t] # None => tokens'[t] = before.tokens[t]
    <3> SUFFICES ASSUME NEW t \in TokenIds, before.tokens[t] # None
                 PROVE  tokens'[t] = before.tokens[t]
      OBVIOUS
    <3>1. tokens[t] = before.tokens[t] /\ before.robots[tokens[t]] # None
      BY <1>3 DEF Kept, OwnedBefore
    <3>2. tokens[t] \in RobotIds
      BY <3>1 DEF TokenMaps
    <3> QED BY <2>1, <2>3, <3>1, <3>2 DEF DeleteRobot
  <2> QED
    BY <1>1, <1>2, <1>3, <1>5, <1>9, <2>1, <2>4, <2>5 DEF Kept, DeleteRobot
<1>10. CASE u.kind = "token"
  <2>1. tokens' = [tokens EXCEPT ![u.id] = None]
        /\ UNCHANGED <<spaces, robots, cm, secret>>
    BY <1>1, <1>10 DEF UndoEffect
  <2>2. u = Undo("token", u.id)
    BY <1>2, <1>10 DEF Undo, Undos
  <2>3. u.id \in TokenIds => before.tokens[u.id] = None
    BY <1>2, <1>3, <2>2 DEF Kept
  <2>4. \A t \in TokenIds : before.tokens[t] # None => tokens'[t] = before.tokens[t]
    BY <1>3, <2>1, <2>3 DEF Kept, TokenMaps
  <2> QED BY <1>1, <1>2, <1>3, <1>5, <1>10, <2>1, <2>4 DEF Kept
<1> QED BY <1>2, <1>6, <1>7, <1>8, <1>9, <1>10 DEF Undos

LEMMA KeptConnect ==
  TypeOK /\ ConnectInv /\ LinkInv /\ ConsentInv /\ MadeInv /\ KeptInv /\ Connect
    => KeptInv'
<1> SUFFICES ASSUME TypeOK, ConnectInv, LinkInv, ConsentInv, MadeInv, KeptInv, Connect
             PROVE  KeptInv'
  OBVIOUS
<1> USE DEF console, cluster, args, copy, made, seen
<1> undos \in Seq(Undos) /\ robots \in RobotMaps /\ tokens \in TokenMaps
  BY DEF TypeOK, CommandType, ConsoleType
<1> NameInv /\ Next
  BY DEF LinkInv, Next
<1>1. CASE Ended
  BY <1>1 DEF Ended, KeptInv, Replacing, WithRobot, Connecting, ConnectCalls
<1>2. ASSUME Connecting, pc # "undo", pc' # "idle", UNCHANGED <<before, undoFailed>>,
             pc' \in Replacing => before.cm # None,
             pc' \in WithRobot => Undo("robot", rid') \in ToUndo',
             Kept /\ FreshStart /\ FreshStart' => Kept'
      PROVE  KeptInv'
  <2>1. Phase # "idle" /\ pc # "idle"
    BY <1>2 DEF Phase, Connecting, ConnectCalls
  <2>2. About \in {None, About'}
    BY <1>2, <2>1, PhaseStep
  <2>3. FreshStart' => FreshStart
    BY <1>2, <2>2 DEF FreshStart
  <2>4. Undoable' => Undoable
    BY <1>2 DEF Undoable
  <2> QED BY <1>2, <2>1, <2>3, <2>4 DEF KeptInv, OwnedBefore
<1>3. \A u : undos' = Append(undos, u) => ToUndo' = ToUndo \cup {u}
  BY PendingFacts
<1>4. \A k, i : Undo(k, i).kind = k /\ Undo(k, i).id = i
  BY DEF Undo
<1>5. pc \in WithRobot => Undo("robot", rid) \in ToUndo
  BY DEF KeptInv
<1>6. UNCHANGED undos => UNCHANGED ToUndo
  BY PendingFacts
<1>7. ASSUME NEW n, NEW t, NEW y, StartConnect(n, t, y) PROVE KeptInv'
  <2>1. /\ Snapshot.spaces = spaces /\ Snapshot.robots = robots
        /\ Snapshot.tokens = tokens /\ Snapshot.cm = cm /\ Snapshot.secret = secret
    BY DEF Snapshot
  <2>2. ToUndo' = {}
    BY <1>7, PendingFacts DEF StartConnect, MadeInv
  <2>3. OwnedBefore'
    BY <1>7, <2>1 DEF StartConnect, LinkInv, TokensOwned, OwnedBefore
  <2>4. FreshStart' => Kept'
    BY <1>7, <2>1, <2>2 DEF StartConnect, FreshStart, Kept
  <2> QED
    BY <1>7, <2>3, <2>4 DEF StartConnect, KeptInv, Replacing, WithRobot
<1> USE DEF Connecting, ConnectCalls, Replacing, WithRobot, Goto, GotoWith
<1>8. CASE GetMap
  BY <1>2, <1>8, KeptStep DEF GetMap
<1>9. CASE CreateMap
  <2>1. ToUndo' = ToUndo \cup {Undo("map", None)}
    BY <1>3, <1>9 DEF CreateMap
  <2>2. Kept => Kept'
    BY <1>4, <1>9, <2>1 DEF CreateMap, Kept
  <2> QED BY <1>2, <1>9, <2>2 DEF CreateMap
<1>10. CASE PrepareSpace
  <2>1. pc' = "oldRobot" => before.cm # None
    BY <1>10 DEF PrepareSpace, ConsentInv, Abort
  <2>2. pc' \in {"createSpace", "oldRobot", "undo"}
    BY <1>10 DEF PrepareSpace, Abort
  <2> QED BY <1>2, <1>10, <2>1, <2>2, KeptStep DEF PrepareSpace, Abort
<1>11. CASE OldRobot \/ OldSpace \/ DropSpace
  <2>1. before.cm # None /\ ~FreshStart
    BY <1>11 DEF OldRobot, OldSpace, DropSpace, KeptInv, FreshStart
  <2> QED BY <1>2, <1>11, <2>1 DEF OldRobot, OldSpace, DropSpace
<1>12. CASE CreateSpace
  <2>1. \/ Ended
        \/ /\ spaces \subseteq spaces' /\ pc' = "recordSpace"
           /\ undos' = Append(undos, Undo("space", None))
           /\ UNCHANGED <<robots, tokens, cm, secret, before, undoFailed>>
    BY <1>12, FinishEnds DEF CreateSpace, RecordInCopy
  <2>2. ~Ended /\ Kept => Kept'
    BY <1>3, <1>4, <2>1 DEF Kept
  <2> QED BY <1>1, <1>2, <1>12, <2>1, <2>2 DEF CreateSpace
<1>13. CASE AdoptSpace
  <2>1. \/ Ended
        \/ /\ pc' \in {"recordSpace", "undo", "findRobot", "namespace"}
           /\ UNCHANGED <<console, cm, secret, before, undoFailed, undos>>
    BY <1>13, FinishEnds DEF AdoptSpace, RecordInCopy, Abort, AfterSpace
  <2> QED BY <1>1, <1>2, <1>13, <2>1, KeptStep DEF AdoptSpace
<1>14. CASE RecordSpace \/ RecordRobot \/ RecordToken
  <2>1. cm # None
    BY <1>14 DEF RecordSpace, RecordRobot, RecordToken, ConnectInv,
       CopyIsCurrent, Unrecorded, Recorded
  <2>2. Kept => Kept'
    BY <1>14, <2>1, KeptStep DEF RecordSpace, RecordRobot, RecordToken, Update
  <2> QED
    BY <1>2, <1>5, <1>6, <1>14, <2>2 DEF RecordSpace, RecordRobot, RecordToken,
       AfterSpace
<1>15. CASE FindRobot
  <2>1. CASE UNCHANGED undos /\ pc' = "createRobot"
    BY <1>2, <1>15, <2>1, KeptStep DEF FindRobot
  <2>2. ASSUME NEW r \in Named(space), rid' = r, undos' = Append(undos, Undo("robot", r)),
               pc' \in {"listTokens", "recordRobot"}
        PROVE  KeptInv'
    <3>1. /\ r \in RobotIds /\ robots[r] = space /\ space # None
          /\ name \in {None, space}
      BY <1>15, <2>2, NamesAssumption DEF FindRobot, Named, ConnectInv,
         SpaceIsMade, Recorded, Robotless, TypeOK, ConsoleType, NameInv
    <3>2. ASSUME Kept, FreshStart PROVE Kept'
      <4>1. before.robots[r] = None
        BY <3>1, <3>2 DEF Kept, FreshStart, About
      <4> QED BY <1>3, <1>4, <1>15, <2>2, <3>2, <4>1 DEF FindRobot, Kept
    <3> QED BY <1>2, <1>3, <1>15, <2>2, <3>2 DEF FindRobot
  <2> QED BY <1>15, <2>1, <2>2 DEF FindRobot
<1>16. CASE CreateRobot
  <2>1. PICK r \in RobotIds :
          /\ robots[r] = None /\ robots' = [robots EXCEPT ![r] = space]
          /\ rid' = r /\ undos' = Append(undos, Undo("robot", r))
    BY <1>16 DEF CreateRobot, FreshRobots
  <2>2. Kept => Kept'
    BY <1>3, <1>4, <1>16, <2>1 DEF CreateRobot, Kept, RobotMaps
  <2> QED BY <1>2, <1>3, <1>16, <2>1, <2>2 DEF CreateRobot
<1>17. CASE ListTokens
  <2>1. ASSUME Kept PROVE Kept'
    <3>1. before.robots[rid] = None
      BY <1>5, <1>17, <2>1 DEF ListTokens, Kept, ConnectInv, RobotIsMade
    <3>2. \A t \in TokenIds : before.tokens[t] # None => tokens'[t] = before.tokens[t]
      BY <1>17, <2>1, <3>1 DEF ListTokens, Kept, KeptInv, OwnedBefore
    <3> QED BY <1>6, <1>17, <2>1, <3>2 DEF ListTokens, Kept
  <2> QED BY <1>2, <1>5, <1>6, <1>17, <2>1 DEF ListTokens
<1>18. CASE CreateToken
  <2>1. PICK t \in TokenIds :
          /\ tokens[t] = None /\ tokens' = [tokens EXCEPT ![t] = rid]
          /\ undos' = Append(undos, Undo("token", t))
    BY <1>18 DEF CreateToken, FreshTokens
  <2>2. Kept => Kept'
    BY <1>3, <1>4, <1>18, <2>1 DEF CreateToken, Kept, TokenMaps
  <2> QED BY <1>2, <1>3, <1>5, <1>18, <2>1, <2>2 DEF CreateToken
<1>19. CASE CreateTokenSecret
  <2>1. Kept => Kept'
    BY <1>3, <1>4, <1>19 DEF CreateTokenSecret, Kept
  <2> QED BY <1>2, <1>19, <2>1 DEF CreateTokenSecret
<1>20. CASE CreateNamespace \/ ConnectCallFails
  BY <1>2, <1>20, KeptStep DEF CreateNamespace, ConnectCallFails
<1>21. CASE InstallAgent
  <2>1. \/ Ended
        \/ pc' = "undo" /\ UNCHANGED <<before, undoFailed, undos>>
    BY <1>21, FinishEnds DEF InstallAgent
  <2> QED BY <1>1, <1>2, <1>21, <2>1, KeptStep DEF InstallAgent
<1>22. CASE UndoDone
  BY <1>1, <1>22, FinishEnds DEF UndoDone
<1>23. CASE UndoStep
  BY <1>23, KeptUndoStep DEF UndoStep, KeptInv, OwnedBefore
<1> QED
  BY <1>7, <1>8, <1>9, <1>10, <1>11, <1>12, <1>13, <1>14, <1>15, <1>16, <1>17,
     <1>18, <1>19, <1>20, <1>21, <1>22, <1>23 DEF Connect

LEMMA KeptElse ==
  TypeOK /\ LinkInv /\ KeptInv /\ (Disconnect \/ Kill) => KeptInv'
<1> SUFFICES ASSUME TypeOK, LinkInv, KeptInv, Disconnect \/ Kill PROVE KeptInv'
  OBVIOUS
<1> USE DEF console, cluster, args, copy, made, seen
<1>1. CASE Ended
  BY <1>1 DEF Ended, KeptInv, Replacing, WithRobot, Connecting, ConnectCalls
<1>2. ASSUME pc' \in Away, OwnedBefore' PROVE KeptInv'
  BY <1>2 DEF KeptInv, Away, DisconnectCalls, Replacing, WithRobot, Connecting,
     ConnectCalls
<1>3. ASSUME NEW n, NEW k, NEW y, StartDisconnect(n, k, y) PROVE OwnedBefore'
  BY <1>3 DEF StartDisconnect, Snapshot, LinkInv, TokensOwned, OwnedBefore
<1>4. ASSUME Disconnect, ~\E n, k, y : StartDisconnect(n, k, y)
      PROVE  Ended \/ (pc # "idle" /\ UNCHANGED before)
  BY <1>4, FinishEnds DEF Disconnect, ConsoleRobot, ConsoleSpace,
     GetState, LostRobot, LostSpace, DeleteRecordedSpace, ForgetSpace,
     DeleteRecordedRobot, ForgetRobot, DeleteMap, UninstallAgent,
     DeleteTokenSecret, DisconnectCallFails, Goto, DisconnectCalls
<1>5. pc # "idle" /\ UNCHANGED before => OwnedBefore'
  BY DEF KeptInv, OwnedBefore
<1>6. CASE Disconnect
  BY <1>1, <1>2, <1>3, <1>4, <1>5, <1>6, DisconnectStaysAway
<1> QED BY <1>1, <1>6, FinishEnds DEF Kill

\* connect, failing on a cluster that was never connected and with a name
\* nobody uses, leaves the console, the ConfigMap and the Secret as it found
\* them, if no undo function failed.
THEOREM FailureLeavesNothing == Spec => FailedConnectCleansUp
<1>1. Init => KeptInv
  BY DEF Init, KeptInv, Replacing, WithRobot, Connecting, ConnectCalls
<1>2. KeptInv /\ UNCHANGED vars => KeptInv'
  BY DEF vars, console, cluster, args, copy, made, seen, KeptInv, OwnedBefore,
         Connecting, Undoable, FreshStart, About, Kept, ToUndo
<1>3. /\ TypeOK /\ ConnectInv /\ LinkInv /\ ConsentInv /\ MadeInv /\ KeptInv
      /\ [Next]_vars
      => KeptInv'
  BY <1>2, KeptConnect, KeptElse DEF Next
<1>4. ASSUME TypeOK, LinkInv, MadeInv, KeptInv, UndoDone, ~undoFailed,
             space # None, space \notin before.spaces,
             \A r \in RobotIds : before.robots[r] # space,
             before.cm = None, before.secret = None,
             before \in Snapshots
      PROVE  /\ <<spaces, robots, tokens>> =
                  <<before.spaces, before.robots, before.tokens>>
             /\ cm = None /\ secret = None
  <2>1. pc = "undo" /\ ToUndo = {}
    BY <1>4, PendingFacts DEF UndoDone, TypeOK, CommandType
  <2>2. name \in {None, space}
    BY <1>4, <2>1 DEF LinkInv, NameInv
  <2>3. Undoable /\ Connecting /\ About = space
    BY <1>4, <2>1, <2>2 DEF Undoable, Connecting, About
  <2>4. Traced /\ Kept
    BY <1>4, <2>3 DEF MadeInv, KeptInv, FreshStart
  <2>5. /\ robots \in RobotMaps /\ tokens \in TokenMaps
        /\ before.robots \in RobotMaps /\ before.tokens \in TokenMaps
    BY <1>4 DEF TypeOK, ConsoleType, Snapshots
  <2>6. spaces = before.spaces
    BY <2>1, <2>4 DEF Traced, Kept
  <2>7. robots = before.robots
    <3>1. \A r \in RobotIds : robots[r] = before.robots[r]
      BY <2>1, <2>4 DEF Traced, Kept
    <3> QED BY <2>5, <3>1 DEF RobotMaps
  <2>8. tokens = before.tokens
    <3>1. \A t \in TokenIds : tokens[t] = before.tokens[t]
      BY <2>1, <2>4 DEF Traced, Kept
    <3> QED BY <2>5, <3>1 DEF TokenMaps
  <2>9. cm = None /\ secret = None
    BY <2>1, <2>4 DEF Kept
  <2> QED BY <2>6, <2>7, <2>8, <2>9
<1>5. ConsentInv /\ UndoDone => before \in Snapshots
  BY DEF ConsentInv, UndoDone
<1> DEFINE Clean ==
      /\ UndoDone
      /\ ~undoFailed
      /\ space # None /\ space \notin before.spaces
      /\ \A r \in RobotIds : before.robots[r] # space
      /\ before.cm = None /\ before.secret = None
      => /\ <<spaces, robots, tokens>> =
              <<before.spaces, before.robots, before.tokens>>
         /\ cm = None /\ secret = None
<1>6. TypeOK /\ LinkInv /\ ConsentInv /\ MadeInv /\ KeptInv => [Clean]_vars
  BY <1>4, <1>5
<1> QED
  BY <1>1, <1>3, <1>6, TypeCorrect, ConnectInvHolds, LinkInvHolds, ConsentHolds,
     MadeHolds, PTL DEF Spec, FailedConnectCleansUp

=============================================================================
