----------------------------- MODULE SpaceLink -----------------------------
(***************************************************************************)
(* What `up space connect` and `up space disconnect` promise, seen from    *)
(* outside: which Space of the console, if any, the cluster is usably      *)
(* connected as.  A link exists when the Space, a live token in the        *)
(* cluster's Secret and a deployed agent agree on the name.                *)
(***************************************************************************)
CONSTANTS SpaceNames, NoSpace

VARIABLES
  link,    \* the Space the cluster is usably connected as, or NoSpace
  phase,   \* the command that is running
  goal,    \* the Space the running connect is about, once it has a name
  result   \* how the last command ended

vars == <<link, phase, goal, result>>

Results == {"none", "connected", "disconnected", "other"}

TypeOK ==
  /\ link \in SpaceNames \cup {NoSpace}
  /\ phase \in {"idle", "connecting", "disconnecting"}
  /\ goal \in SpaceNames \cup {NoSpace}
  /\ result \in Results

Init ==
  /\ link = NoSpace /\ phase = "idle" /\ goal = NoSpace /\ result = "none"

\* A command starts; it has no effect yet.
Start ==
  /\ phase = "idle"
  /\ phase' \in {"connecting", "disconnecting"}
  /\ goal' \in IF phase' = "connecting" THEN SpaceNames \cup {NoSpace} ELSE {NoSpace}
  /\ result' = "none"
  /\ UNCHANGED link

\* The links one step of the running command may leave: it may cut the link,
\* and only a connect may make one, to its own goal and to nothing else.
Reachable(g) == {link, NoSpace} \cup (IF phase = "connecting" THEN {g} ELSE {})

Work ==
  /\ phase # "idle"
  /\ goal = NoSpace \/ goal' = goal
  /\ goal' \in SpaceNames \cup {NoSpace}
  /\ phase = "disconnecting" => goal' = NoSpace
  /\ link' \in Reachable(goal')
  /\ UNCHANGED <<phase, result>>

\* The command ends.  Success is the promise; failing or dying promises only
\* that no other link was made on the way.
End ==
  /\ phase # "idle"
  /\ phase' = "idle"
  /\ goal' = NoSpace
  /\ \/ phase = "connecting" /\ goal # NoSpace /\ link' = goal
        /\ result' = "connected"
     \/ phase = "disconnecting" /\ link' = NoSpace
        /\ result' = "disconnected"
     \/ link' \in Reachable(goal) /\ result' = "other"

Next == Start \/ Work \/ End

Spec == Init /\ [][Next]_vars

=============================================================================
