--------------------------- MODULE CtxNavigation ---------------------------
(***************************************************************************)
(* `up ctx` as the user sees it: a list of the items below the current     *)
(* node, keys that move through it, and state changes that run beside the  *)
(* program's loop and come back to it as messages; and the walk along a    *)
(* path given as an argument.  A node is the sequence of names that leads   *)
(* to it: organization, space, group, control plane; the node Disconnected  *)
(* is beside the organizations.  What a switch writes is KubeContext's.    *)
(***************************************************************************)
EXTENDS Naturals, SequencesExt

CONSTANTS
    Nodes,         \* the sequences of names there are
    Disconnected,  \* the node of the spaces known from the kubeconfig
    Unreachable,   \* spaces that are listed and cannot be entered
    PathArguments, \* arguments of `up ctx`: sequences of names, ".." and "."
    MaxInFlight,   \* bound: state changes under way at the same time
    MaxSwitches    \* bound: times the kubeconfig is written

ASSUME NavigationAssumption ==
    /\ IsFiniteSet(Nodes) /\ \A n \in Nodes : n \in Seq(ToSet(n))
    /\ <<>> \in Nodes /\ Disconnected \in Nodes /\ Len(Disconnected) = 1
    /\ \A n \in Nodes \ {<<>>} : Front(n) \in Nodes

VARIABLES
    terminal,  \* the model of the program: its state, its list and so on
    changing,  \* the state changes under way: [1 .. n -> what and from where]
    current,   \* the node the kubeconfig leads to
    switched,  \* the nodes it was switched to, in order
    hurried    \* has the user gone on without waiting for a list

navigationVars == <<terminal, changing, current, switched, hurried>>

NoNode == <<"no node">>
Items(kind, nodes) == [i \in 1 .. Len(nodes) |-> [kind |-> kind, node |-> nodes[i]]]
BackTo(node) == Items("back", <<Front(node)>>)
SwitchTo(node) == Items("switch", <<node>>)
Plain(node) == Items("plain", <<node>>)   \* cannot be selected

\* Only what is at least a space can be switched to.
Accepting(node) == Len(node) >= 2
Below(node) == {n \in Nodes : n # <<>> /\ Front(n) = node}
-----------------------------------------------------------------------------
(* The items of a node: a set of possible lists *)

\* Organizations that cannot be listed are no error, one line tells of them.
RootItems ==
    {Items("enter", SetToSeq(Below(<<>>) \ {Disconnected})) \o Items("enter", <<Disconnected>>),
     Plain(<<>>) \o Items("enter", <<Disconnected>>)}

\* Only the contexts of the kubeconfig that lead to a space by now.
DisconnectedItems ==
    {BackTo(Disconnected) \o Items("enter", SetToSeq(spaces)) : spaces \in SUBSET Below(Disconnected)}

\* The spaces that can be reached, then the others.
OrganizationItems(org) ==
    {BackTo(org) \o Items("enter", SetToSeq(Below(org) \ Unreachable))
                 \o Items("plain", SetToSeq(Below(org) \cap Unreachable))}

SpaceItems(space) ==
    {BackTo(space) \o (IF Below(space) = {} THEN Plain(space) ELSE Items("enter", SetToSeq(Below(space))))
                   \o SwitchTo(space)}

GroupItems(group) ==
    {BackTo(group) \o (IF Below(group) = {} THEN Plain(group) ELSE Items("enter", SetToSeq(Below(group))))
                   \o SwitchTo(group)}

ControlPlaneItems(ctp) == {BackTo(ctp) \o SwitchTo(ctp)}

ItemsOf(node) ==
    IF node = <<>> THEN RootItems
    ELSE IF node = Disconnected THEN DisconnectedItems
    ELSE IF Len(node) = 1 THEN OrganizationItems(node)
    ELSE IF Len(node) = 2 THEN SpaceItems(node)
    ELSE IF Len(node) = 3 THEN GroupItems(node)
    ELSE ControlPlaneItems(node)

\* Listing asks a server, but for the items of a control plane.
MayFail(node) == Len(node) < 4
-----------------------------------------------------------------------------
(* The list *)

Selectable(item) == item.kind # "plain"

\* A new list starts on the first item that goes further down, if there is one.
StartOf(items) ==
    LET good == {i \in DOMAIN items : Selectable(items[i]) /\ items[i].kind # "back"}
    IN  IF good = {} THEN 1 ELSE CHOOSE i \in good : \A j \in good : i <= j

NewList(m, items) == [m EXCEPT !.items = items, !.cursor = StartOf(items)]

\* Up and down go to the next item that can be selected; the keys that page
\* or jump go where they go.
MoveCursor ==
    /\ terminal.stage = "running" /\ ~terminal.disabled
    /\ \E i \in DOMAIN terminal.items :
        /\ Selectable(terminal.items[i]) \/ i \in {1, Len(terminal.items)}
        /\ terminal' = [terminal EXCEPT !.cursor = i]
    /\ UNCHANGED <<changing, current, switched, hurried>>
-----------------------------------------------------------------------------
\* DeriveState: the node of the current context; Root if it is none of a space
\* or the space does not answer.
DeriveState == {<<>>, current}

FailedCommand ==
    /\ terminal' = [terminal EXCEPT !.stage = "left", !.err = TRUE]
    /\ UNCHANGED <<current, switched>>

RunInteractive ==
    /\ terminal.stage = "off"
    /\ \/ FailedCommand
       \/ \E node \in DeriveState : \E items \in ItemsOf(node) :
            /\ terminal' = NewList([terminal EXCEPT !.stage = "running", !.node = node], items)
            /\ UNCHANGED <<current, switched>>
    /\ UNCHANGED <<changing, hurried>>

\* The program takes a key at any time.  withNavDisabled stops the list's own
\* keys only.
Starts(what, node) ==
    /\ Len(changing) < MaxInFlight
    /\ hurried' = (hurried \/ changing # <<>>)
    /\ terminal' = [terminal EXCEPT !.disabled = TRUE]
    /\ changing' = Append(changing, [what |-> what, node |-> node, from |-> terminal', step |-> "started"])
    /\ UNCHANGED <<current, switched>>

\* An item that cannot be selected has no function: calling it panics.
SelectKey ==
    /\ terminal.stage = "running"
    /\ LET item == terminal.items[terminal.cursor] IN
       \/ Selectable(item) /\ Starts(IF item.kind = "switch" THEN "switch" ELSE "enter", item.node)
       \/ ~Selectable(item) /\ terminal' = [terminal EXCEPT !.stage = "panicked"]
          /\ UNCHANGED <<changing, current, switched, hurried>>

BackKey ==
    /\ terminal.stage = "running" /\ terminal.node # <<>>
    /\ Starts("enter", Front(terminal.node))

ExitKey ==
    /\ terminal.stage = "running"
    /\ terminal' = [terminal EXCEPT !.stage = "left"]
    /\ UNCHANGED <<changing, current, switched, hurried>>

\* The writer, once a client can be built for the node; KubeContext has what
\* it does to the kubeconfig.
Accept(node) ==
    /\ Len(switched) < MaxSwitches
    /\ current' = node
    /\ switched' = Append(switched, node)

\* q accepts the node of the title, inside the loop.
QuitKey ==
    /\ terminal.stage = "running" /\ Accepting(terminal.node)
    /\ \/ /\ Accept(terminal.node)
          /\ terminal' = [terminal EXCEPT !.stage = "ended", !.said = terminal.node]
       \/ /\ terminal' = [terminal EXCEPT !.err = TRUE]
          /\ UNCHANGED <<current, switched>>
    /\ hurried' = (hurried \/ changing # <<>>)
    /\ UNCHANGED changing

\* A change runs in a goroutine on the copy of the model it was started with.
\* One to another node gets that node's list; if that fails the node has
\* changed and the list has not.
Running == terminal.stage = "running"
Done(i, m) == changing' = [changing EXCEPT ![i] = [@ EXCEPT !.step = "done", !.from = m]]

EnterNodeAtOnce(i) == \* Mutant: the list comes from the node the program has left
    /\ Running /\ changing[i].step = "started" /\ changing[i].what = "enter"
    /\ LET m == [changing[i].from EXCEPT !.node = changing[i].node] IN
       \E items \in ItemsOf(changing[i].from.node) : Done(i, NewList(m, items))
    /\ UNCHANGED <<terminal, current, switched, hurried>>

EnterNode(i) ==
    /\ Running /\ changing[i].step = "started" /\ changing[i].what = "enter"
    /\ LET m == [changing[i].from EXCEPT !.node = changing[i].node] IN
       \/ \E items \in ItemsOf(m.node) : Done(i, NewList(m, items))
       \/ MayFail(m.node) /\ Done(i, [m EXCEPT !.err = TRUE])
    /\ UNCHANGED <<terminal, current, switched, hurried>>

\* One that switches writes the kubeconfig, then also lists the node it is at.
SwitchNodeUntold(i) == \* Mutant: an error of the listing is taken for one of the switch
    /\ Running /\ changing[i].step = "started" /\ changing[i].what = "switch"
    /\ LET m == changing[i].from IN
       \/ /\ Accept(changing[i].node)
          /\ \/ Done(i, [m EXCEPT !.said = changing[i].node])
             \/ MayFail(m.node) /\ Done(i, [m EXCEPT !.err = TRUE])
       \/ Done(i, [m EXCEPT !.err = TRUE]) /\ UNCHANGED <<current, switched>>
    /\ UNCHANGED <<terminal, hurried>>

SwitchNode(i) ==
    /\ Running /\ changing[i].step = "started" /\ changing[i].what = "switch"
    /\ LET m == changing[i].from IN
       \/ /\ Accept(changing[i].node)
          /\ \/ Done(i, [m EXCEPT !.said = changing[i].node])
             \/ MayFail(m.node) /\ Done(i, [m EXCEPT !.said = changing[i].node, !.err = TRUE])
       \/ Done(i, [m EXCEPT !.err = TRUE]) /\ UNCHANGED <<current, switched>>
    /\ UNCHANGED <<terminal, hurried>>


\* Its model comes back as a message and replaces the one of the program, with
\* all that was done in the meantime.
TakeModel(i) ==
    /\ Running /\ changing[i].step = "done"
    /\ LET m == changing[i].from IN
       terminal' = [m EXCEPT !.disabled = FALSE, !.stage = IF m.said = NoNode THEN "running" ELSE "ended"]
    /\ changing' = RemoveAt(changing, i)
    /\ UNCHANGED <<current, switched, hurried>>
-----------------------------------------------------------------------------
(* An argument: a walk, and a switch if it leads elsewhere; if it does not,
   the message names the context there is and tells of no switch *)

WalkPath(start, path) ==
    FoldLeft(LAMBDA at, name :
                CASE name \in {"", "."} \/ at = NoNode -> at
                  [] name = ".." /\ at # NoNode -> IF at = <<>> THEN NoNode ELSE Front(at)
                  [] OTHER -> IF Append(at, name) \in Nodes \ Unreachable THEN Append(at, name) ELSE NoNode,
             start, path)

RunNonInteractive ==
    /\ terminal.stage = "off"
    /\ \E start \in DeriveState, path \in PathArguments :
        LET node == WalkPath(IF path[1] \in {".", ".."} THEN start ELSE <<>>, path) IN
        \/ FailedCommand
        \/ /\ node \notin {NoNode, start} /\ Accepting(node)
           /\ Accept(node)
           /\ terminal' = [terminal EXCEPT !.stage = "ended", !.node = start, !.said = node]
        \/ /\ node = start
           /\ terminal' = [terminal EXCEPT !.stage = "ended", !.node = start]
           /\ UNCHANGED <<current, switched>>
    /\ UNCHANGED <<changing, hurried>>
-----------------------------------------------------------------------------
NavigationInit ==
    /\ terminal = [stage |-> "off", node |-> <<>>, items |-> <<>>, cursor |-> 1,
                   disabled |-> FALSE, err |-> FALSE, said |-> NoNode]
    /\ current \in {n \in Nodes : Accepting(n) /\ n \notin Unreachable}
    /\ changing = <<>> /\ switched = <<>> /\ hurried = FALSE

NavigationNext ==
    \/ RunInteractive \/ RunNonInteractive
    \/ MoveCursor \/ SelectKey \/ BackKey \/ ExitKey \/ QuitKey
    \/ \E i \in DOMAIN changing : EnterNode(i) \/ SwitchNode(i) \/ TakeModel(i)

NavigationSpec == NavigationInit /\ [][NavigationNext]_navigationVars
-----------------------------------------------------------------------------
(* What is on the screen belongs together however the results of state     *)
(* changes come back: the list below a title is a list of the node in the  *)
(* title, unless the error of a listing stands below it (list.go).         *)
ListIsOfTheNode ==
    terminal.stage = "running" /\ ~terminal.err => terminal.items \in ItemsOf(terminal.node)

(* For a user who waits for the list after each key: the command that says *)
(* a context was switched to has switched to it, once and last, whatever   *)
(* failed after the kubeconfig was written; one that ends without saying   *)
(* so, a walk that leads nowhere or a session that is left, has written    *)
(* nothing, unless it was left during a switch (list.go and cmd.go).       *)
SwitchIsTold ==
    ~hurried =>
        /\ terminal.stage = "ended" =>
              IF terminal.said = NoNode THEN switched = <<>>
              ELSE switched = <<terminal.said>> /\ current = terminal.said
        /\ terminal.stage \in {"left", "panicked"} /\ (\A i \in DOMAIN changing : changing[i].what # "switch")
              => switched = <<>>
=============================================================================
