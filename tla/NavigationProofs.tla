-------------------------- MODULE NavigationProofs --------------------------
(***************************************************************************)
(* What the programs that keep the terminal show.  First the screens of    *)
(* up ctx, for any tree of nodes.  A change of the list takes long, and    *)
(* its result replaces the screen it began with, so the invariant speaks   *)
(* of the screen, of those that changes under way hold, and of the         *)
(* kubeconfig between a switch and its answer.                             *)
(***************************************************************************)
EXTENDS CtxNavigation, Trace, FiniteSetTheorems, SequenceTheorems, TLAPS

Entry == [kind : {"enter", "back", "plain"}, node : Nodes]
            \cup [kind : {"switch"}, node : {n \in Nodes : Accepting(n)}]

(* A list of nodes makes a list of entries. *)
LEMMA ItemsFacts ==
    ASSUME NEW nodes \in Seq(Nodes), NEW kind \in {"enter", "back", "plain"}
    PROVE  Items(kind, nodes) \in Seq(Entry) /\ Len(Items(kind, nodes)) = Len(nodes)
<1>1. Len(nodes) \in Nat /\ \A i \in 1 .. Len(nodes) : nodes[i] \in Nodes
  OBVIOUS
<1>2. \A i \in 1 .. Len(nodes) : [kind |-> kind, node |-> nodes[i]] \in Entry
  BY <1>1 DEF Entry
<1> QED
  BY <1>1, <1>2 DEF Items

(* The list of what may be done with a group or a control plane.           *)
LEMMA SwitchFacts ==
    ASSUME NEW node \in Nodes, Accepting(node)
    PROVE  SwitchTo(node) \in Seq(Entry) /\ Len(SwitchTo(node)) = 1
<1>1. [kind |-> "switch", node |-> node] \in Entry
  BY DEF Entry
<1>2. SwitchTo(node) = [i \in 1 .. 1 |-> [kind |-> "switch", node |-> node]]
  BY DEF SwitchTo, Items
<1> QED
  BY <1>1, <1>2

(* A set of nodes is listed in some order. *)
LEMMA ListedFacts ==
    ASSUME NEW S \in SUBSET Nodes
    PROVE  SetToSeq(S) \in Seq(Nodes)
<1>1. IsFiniteSet(S)
  BY NavigationAssumption, FS_Subset
<1>2. Cardinality(S) \in Nat /\ ExistsBijection(1 .. Cardinality(S), S)
  BY <1>1, FS_CardinalityType
<1>3. \E f \in [1 .. Cardinality(S) -> S] : IsInjective(f)
  BY <1>2 DEF ExistsBijection, Bijection, Injection
<1>4. SetToSeq(S) \in [1 .. Cardinality(S) -> S]
  BY <1>3 DEF SetToSeq
<1> QED
  BY <1>2, <1>4

(* The length of a node. *)
LEMMA NodeFacts ==
    ASSUME NEW node \in Nodes
    PROVE  /\ Len(node) \in Nat /\ (Len(node) = 0 => node = <<>>)
           /\ BackTo(node) \in Seq(Entry) \/ node = <<>>
           /\ node # <<>> => Len(BackTo(node)) = 1
           /\ Plain(node) \in Seq(Entry) /\ Len(Plain(node)) = 1
<1>1. node \in Seq(ToSet(node))
  BY NavigationAssumption
<1>0. Len(node) \in Nat /\ (Len(node) = 0 => node = <<>>)
  BY <1>1
<1>2. <<node>> \in Seq(Nodes)
  OBVIOUS
<1>3. node # <<>> => <<Front(node)>> \in Seq(Nodes)
  BY NavigationAssumption
<1> QED
  BY <1>0, <1>2, <1>3, ItemsFacts DEF BackTo, Plain

LEMMA AppendedFacts ==
    ASSUME NEW S, NEW a \in Seq(S), NEW b \in Seq(S), Len(a) = 1
    PROVE  a \o b \in Seq(S) /\ a \o b # <<>>
<1>1. a \o b \in Seq(S)
  BY ConcatProperties
<1>2. Len(a \o b) = Len(a) + Len(b) /\ Len(b) \in Nat
  BY ConcatProperties, LenProperties
<1>3. Len(a \o b) # 0
  BY <1>2
<1> QED
  BY <1>1, <1>3

(* What stands below a node: never nothing, and what can be switched to is *)
(* a space at least.                                                       *)
LEMMA ItemsOfFacts ==
    ASSUME NEW node \in Nodes, NEW items \in ItemsOf(node)
    PROVE  items \in Seq(Entry) /\ items # <<>>
<1>1. ASSUME NEW S \in SUBSET Nodes, NEW kind \in {"enter", "plain"}
      PROVE  Items(kind, SetToSeq(S)) \in Seq(Entry)
  BY ListedFacts, ItemsFacts
<1>0. Len(<<>>) = 0 /\ Disconnected # <<>> /\ Len(Disconnected) = 1 /\ Disconnected \in Nodes
  <2>1. Len(<<>>) = 0
    OBVIOUS
  <2>2. Len(Disconnected) = 1 /\ Disconnected \in Nodes
    BY NavigationAssumption, Zenon
  <2> QED
    BY <2>1, <2>2
<1>2. /\ Below(node) \subseteq Nodes /\ Below(Disconnected) \subseteq Nodes /\ Below(<<>>) \subseteq Nodes
  BY DEF Below
<1>3. CASE node = <<>>
  <2>1. Items("enter", <<Disconnected>>) \in Seq(Entry) /\ Len(Items("enter", <<Disconnected>>)) = 1
    <3>1. <<Disconnected>> \in Seq(Nodes) /\ Len(<<Disconnected>>) = 1
      BY <1>0
    <3> QED
      BY <3>1, ItemsFacts
  <2>2. Items("enter", SetToSeq(Below(<<>>) \ {Disconnected})) \in Seq(Entry)
    BY <1>1, <1>2
  <2>3. Plain(<<>>) \in Seq(Entry) /\ Len(Plain(<<>>)) = 1
    BY <1>3, NodeFacts
  <2>4. items \in RootItems
    BY <1>0, <1>3 DEF ItemsOf
  <2>5. CASE items = Items("enter", SetToSeq(Below(<<>>) \ {Disconnected})) \o Items("enter", <<Disconnected>>)
    BY <2>1, <2>2, <2>5
  <2>6. CASE items = Plain(<<>>) \o Items("enter", <<Disconnected>>)
    BY <2>1, <2>3, <2>6
  <2> QED
    BY <2>4, <2>5, <2>6 DEF RootItems
<1>4. CASE node # <<>> /\ node = Disconnected
  <2>0. ItemsOf(node) = DisconnectedItems
    BY <1>0, <1>4 DEF ItemsOf
  <2>1. PICK spaces \in SUBSET Below(Disconnected) :
            items = BackTo(Disconnected) \o Items("enter", SetToSeq(spaces))
    BY <2>0 DEF DisconnectedItems
  <2>2. BackTo(Disconnected) \in Seq(Entry) /\ Len(BackTo(Disconnected)) = 1
    BY <1>0, <1>4, NodeFacts
  <2>3. Items("enter", SetToSeq(spaces)) \in Seq(Entry)
    BY <1>1, <1>2
  <2> QED
    BY <2>1, <2>2, <2>3
<1>5. CASE Len(node) = 1 /\ node # <<>> /\ node # Disconnected
  <2> DEFINE good == Items("enter", SetToSeq(Below(node) \ Unreachable))
             bad == Items("plain", SetToSeq(Below(node) \cap Unreachable))
  <2>0. ItemsOf(node) = OrganizationItems(node)
    BY <1>0, <1>5 DEF ItemsOf
  <2>1. items = BackTo(node) \o good \o bad
    BY <2>0 DEF OrganizationItems
  <2>2. BackTo(node) \in Seq(Entry) /\ Len(BackTo(node)) = 1
    BY <1>5, NodeFacts
  <2>3. good \in Seq(Entry) /\ bad \in Seq(Entry)
    BY <1>1, <1>2
  <2> HIDE DEF good, bad
  <2>4. good \o bad \in Seq(Entry) /\ BackTo(node) \o good \o bad \in Seq(Entry)
    BY <2>2, <2>3
  <2>5. Len(BackTo(node) \o good \o bad) >= 1
    BY <2>2, <2>3
  <2> QED
    BY <2>1, <2>4, <2>5
<1>6. CASE node # <<>> /\ node # Disconnected /\ Len(node) # 1
  <2>0. Len(node) \in Nat /\ Len(node) # 0 /\ Len(node) # 1
    BY <1>6, NodeFacts
  <2>9. \A k \in Nat : k # 0 /\ k # 1 => k >= 2
    OBVIOUS
  <2>1. Len(node) >= 2 /\ Accepting(node)
    BY <2>0, <2>9 DEF Accepting
  <2> DEFINE below == IF Below(node) = {} THEN Plain(node) ELSE Items("enter", SetToSeq(Below(node)))
  <2>2. items = BackTo(node) \o below \o SwitchTo(node) \/ items = BackTo(node) \o SwitchTo(node)
    BY <1>0, <1>6, <2>1 DEF ItemsOf, SpaceItems, GroupItems, ControlPlaneItems
  <2>3. BackTo(node) \in Seq(Entry) /\ Len(BackTo(node)) = 1
    BY <1>6, NodeFacts
  <2>4. below \in Seq(Entry)
    BY <1>1, <1>2, NodeFacts
  <2>5. SwitchTo(node) \in Seq(Entry)
    BY <2>1, SwitchFacts
  <2> HIDE DEF below
  <2>6. CASE items = BackTo(node) \o below \o SwitchTo(node)
    BY <2>3, <2>4, <2>5, <2>6
  <2>7. CASE items = BackTo(node) \o SwitchTo(node)
    BY <2>3, <2>5, <2>7, AppendedFacts
  <2> QED
    BY <2>2, <2>6, <2>7
<1> QED
  BY <1>3, <1>4, <1>5, <1>6

(* A set of positions has a first one. *)
LEMMA FirstFacts ==
    ASSUME NEW good \in SUBSET Nat, good # {}
    PROVE  \E i \in good : \A j \in good : i <= j
<1>1. IsWellFoundedOn(OpToRel(<, Nat), Nat)
  BY NatLessThanWellFounded
<1>2. PICK i \in good : \A j \in good : ~ (<<j, i>> \in OpToRel(<, Nat))
  BY <1>1, WFMin
<1>3. \A j \in good : ~ (j < i)
  BY <1>2 DEF OpToRel
<1> QED
  BY <1>3

(* The cursor starts in the list. *)
LEMMA StartFacts ==
    ASSUME NEW items \in Seq(Entry), items # <<>>
    PROVE  StartOf(items) \in DOMAIN items
<1> DEFINE good == {i \in DOMAIN items : Selectable(items[i]) /\ items[i].kind # "back"}
<1>1. 1 \in DOMAIN items /\ DOMAIN items \subseteq Nat
  OBVIOUS
<1>2. CASE good = {}
  BY <1>1, <1>2 DEF StartOf
<1>3. CASE good # {}
  <2>1. \E i \in good : \A j \in good : i <= j
    <3>1. good \in SUBSET Nat
      BY <1>1
    <3> HIDE DEF good
    <3> QED
      BY <1>3, <3>1, FirstFacts
  <2>2. StartOf(items) = CHOOSE i \in good : \A j \in good : i <= j
    BY <1>3 DEF StartOf
  <2> HIDE DEF good
  <2>3. StartOf(items) \in good
    BY <2>1, <2>2
  <2> QED
    BY <2>3 DEF good
<1> QED
  BY <1>2, <1>3

\* The model of the program.
Model == [stage : {"off", "running", "left", "panicked", "ended"}, node : Nodes, items : Seq(Entry),
          cursor : Nat \ {0}, disabled : BOOLEAN, err : BOOLEAN, said : Nodes \cup {NoNode}]

\* A program that runs has a list, with the cursor on an entry; the list is
\* the node's unless an error stands below it.
IsScreen(m) ==
    /\ m \in Model /\ m.stage = "running"
    /\ m.cursor \in DOMAIN m.items
    /\ ~m.err => m.items \in ItemsOf(m.node)

Change == [what : {"enter", "switch"}, node : Nodes, from : Model, step : {"started", "done"}]

IsChange(c) ==
    /\ c \in Change /\ IsScreen(c.from)
    /\ c.what = "switch" => Accepting(c.node)

\* The screen, and each one a change under way began with, belong together.
ScreenInv ==
    /\ changing \in Seq(Change) /\ \A i \in DOMAIN changing : IsChange(changing[i])
    /\ hurried \in BOOLEAN
    /\ terminal.stage \in {"off", "running", "left", "panicked", "ended"}
    /\ terminal.stage = "running" => IsScreen(terminal) /\ terminal.said = NoNode
    /\ terminal.stage = "off" =>
          /\ terminal \in Model /\ terminal.said = NoNode
          /\ current \in Nodes /\ switched = <<>> /\ changing = <<>>

\* What a change that is under way knows of the kubeconfig: before it writes,
\* nothing was written; afterwards it says so.
ToldInv ==
    ~hurried =>
        /\ Len(changing) <= 1
        /\ terminal.stage = "running" =>
              /\ changing = <<>> => switched = <<>>
              /\ \A i \in DOMAIN changing :
                    \/ changing[i].from.said = NoNode /\ switched = <<>>
                    \/ /\ changing[i].what = "switch" /\ changing[i].step = "done"
                       /\ changing[i].from.said # NoNode
                       /\ switched = <<changing[i].from.said>> /\ current = changing[i].from.said

NavigationInv == ScreenInv /\ ToldInv /\ SwitchIsTold

(* Keys and results leave a screen that belongs together. *)
LEMMA ScreenFacts ==
    ASSUME NEW m, IsScreen(m)
    PROVE  /\ \A b \in BOOLEAN : LET n == [m EXCEPT !.disabled = b] IN IsScreen(n) /\ n.said = m.said
           /\ LET n == [m EXCEPT !.err = TRUE] IN IsScreen(n) /\ n.said = m.said
           /\ \A i \in DOMAIN m.items : LET n == [m EXCEPT !.cursor = i] IN IsScreen(n) /\ n.said = m.said
           /\ \A node \in Nodes : LET n == [m EXCEPT !.said = node] IN IsScreen(n) /\ n.said = node
           /\ \A node \in Nodes : LET n == [m EXCEPT !.said = node, !.err = TRUE] IN IsScreen(n) /\ n.said = node
<1>1. m \in Model /\ m.stage = "running" /\ m.cursor \in DOMAIN m.items
  BY DEF IsScreen
<1>2. DOMAIN m.items \subseteq Nat \ {0}
  BY <1>1 DEF Model
<1> QED
  BY <1>1, <1>2 DEF IsScreen, Model

(* A new list. *)
LEMMA NewListFacts ==
    ASSUME NEW m \in Model, NEW node \in Nodes, NEW items \in ItemsOf(node)
    PROVE  LET n == NewList([m EXCEPT !.stage = "running", !.node = node], items)
           IN  IsScreen(n) /\ n.said = m.said
<1>1. items \in Seq(Entry) /\ StartOf(items) \in DOMAIN items
  BY ItemsOfFacts, StartFacts
<1>2. DOMAIN items \subseteq Nat \ {0}
  BY <1>1
<1> DEFINE n == NewList([m EXCEPT !.stage = "running", !.node = node], items)
<1>3. n = [m EXCEPT !.stage = "running", !.node = node, !.items = items, !.cursor = StartOf(items)]
  BY DEF NewList, Model
<1>4. /\ n \in Model /\ n.stage = "running" /\ n.items = items /\ n.cursor = StartOf(items)
      /\ n.node = node /\ n.said = m.said
  <2>1. StartOf(items) \in Nat \ {0}
    BY <1>1, <1>2
  <2> HIDE DEF n
  <2>2. n \in Model
    BY <1>1, <1>3, <2>1 DEF Model
  <2>3. n.stage = "running" /\ n.items = items /\ n.cursor = StartOf(items) /\ n.node = node
    BY <1>3 DEF Model
  <2>4. n.said = m.said
    BY <1>3 DEF Model
  <2> QED
    BY <2>2, <2>3, <2>4
<1> HIDE DEF n
<1>5. IsScreen(n)
  BY <1>1, <1>4 DEF IsScreen
<1> QED
  BY <1>4, <1>5 DEF n

(* What an entered node leaves: its list, or an error below the old one. *)
LEMMA EnterFacts ==
    ASSUME NEW m, IsScreen(m), NEW node \in Nodes
    PROVE  /\ LET n == [[m EXCEPT !.node = node] EXCEPT !.err = TRUE] IN IsScreen(n) /\ n.said = m.said
           /\ \A items \in ItemsOf(node) :
                 LET n == NewList([m EXCEPT !.node = node], items) IN IsScreen(n) /\ n.said = m.said
<1>1. m \in Model /\ m.stage = "running" /\ m.cursor \in DOMAIN m.items
  BY DEF IsScreen
<1>2. [m EXCEPT !.node = node] = [m EXCEPT !.stage = "running", !.node = node]
  BY <1>1 DEF Model
<1>3. LET n == [[m EXCEPT !.node = node] EXCEPT !.err = TRUE] IN IsScreen(n) /\ n.said = m.said
  BY <1>1 DEF IsScreen, Model
<1>4. ASSUME NEW items \in ItemsOf(node)
      PROVE  LET n == NewList([m EXCEPT !.node = node], items) IN IsScreen(n) /\ n.said = m.said
  <2>1. LET n == NewList([m EXCEPT !.stage = "running", !.node = node], items) IN IsScreen(n) /\ n.said = m.said
    BY <1>1, NewListFacts
  <2> QED
    BY <1>2, <2>1, Zenon
<1> QED
  BY <1>3, <1>4

(* An entry of a list on the screen. *)
LEMMA EntryFacts ==
    ASSUME NEW m, IsScreen(m)
    PROVE  LET item == m.items[m.cursor] IN
           item.node \in Nodes /\ (item.kind = "switch" => Accepting(item.node))
<1>1. m.items \in Seq(Entry) /\ m.cursor \in DOMAIN m.items
  BY DEF IsScreen, Model
<1>2. m.items[m.cursor] \in Entry
  BY <1>1
<1> QED
  BY <1>2 DEF Entry

(* No node that can be switched to is the absent one. *)
LEMMA AcceptingIsANode == ASSUME NEW node, Accepting(node) PROVE node # NoNode
<1>1. Len(NoNode) = 1
  BY DEF NoNode
<1>2. Len(node) >= 2
  BY DEF Accepting
<1>3. ASSUME node = NoNode PROVE FALSE
  <2>1. Len(NoNode) >= 2
    BY <1>2, <1>3, Zenon
  <2> QED
    BY <1>1, <2>1
<1> QED
  BY <1>3

(* A command that cannot start. *)
LEMMA RunSteps ==
    ASSUME NavigationInv, RunInteractive \/ RunNonInteractive
    PROVE  NavigationInv'
<1>1. /\ terminal.stage = "off" /\ terminal \in Model /\ terminal.said = NoNode
      /\ current \in Nodes /\ switched = <<>> /\ changing = <<>> /\ hurried \in BOOLEAN
      /\ changing' = changing /\ hurried' = hurried
  BY DEF NavigationInv, ScreenInv, RunInteractive, RunNonInteractive
<1>2. changing \in Seq(Change) /\ Len(changing) = 0 /\ DOMAIN changing = {}
  BY <1>1
<1>3. CASE FailedCommand
  <2>1. terminal'.stage = "left" /\ switched' = <<>>
    BY <1>1, <1>3 DEF FailedCommand, Model
  <2> QED
    BY <1>1, <1>2, <2>1 DEF NavigationInv, ScreenInv, ToldInv, SwitchIsTold
<1>4. CASE RunInteractive /\ ~FailedCommand
  <2>1. PICK node \in DeriveState : \E items \in ItemsOf(node) :
            /\ terminal' = NewList([terminal EXCEPT !.stage = "running", !.node = node], items)
            /\ UNCHANGED <<current, switched>>
    BY <1>4 DEF RunInteractive
  <2>2. node \in Nodes
    BY <1>1, NavigationAssumption DEF DeriveState
  <2>3. IsScreen(terminal') /\ terminal'.said = NoNode
    <3>1. PICK items \in ItemsOf(node) :
              terminal' = NewList([terminal EXCEPT !.stage = "running", !.node = node], items)
      BY <2>1
    <3>2. terminal \in Model /\ terminal.said = NoNode
      BY <1>1
    <3> QED
      BY <2>2, <3>1, <3>2, NewListFacts, Zenon
  <2>4. terminal'.stage = "running" /\ switched' = <<>>
    BY <1>1, <2>1, <2>3 DEF IsScreen
  <2> QED
    BY <1>1, <1>2, <2>3, <2>4 DEF NavigationInv, ScreenInv, ToldInv, SwitchIsTold
<1>5. CASE RunNonInteractive /\ ~FailedCommand
  <2>1. PICK start \in DeriveState : \E node :
          \/ /\ Accept(node) /\ Accepting(node)
             /\ terminal' = [terminal EXCEPT !.stage = "ended", !.node = start, !.said = node]
          \/ /\ terminal' = [terminal EXCEPT !.stage = "ended", !.node = start]
             /\ UNCHANGED <<current, switched>>
    BY <1>5 DEF RunNonInteractive
  <2>3. PICK node :
          \/ /\ Accept(node) /\ Accepting(node)
             /\ terminal' = [terminal EXCEPT !.stage = "ended", !.node = start, !.said = node]
          \/ /\ terminal' = [terminal EXCEPT !.stage = "ended", !.node = start]
             /\ UNCHANGED <<current, switched>>
    BY <2>1
  <2>2. /\ terminal'.stage = "ended"
        /\ IF terminal'.said = NoNode THEN switched' = <<>>
           ELSE switched' = <<terminal'.said>> /\ current' = terminal'.said
    <3>1. CASE /\ Accept(node) /\ Accepting(node)
               /\ terminal' = [terminal EXCEPT !.stage = "ended", !.node = start, !.said = node]
      <4>1. switched' = <<node>> /\ current' = node /\ node # NoNode
        BY <1>1, <3>1, AcceptingIsANode DEF Accept
      <4>2. terminal'.stage = "ended" /\ terminal'.said = node
        BY <1>1, <3>1 DEF Model
      <4> QED
        BY <4>1, <4>2
    <3>2. CASE /\ terminal' = [terminal EXCEPT !.stage = "ended", !.node = start]
               /\ UNCHANGED <<current, switched>>
      BY <1>1, <3>2 DEF Model
    <3> QED
      BY <2>3, <3>1, <3>2
  <2> QED
    BY <1>1, <1>2, <2>2 DEF NavigationInv, ScreenInv, ToldInv, SwitchIsTold
<1> QED
  BY <1>3, <1>4, <1>5

(* A user who waited and leaves: nothing was written unless a switch is on *)
(* its way.                                                                *)
LEMMA LeavingFacts ==
    ASSUME NavigationInv, terminal.stage = "running", ~hurried,
           \A i \in DOMAIN changing : changing[i].what # "switch"
    PROVE  switched = <<>>
<1>1. changing \in Seq(Change)
  BY DEF NavigationInv, ScreenInv
<1>2. CASE changing = <<>>
  BY <1>2 DEF NavigationInv, ToldInv
<1>3. CASE changing # <<>>
  <2>1. 1 \in DOMAIN changing
    BY <1>1, <1>3
  <2> QED
    BY <2>1 DEF NavigationInv, ToldInv
<1> QED
  BY <1>2, <1>3

(* The keys that only move the cursor or leave. *)
LEMMA QuietKeys ==
    ASSUME NavigationInv, MoveCursor \/ ExitKey
    PROVE  NavigationInv'
<1>1. /\ terminal.stage = "running" /\ IsScreen(terminal) /\ terminal.said = NoNode
      /\ UNCHANGED <<changing, current, switched, hurried>>
      /\ terminal \in Model
  BY DEF NavigationInv, ScreenInv, MoveCursor, ExitKey, IsScreen
<1>2. CASE MoveCursor
  <2>1. IsScreen(terminal') /\ terminal'.said = NoNode
    <3>1. PICK i \in DOMAIN terminal.items : terminal' = [terminal EXCEPT !.cursor = i]
      BY <1>2 DEF MoveCursor
    <3> QED
      BY <1>1, <3>1, ScreenFacts
  <2>2. terminal'.stage = "running"
    BY <2>1 DEF IsScreen
  <2> QED
    BY <1>1, <2>1, <2>2 DEF NavigationInv, ScreenInv, ToldInv, SwitchIsTold
<1>3. CASE ExitKey
  <2>1. terminal'.stage = "left"
    BY <1>1, <1>3 DEF ExitKey, Model
  <2> QED
    BY <1>1, <2>1, LeavingFacts DEF NavigationInv, ScreenInv, ToldInv, SwitchIsTold
<1> QED
  BY <1>2, <1>3

(* A key that starts a change: the program goes on, and the change knows   *)
(* what the program knows.                                                 *)
LEMMA StartStep ==
    ASSUME NavigationInv, terminal.stage = "running", NEW what \in {"enter", "switch"}, NEW node \in Nodes,
           what = "switch" => Accepting(node), Starts(what, node)
    PROVE  NavigationInv'
<1> DEFINE c == [what |-> what, node |-> node, from |-> terminal', step |-> "started"]
<1>1. /\ IsScreen(terminal) /\ terminal.said = NoNode
      /\ changing \in Seq(Change) /\ (\A i \in DOMAIN changing : IsChange(changing[i]))
      /\ hurried \in BOOLEAN
      /\ current' = current /\ switched' = switched
  BY DEF NavigationInv, ScreenInv, Starts
<1>2. terminal' = [terminal EXCEPT !.disabled = TRUE]
  BY DEF Starts
<1>3. IsScreen(terminal') /\ terminal'.said = NoNode
  BY <1>1, <1>2, ScreenFacts
<1>4. terminal'.stage = "running" /\ terminal' \in Model
  BY <1>3 DEF IsScreen
<1>5. c \in Change /\ IsChange(c)
  BY <1>3, <1>4 DEF Change, IsChange
<1>6. changing' = Append(changing, c)
  BY DEF Starts
<1>7. c.what = what /\ c.from = terminal'
  OBVIOUS
<1>8. hurried' = (hurried \/ changing # <<>>)
  BY DEF Starts
<1> HIDE DEF c
<1>9. changing' \in Seq(Change) /\ Len(changing') = Len(changing) + 1
  BY <1>1, <1>5, <1>6
<1>10. \A i \in DOMAIN changing' : IsChange(changing'[i])
  BY <1>1, <1>5, <1>6
<1>11. ScreenInv'
  BY <1>3, <1>4, <1>8, <1>1, <1>9, <1>10 DEF ScreenInv
<1>12. ToldInv'
  <2> SUFFICES ASSUME ~hurried' PROVE ToldInv'
    BY DEF ToldInv
  <2>1. ~hurried /\ changing = <<>>
    BY <1>1, <1>8
  <2>2. switched = <<>>
    BY <2>1 DEF NavigationInv, ToldInv
  <2>3. changing' = <<c>>
    BY <1>6, <2>1
  <2>4. Len(changing') = 1 /\ DOMAIN changing' = {1} /\ changing'[1] = c
    BY <2>3
  <2> QED
    BY <1>1, <1>3, <1>7, <2>2, <2>4 DEF ToldInv
<1>13. SwitchIsTold'
  BY <1>4 DEF SwitchIsTold
<1> QED
  BY <1>11, <1>12, <1>13 DEF NavigationInv

(* The keys that start one, and q. *)
LEMMA ChangingKeys ==
    ASSUME NavigationInv, SelectKey \/ BackKey \/ QuitKey
    PROVE  NavigationInv'
<1>1. /\ terminal.stage = "running" /\ IsScreen(terminal) /\ terminal.said = NoNode /\ hurried \in BOOLEAN
      /\ terminal \in Model /\ terminal.node \in Nodes /\ changing \in Seq(Change)
  BY DEF NavigationInv, ScreenInv, SelectKey, BackKey, QuitKey, IsScreen, Model
<1>2. CASE SelectKey
  <2> DEFINE item == terminal.items[terminal.cursor]
  <2>1. item.node \in Nodes /\ (item.kind = "switch" => Accepting(item.node))
    BY <1>1, EntryFacts
  <2>2. CASE Starts(IF item.kind = "switch" THEN "switch" ELSE "enter", item.node)
    BY <1>1, <2>1, <2>2, StartStep
  <2>3. CASE /\ terminal' = [terminal EXCEPT !.stage = "panicked"]
             /\ UNCHANGED <<changing, current, switched, hurried>>
    <3>1. terminal'.stage = "panicked"
      BY <1>1, <2>3 DEF Model
    <3> QED
      BY <1>1, <2>3, <3>1, LeavingFacts DEF NavigationInv, ScreenInv, ToldInv, SwitchIsTold
  <2> QED
    BY <1>2, <2>2, <2>3 DEF SelectKey
<1>3. CASE BackKey
  <2>1. Front(terminal.node) \in Nodes
    BY <1>1, <1>3, NavigationAssumption DEF BackKey
  <2> QED
    BY <1>1, <1>3, <2>1, StartStep DEF BackKey
<1>4. CASE QuitKey
  <2>1. /\ hurried' = (hurried \/ changing # <<>>) /\ changing' = changing
        /\ \/ /\ Accept(terminal.node)
              /\ terminal' = [terminal EXCEPT !.stage = "ended", !.said = terminal.node]
           \/ /\ terminal' = [terminal EXCEPT !.err = TRUE]
              /\ UNCHANGED <<current, switched>>
    BY <1>4 DEF QuitKey
  <2>2. ~hurried' => ~hurried /\ changing = <<>>
    BY <1>1, <2>1
  <2>3. ~hurried' => switched = <<>>
    BY <1>1, <2>2 DEF NavigationInv, ToldInv
  <2>4. CASE /\ terminal' = [terminal EXCEPT !.err = TRUE]
             /\ UNCHANGED <<current, switched>>
    <3>1. IsScreen(terminal') /\ terminal'.said = NoNode
      BY <1>1, <2>4, ScreenFacts
    <3>2. terminal'.stage = "running"
      BY <3>1 DEF IsScreen
    <3> QED
      BY <1>1, <2>1, <2>2, <2>4, <3>1, <3>2 DEF NavigationInv, ScreenInv, ToldInv, SwitchIsTold
  <2>5. CASE /\ Accept(terminal.node)
             /\ terminal' = [terminal EXCEPT !.stage = "ended", !.said = terminal.node]
    <3>1. terminal'.stage = "ended" /\ terminal'.said = terminal.node /\ terminal'.said # NoNode
      <4>1. terminal.node # NoNode
        BY <1>4, AcceptingIsANode DEF QuitKey
      <4> QED
        BY <1>1, <2>5, <4>1 DEF Model
    <3>2. ~hurried' => switched' = <<terminal'.said>> /\ current' = terminal'.said
      BY <2>3, <2>5, <3>1 DEF Accept
    <3>3. ~hurried' => Len(changing') <= 1
      BY <2>1, <2>2
    <3> QED
      BY <1>1, <2>1, <3>1, <3>2, <3>3 DEF NavigationInv, ScreenInv, ToldInv, SwitchIsTold
  <2> QED
    BY <2>1, <2>4, <2>5
<1> QED
  BY <1>2, <1>3, <1>4

(* A change that is done has another model; it goes on waiting for the     *)
(* program to take it.                                                     *)
LEMMA DoneFacts ==
    ASSUME ScreenInv, NEW i \in DOMAIN changing, NEW m, IsScreen(m), Done(i, m)
    PROVE  /\ changing' \in Seq(Change) /\ \A j \in DOMAIN changing' : IsChange(changing'[j])
           /\ Len(changing') = Len(changing) /\ DOMAIN changing' = DOMAIN changing
           /\ changing'[i].from = m /\ changing'[i].step = "done" /\ changing'[i].what = changing[i].what
<1> DEFINE c == [changing[i] EXCEPT !.step = "done", !.from = m]
<1>1. changing \in Seq(Change) /\ changing[i] \in Change /\ IsChange(changing[i])
  BY DEF ScreenInv
<1>2. m \in Model
  BY DEF IsScreen
<1>3. /\ c \in Change /\ c.from = m /\ c.step = "done" /\ c.what = changing[i].what /\ c.node = changing[i].node
  BY <1>1, <1>2 DEF Change
<1>4. IsChange(c)
  BY <1>1, <1>3 DEF IsChange
<1>5. changing' = [changing EXCEPT ![i] = c]
  BY DEF Done
<1> HIDE DEF c
<1>6. /\ changing' \in Seq(Change) /\ Len(changing') = Len(changing) /\ DOMAIN changing' = DOMAIN changing
      /\ changing'[i] = c /\ \A j \in DOMAIN changing : j # i => changing'[j] = changing[j]
  BY <1>1, <1>3, <1>5
<1>7. \A j \in DOMAIN changing' : IsChange(changing'[j])
  BY <1>4, <1>6 DEF ScreenInv
<1> QED
  BY <1>3, <1>6, <1>7

(* A user who waits has one change under way. *)
LEMMA OneFacts ==
    ASSUME NavigationInv, ~hurried, NEW i \in DOMAIN changing
    PROVE  i = 1 /\ Len(changing) = 1 /\ DOMAIN changing = {1}
<1>1. changing \in Seq(Change) /\ Len(changing) <= 1
  BY DEF NavigationInv, ScreenInv, ToldInv
<1>2. DOMAIN changing = 1 .. Len(changing) /\ Len(changing) \in Nat /\ i \in DOMAIN changing
  BY <1>1
<1>3. Len(changing) = 1 /\ i = 1
  BY <1>1, <1>2
<1>4. 1 .. 1 = {1}
  OBVIOUS
<1> QED
  BY <1>2, <1>3, <1>4

(* A node is entered. *)
LEMMA EnterStep ==
    ASSUME NavigationInv, NEW i \in DOMAIN changing, EnterNode(i)
    PROVE  NavigationInv'
<1>1. /\ terminal.stage = "running" /\ changing[i].what = "enter"
      /\ UNCHANGED <<terminal, current, switched, hurried>> /\ ScreenInv
  BY DEF EnterNode, Running, NavigationInv
<1>2. IsScreen(changing[i].from) /\ changing[i].node \in Nodes
  BY DEF NavigationInv, ScreenInv, IsChange, Change
<1> DEFINE old == changing[i].from
           new == [old EXCEPT !.node = changing[i].node]
<1>3. new.node = changing[i].node
  BY <1>2 DEF IsScreen, Model
<1>4. \/ \E items \in ItemsOf(changing[i].node) : Done(i, NewList(new, items))
      \/ Done(i, [new EXCEPT !.err = TRUE])
  BY <1>3 DEF EnterNode
<1>5. \E m : IsScreen(m) /\ m.said = old.said /\ Done(i, m)
  BY <1>2, <1>4, EnterFacts
<1>6. PICK m : IsScreen(m) /\ m.said = old.said /\ Done(i, m)
  BY <1>5
<1>7. /\ changing' \in Seq(Change) /\ \A j \in DOMAIN changing' : IsChange(changing'[j])
      /\ Len(changing') = Len(changing) /\ DOMAIN changing' = DOMAIN changing
      /\ changing'[i].from = m /\ changing'[i].what = "enter"
  BY <1>1, <1>6, DoneFacts
<1>8. ScreenInv'
  BY <1>1, <1>7 DEF ScreenInv
<1>9. ToldInv'
  <2> SUFFICES ASSUME ~hurried PROVE ToldInv'
    BY <1>1 DEF ToldInv
  <2>1. i = 1 /\ Len(changing) = 1 /\ DOMAIN changing = {1}
    BY OneFacts
  <2>2. changing' # <<>>
    <3>1. Len(changing') = 1
      BY <1>7, <2>1, Zenon
    <3>2. Len(<<>>) = 0
      OBVIOUS
    <3> QED
      BY <3>1, <3>2
  <2>3. old.said = NoNode /\ switched = <<>>
    BY <1>1 DEF NavigationInv, ToldInv
  <2>4. changing'[1].from.said = NoNode
    BY <1>6, <1>7, <2>1, <2>3
  <2> QED
    BY <1>1, <1>7, <2>1, <2>2, <2>3, <2>4 DEF ToldInv
<1>10. SwitchIsTold'
  BY <1>1 DEF SwitchIsTold
<1> QED
  BY <1>8, <1>9, <1>10 DEF NavigationInv

(* A node is switched to: the kubeconfig and the model of the change say   *)
(* so together, whether or not the listing after it fails.                 *)
LEMMA SwitchStep ==
    ASSUME NavigationInv, NEW i \in DOMAIN changing, SwitchNode(i)
    PROVE  NavigationInv'
<1>1. /\ terminal.stage = "running" /\ changing[i].what = "switch" /\ changing[i].step = "started"
      /\ UNCHANGED <<terminal, hurried>> /\ ScreenInv
  BY DEF SwitchNode, Running, NavigationInv
<1>2. IsScreen(changing[i].from) /\ changing[i].node \in Nodes /\ Accepting(changing[i].node)
  BY <1>1 DEF NavigationInv, ScreenInv, IsChange, Change
<1> DEFINE old == changing[i].from
           node == changing[i].node
<1>3. node # NoNode
  BY <1>2, AcceptingIsANode
<1>4. \/ /\ Accept(node)
         /\ Done(i, [old EXCEPT !.said = node]) \/ Done(i, [old EXCEPT !.said = node, !.err = TRUE])
      \/ Done(i, [old EXCEPT !.err = TRUE]) /\ UNCHANGED <<current, switched>>
  BY DEF SwitchNode
<1> HIDE DEF old, node
<1>5. PICK m : /\ IsScreen(m) /\ Done(i, m)
               /\ \/ m.said = node /\ Accept(node)
                  \/ m.said = old.said /\ UNCHANGED <<current, switched>>
  <2>1. IsScreen(old) /\ node \in Nodes
    BY <1>2 DEF old, node
  <2>2. ASSUME NEW m, m = [old EXCEPT !.said = node] \/ m = [old EXCEPT !.said = node, !.err = TRUE]
        PROVE  IsScreen(m) /\ m.said = node
    <3>1. CASE m = [old EXCEPT !.said = node]
      BY <2>1, <3>1, ScreenFacts
    <3>2. CASE m = [old EXCEPT !.said = node, !.err = TRUE]
      BY <2>1, <3>2, ScreenFacts
    <3> QED
      BY <2>2, <3>1, <3>2
  <2>3. ASSUME NEW m, m = [old EXCEPT !.err = TRUE]
        PROVE  IsScreen(m) /\ m.said = old.said
    BY <2>1, <2>3, ScreenFacts
  <2> QED
    BY <1>4, <2>2, <2>3
<1>6. /\ changing' \in Seq(Change) /\ \A j \in DOMAIN changing' : IsChange(changing'[j])
      /\ Len(changing') = Len(changing) /\ DOMAIN changing' = DOMAIN changing
      /\ changing'[i].from = m /\ changing'[i].what = "switch" /\ changing'[i].step = "done"
  <2>1. changing[i].what = "switch" /\ ScreenInv /\ IsScreen(m) /\ Done(i, m)
    BY <1>1, <1>5
  <2> QED
    BY <2>1, DoneFacts
<1>7. ScreenInv'
  BY <1>1, <1>6 DEF ScreenInv
<1>8. ToldInv'
  <2> SUFFICES ASSUME ~hurried PROVE ToldInv'
    BY <1>1 DEF ToldInv
  <2>1. i = 1 /\ Len(changing) = 1 /\ DOMAIN changing = {1}
    BY OneFacts
  <2>2. changing' # <<>>
    <3>1. Len(changing') = 1
      BY <1>6, <2>1, Zenon
    <3>2. Len(<<>>) = 0
      OBVIOUS
    <3> QED
      BY <3>1, <3>2
  <2>3. old.said = NoNode /\ switched = <<>>
    BY <1>1 DEF NavigationInv, ToldInv, old
  <2>4. \/ changing'[1].from.said = NoNode /\ switched' = <<>>
        \/ /\ changing'[1].what = "switch" /\ changing'[1].step = "done"
           /\ changing'[1].from.said # NoNode
           /\ switched' = <<changing'[1].from.said>> /\ current' = changing'[1].from.said
    <3>1. CASE m.said = node /\ Accept(node)
      <4>1. switched' = <<node>> /\ current' = node
        BY <2>3, <3>1 DEF Accept
      <4> QED
        BY <1>3, <1>6, <2>1, <3>1, <4>1
    <3>2. CASE m.said = old.said /\ UNCHANGED <<current, switched>>
      BY <1>6, <2>1, <2>3, <3>2
    <3> QED
      BY <1>5, <3>1, <3>2
  <2> QED
    BY <1>1, <1>6, <2>1, <2>2, <2>4 DEF ToldInv
<1>9. SwitchIsTold'
  BY <1>1 DEF SwitchIsTold
<1> QED
  BY <1>7, <1>8, <1>9 DEF NavigationInv

(* The others stay under way. *)
LEMMA RemoveFacts ==
    ASSUME NEW s \in Seq(Change), NEW i \in DOMAIN s
    PROVE  /\ RemoveAt(s, i) \in Seq(Change) /\ Len(RemoveAt(s, i)) = Len(s) - 1
           /\ \A j \in DOMAIN RemoveAt(s, i) : \E k \in DOMAIN s : RemoveAt(s, i)[j] = s[k]
<1>1. i \in 1 .. Len(s) /\ Len(s) \in Nat
  OBVIOUS
<1>0. \A j \in 1 .. Len(s) : s[j] \in Change
  OBVIOUS
<1> DEFINE a == SubSeq(s, 1, i - 1)
           b == SubSeq(s, i + 1, Len(s))
<1>2. /\ a \in Seq(Change) /\ Len(a) = i - 1 /\ \A j \in 1 .. i - 1 : a[j] = s[j]
  BY <1>1
<1>3. /\ b \in Seq(Change) /\ Len(b) = Len(s) - i /\ \A j \in 1 .. Len(s) - i : b[j] = s[i + j]
  BY <1>1
<1>4. RemoveAt(s, i) = a \o b
  BY DEF RemoveAt
<1> HIDE DEF a, b
<1>5. a \o b \in Seq(Change) /\ Len(a \o b) = Len(s) - 1
  BY <1>1, <1>2, <1>3
<1>8. \A j \in 1 .. Len(a) + Len(b) : (a \o b)[j] = IF j <= Len(a) THEN a[j] ELSE b[j - Len(a)]
  BY <1>2, <1>3, ConcatProperties
<1>6. ASSUME NEW j \in 1 .. Len(s) - 1 PROVE \E k \in DOMAIN s : (a \o b)[j] = s[k]
  <2>1. CASE j <= i - 1
    <3>1. j \in 1 .. Len(a) + Len(b) /\ j <= Len(a) /\ j \in 1 .. i - 1 /\ j \in 1 .. Len(s)
      BY <1>1, <1>2, <1>3, <2>1
    <3>2. (a \o b)[j] = a[j] /\ a[j] = s[j]
      BY <1>2, <1>8, <3>1
    <3> QED
      BY <3>1, <3>2
  <2>2. CASE j > i - 1
    <3>1. /\ j \in 1 .. Len(a) + Len(b) /\ ~(j <= Len(a)) /\ j - Len(a) \in 1 .. Len(s) - i
          /\ i + (j - Len(a)) \in 1 .. Len(s)
      BY <1>1, <1>2, <1>3, <2>2, SMTT(30)
    <3>2. (a \o b)[j] = b[j - Len(a)] /\ b[j - Len(a)] = s[i + (j - Len(a))]
      BY <1>3, <1>8, <3>1
    <3>3. i + (j - Len(a)) \in DOMAIN s
      BY <3>1
    <3> QED
      BY <3>2, <3>3, Zenon
  <2>3. j <= i - 1 \/ j > i - 1
    BY <1>1
  <2> QED
    BY <2>1, <2>2, <2>3, Zenon
<1>7. DOMAIN (a \o b) = 1 .. Len(s) - 1
  BY <1>5
<1> QED
  BY <1>4, <1>5, <1>6, <1>7

(* The program takes the model of a change as its own. *)
LEMMA TakeStep ==
    ASSUME NavigationInv, NEW i \in DOMAIN changing, TakeModel(i)
    PROVE  NavigationInv'
<1> DEFINE m == changing[i].from
<1>1. /\ terminal.stage = "running" /\ changing \in Seq(Change) /\ changing' = RemoveAt(changing, i)
      /\ UNCHANGED <<current, switched, hurried>> /\ hurried \in BOOLEAN
      /\ IsScreen(m) /\ m \in Model /\ m.stage = "running"
  BY DEF NavigationInv, ScreenInv, TakeModel, Running, IsChange, IsScreen
<1>2. terminal' = [m EXCEPT !.disabled = FALSE, !.stage = IF m.said = NoNode THEN "running" ELSE "ended"]
  BY DEF TakeModel
<1>3. /\ changing' \in Seq(Change) /\ Len(changing') = Len(changing) - 1
      /\ \A j \in DOMAIN changing' : \E k \in DOMAIN changing : changing'[j] = changing[k]
  BY <1>1, RemoveFacts
<1>4. \A j \in DOMAIN changing' : IsChange(changing'[j])
  BY <1>3 DEF NavigationInv, ScreenInv
<1>5. CASE m.said = NoNode
  <2>1. terminal' = [m EXCEPT !.disabled = FALSE]
    BY <1>1, <1>2, <1>5 DEF Model
  <2>2. IsScreen(terminal') /\ terminal'.said = NoNode
    BY <1>1, <1>5, <2>1, ScreenFacts
  <2>3. terminal'.stage = "running"
    BY <2>2 DEF IsScreen
  <2>4. ScreenInv'
    BY <1>1, <1>3, <1>4, <2>2, <2>3 DEF ScreenInv
  <2>5. ToldInv'
    <3> SUFFICES ASSUME ~hurried PROVE ToldInv'
      BY <1>1 DEF ToldInv
    <3>1. Len(changing) = 1
      BY OneFacts
    <3>2. changing' = <<>> /\ Len(changing') = 0 /\ DOMAIN changing' = {}
      BY <1>3, <3>1
    <3>3. switched = <<>>
      BY <1>1, <1>5 DEF NavigationInv, ToldInv
    <3> QED
      BY <1>1, <3>2, <3>3 DEF ToldInv
  <2>6. SwitchIsTold'
    BY <2>3 DEF SwitchIsTold
  <2> QED
    BY <2>4, <2>5, <2>6 DEF NavigationInv
<1>6. CASE m.said # NoNode
  <2>1. terminal'.stage = "ended" /\ terminal'.said = m.said
    BY <1>1, <1>2, <1>6 DEF Model
  <2>2. ScreenInv'
    BY <1>1, <1>3, <1>4, <2>1 DEF ScreenInv
  <2>3. ~hurried => Len(changing') <= 1
    BY <1>3, OneFacts
  <2>4. ~hurried => switched = <<m.said>> /\ current = m.said
    BY <1>1, <1>6 DEF NavigationInv, ToldInv
  <2>5. ToldInv'
    BY <1>1, <2>1, <2>3 DEF ToldInv
  <2>6. SwitchIsTold'
    <3>1. terminal'.said # NoNode /\ terminal'.stage = "ended"
      BY <1>6, <2>1
    <3>2. ~hurried => switched' = <<terminal'.said>> /\ current' = terminal'.said
      BY <1>1, <2>1, <2>4
    <3> QED
      BY <1>1, <3>1, <3>2 DEF SwitchIsTold
  <2> QED
    BY <2>2, <2>5, <2>6 DEF NavigationInv
<1> QED
  BY <1>5, <1>6

(* A terminal that was not opened. *)
LEMMA NavigationBegins == NavigationInit => NavigationInv
<1> SUFFICES ASSUME NavigationInit PROVE NavigationInv
  OBVIOUS
<1>1. <<>> \in Nodes /\ <<>> \in Seq(Entry) /\ changing \in Seq(Change) /\ Len(changing) = 0
  BY NavigationAssumption DEF NavigationInit
<1>2. terminal \in Model /\ terminal.stage = "off" /\ terminal.said = NoNode
  BY <1>1 DEF NavigationInit, Model
<1>3. current \in Nodes /\ switched = <<>> /\ changing = <<>> /\ hurried = FALSE
  BY DEF NavigationInit
<1> QED
  <2>1. \A i \in DOMAIN changing : IsChange(changing[i])
    BY <1>3
  <2>2. ScreenInv
    BY <1>1, <1>2, <1>3, <2>1 DEF ScreenInv
  <2>3. ToldInv
    BY <1>1, <1>2, <1>3 DEF ToldInv
  <2> QED
    BY <1>2, <2>2, <2>3 DEF NavigationInv, SwitchIsTold

(* Every step keeps the invariant.                                         *)
LEMMA NavigationStep == NavigationInv /\ [NavigationNext]_navigationVars => NavigationInv'
<1>1. NavigationInv /\ NavigationNext => NavigationInv'
  BY RunSteps, QuietKeys, ChangingKeys, EnterStep, SwitchStep, TakeStep DEF NavigationNext
<1>2. NavigationInv /\ UNCHANGED navigationVars => NavigationInv'
  BY DEF navigationVars, NavigationInv, ScreenInv, ToldInv, SwitchIsTold
<1> QED
  BY <1>1, <1>2

(* What is on the screen belongs together however the results of state     *)
(* changes come back: the list below a title is a list of the node in the  *)
(* title, unless the error of a listing stands below it (list.go), for any *)
(* nodes and number of changes under way.                                  *)
THEOREM ScreensBelongTogether == NavigationSpec => []ListIsOfTheNode
<1>1. NavigationInv => ListIsOfTheNode
  BY DEF NavigationInv, ScreenInv, IsScreen, ListIsOfTheNode
<1> QED
  BY <1>1, NavigationBegins, NavigationStep, PTL DEF NavigationSpec

(* A user who waits for the list after each key is told of the switch that *)
(* was made, and of no other (list.go and cmd.go), for any nodes and       *)
(* bounds.                                                                 *)
THEOREM SwitchesAreTold == NavigationSpec => []SwitchIsTold
<1>1. NavigationInv => SwitchIsTold
  BY DEF NavigationInv
<1> QED
  BY <1>1, NavigationBegins, NavigationStep, PTL DEF NavigationSpec
-----------------------------------------------------------------------------
(***************************************************************************)
(* What the tree of up alpha trace shows, for any objects and questions.   *)
(* An answer is merged into the tree of the one before, object by object;  *)
(* the merge is right because no id is in the tree twice, which is what    *)
(* the invariant adds, with what a poll under way asks for.                *)
(***************************************************************************)
TraceAsk == [kinds : SUBSET TraceKinds, categories : SUBSET {"managed"}]
SpaceStates == {"absent", "ready", "unready", "unknown"}
TraceObject == [id : Nat, ready : SpaceStates \ {"absent"}]
TraceNode == [id : Nat, ready : Seq({"open", "closed"})]

\* No id is there a second time.
Single(s) == \A i, j \in DOMAIN s : s[i].id = s[j].id => i = j

IdsOf(s) == {s[i].id : i \in DOMAIN s}

\* Intervals that agree with a condition: one that is missing says nothing.
Agrees(is, ready) == is # "unknown" => (is = "ready" <=> Open(ready))

\* The first n objects have their node, ready as they are.
Shown(nodes, objects, n) ==
    \A j \in 1 .. n : \E i \in DOMAIN nodes :
        nodes[i].id = objects[j].id /\ Agrees(objects[j].ready, nodes[i].ready)

TraceTypes ==
    /\ space \in [Traced -> SpaceStates]
    /\ asked \in TraceAsk /\ dialog \in TraceAsk /\ twice \in BOOLEAN
    /\ query \in [step : {"sleep", "load", "query"}, ask : TraceAsk,
                  specs : SUBSET (TraceKinds \cup {"managed"}),
                  spec : TraceKinds \cup {"managed", "none"}, cursor : Nat,
                  objects : Seq(TraceObject), fresh : BOOLEAN]
    /\ answer \in [ask : TraceAsk, objects : Seq(TraceObject), fresh : BOOLEAN]

\* What a poll that no change has met asks for is what is asked for.
AskInv ==
    /\ query.fresh /\ query.step # "sleep" =>
          /\ dialog = NoAsk /\ query.ask.kinds = asked.kinds
          /\ query.step = "query" => query.ask = asked
    /\ answer.fresh => dialog = NoAsk /\ answer.ask = asked

\* No two nodes have one id, so that the next answer finds the one it means.
TreeInv == ~twice => tree \in Seq(TraceNode) /\ Single(tree)

TraceInv == TraceTypes /\ AskInv /\ TreeInv /\ TreeIsTheAnswer
-----------------------------------------------------------------------------
(* A set of numbers has one that is zero or follows no other: induction.   *)
LEMMA LeastNumber ==
    ASSUME NEW T \in SUBSET Nat, T # {}
    PROVE  \E n \in T : n = 0 \/ (n - 1 \in Nat /\ n - 1 \notin T)
<1>1. IsWellFoundedOn(OpToRel(<, Nat), Nat)
  BY NatLessThanWellFounded
<1>2. PICK n \in T : \A m \in T : ~ (<<m, n>> \in OpToRel(<, Nat))
  BY <1>1, WFMin
<1>3. \A m \in T : ~ (m < n)
  BY <1>2 DEF OpToRel
<1>4. n = 0 \/ (n - 1 \in Nat /\ n - 1 \notin T)
  BY <1>3
<1> QED
  BY <1>4

(* An interval is open afterwards just if the object is ready now, where   *)
(* its condition says so.                                                  *)
LEMMA IntervalFacts ==
    ASSUME NEW ready \in Seq({"open", "closed"}), NEW is \in SpaceStates \ {"absent"}
    PROVE  /\ Interval(ready, is) \in Seq({"open", "closed"})
           /\ Agrees(is, Interval(ready, is))
<1>0. /\ Len(ready) \in Nat /\ (ready # <<>> => Len(ready) \in 1 .. Len(ready))
      /\ \A k \in 1 .. Len(ready) : ready[k] \in {"open", "closed"}
  BY EmptySeq
<1>1. CASE is = "ready" /\ ~Open(ready)
  <2>1. Interval(ready, is) = Append(ready, "open")
    BY <1>1 DEF Interval
  <2>2. /\ Append(ready, "open") \in Seq({"open", "closed"})
        /\ Len(Append(ready, "open")) = Len(ready) + 1
        /\ Append(ready, "open")[Len(ready) + 1] = "open"
    OBVIOUS
  <2>3. Append(ready, "open") # <<>>
    BY <1>0, <2>2, EmptySeq
  <2>4. Open(Append(ready, "open"))
    BY <2>2, <2>3 DEF Open, Last
  <2> QED
    BY <1>1, <2>1, <2>2, <2>4 DEF Agrees
<1>2. CASE is = "unready" /\ Open(ready)
  <2>1. Interval(ready, is) = [ready EXCEPT ![Len(ready)] = "closed"]
    BY <1>2 DEF Interval
  <2> DEFINE new == [ready EXCEPT ![Len(ready)] = "closed"]
  <2>2. Len(ready) \in 1 .. Len(ready)
    BY <1>0, <1>2 DEF Open
  <2>3. new \in Seq({"open", "closed"}) /\ Len(new) = Len(ready) /\ new[Len(ready)] = "closed"
    BY <2>2
  <2> HIDE DEF new
  <2>4. ~Open(new)
    BY <2>3 DEF Open, Last
  <2> QED
    BY <1>2, <2>1, <2>3, <2>4 DEF Agrees, new
<1>3. CASE ~(is = "ready" /\ ~Open(ready)) /\ ~(is = "unready" /\ Open(ready))
  <2>1. Interval(ready, is) = ready
    BY <1>3 DEF Interval
  <2> QED
    BY <1>3, <2>1 DEF Agrees, SpaceStates
<1> QED
  BY <1>1, <1>2, <1>3
\* What MergeObjects makes of the first n objects, from what it made of one less.
MergeStep(n, before, nodes, objects) ==
    IF n = 0 THEN [nodes |-> nodes, existing |-> Existing(nodes)] ELSE MergeObject(before, objects[n])

Merges(f, n, nodes, objects) == f = [i \in 0 .. n |-> MergeStep(i, f[i - 1], nodes, objects)]

(* The function that MergeObjects reads is there, for each number.         *)
LEMMA MergesExist ==
    ASSUME NEW nodes, NEW objects
    PROVE  \A n \in Nat : \E f : Merges(f, n, nodes, objects)
<1> DEFINE S(i, before) == MergeStep(i, before, nodes, objects)
           M(f, n) == Merges(f, n, nodes, objects)
           T == {n \in Nat : ~ \E f : M(f, n)}
<1>0. \A f, n : M(f, n) <=> f = [i \in 0 .. n |-> S(i, f[i - 1])]
  BY DEF Merges
<1>9. \A before : S(0, before) = S(0, 0)
  BY DEF MergeStep
<1> HIDE DEF M, S
<1>1. T = {}
  <2> SUFFICES ASSUME T # {} PROVE FALSE
    OBVIOUS
  <2>1. PICK n \in T : n = 0 \/ (n - 1 \in Nat /\ n - 1 \notin T)
    <3>1. T \in SUBSET Nat
      OBVIOUS
    <3> HIDE DEF T
    <3> QED
      BY <3>1, LeastNumber
  <2>2. n \in Nat /\ ~ \E f : M(f, n)
    OBVIOUS
  <2>3. CASE n = 0
    <3> DEFINE f == [i \in 0 .. 0 |-> S(0, 0)]
    <3>1. \A i \in 0 .. 0 : S(i, f[i - 1]) = S(0, 0)
      BY <1>9
    <3>2. f = [i \in 0 .. 0 |-> S(i, f[i - 1])]
      BY <3>1
    <3> QED
      BY <1>0, <2>2, <2>3, <3>2
  <2>4. CASE n - 1 \in Nat /\ n - 1 \notin T
    <3>1. PICK g : M(g, n - 1)
      BY <2>4
    <3>2. g = [i \in 0 .. n - 1 |-> S(i, g[i - 1])]
      BY <1>0, <3>1
    <3> DEFINE f == [i \in 0 .. n |-> IF i = n THEN S(n, g[n - 1]) ELSE g[i]]
    <3>3. \A i \in 0 .. n : f[i] = S(i, f[i - 1])
      <4> SUFFICES ASSUME NEW i \in 0 .. n PROVE f[i] = S(i, f[i - 1])
        OBVIOUS
      <4>1. CASE i = 0
        <5>1. 0 \in 0 .. n - 1 /\ 0 \in 0 .. n /\ 0 # n
          BY <2>4
        <5>2. f[0] = g[0] /\ g[0] = S(0, g[0 - 1])
          BY <3>2, <5>1
        <5> QED
          BY <1>9, <4>1, <5>2
      <4>2. CASE i # 0 /\ i # n
        <5>1. i \in 0 .. n - 1 /\ i - 1 \in 0 .. n /\ i - 1 # n
          BY <2>2, <4>2
        <5>2. f[i] = g[i] /\ f[i - 1] = g[i - 1]
          BY <4>2, <5>1
        <5>3. g[i] = S(i, g[i - 1])
          BY <3>2, <5>1
        <5> QED
          BY <5>2, <5>3
      <4>3. CASE i = n /\ i # 0
        <5>1. f[i] = S(n, g[n - 1])
          BY <4>3
        <5>2. n - 1 \in 0 .. n /\ n - 1 # n
          BY <2>4
        <5>3. f[n - 1] = g[n - 1]
          BY <5>2
        <5> QED
          BY <4>3, <5>1, <5>3
      <4> QED
        BY <4>1, <4>2, <4>3
    <3>4. f = [i \in 0 .. n |-> S(i, f[i - 1])]
      <4>1. f = [i \in 0 .. n |-> f[i]]
        OBVIOUS
      <4> HIDE DEF f
      <4> QED
        BY <3>3, <4>1
    <3> HIDE DEF f
    <3> QED
      BY <1>0, <2>2, <3>4
  <2> QED
    BY <2>1, <2>3, <2>4
<1> QED
  BY <1>1 DEF M

\* What the first n objects made, for each n.
MergedBy(f, nodes, objects) ==
    /\ MergeObjects(nodes, objects) = f[Len(objects)]
    /\ f[0] = [nodes |-> nodes, existing |-> Existing(nodes)]
    /\ \A n \in 1 .. Len(objects) : f[n] = MergeObject(f[n - 1], objects[n])

(* What MergeObjects gives is what its last step gives, and each step what *)
(* MergeObject makes of the one before.                                    *)
LEMMA MergesFacts ==
    ASSUME NEW nodes, NEW objects, Len(objects) \in Nat
    PROVE  \E f : MergedBy(f, nodes, objects)
<1> DEFINE len == Len(objects)
           f == CHOOSE g : Merges(g, len, nodes, objects)
<1>1. Merges(f, len, nodes, objects)
  BY MergesExist
<1>2. MergeObjects(nodes, objects) = f[len]
  BY DEF MergeObjects, Merges, MergeStep
<1> HIDE DEF f
<1>3. \A n \in 0 .. len : f[n] = MergeStep(n, f[n - 1], nodes, objects)
  BY <1>1 DEF Merges
<1>4. f[0] = [nodes |-> nodes, existing |-> Existing(nodes)]
  BY <1>3 DEF MergeStep
<1>5. \A n \in 1 .. len : f[n] = MergeObject(f[n - 1], objects[n])
  BY <1>3 DEF MergeStep
<1> QED
  BY <1>2, <1>4, <1>5 DEF MergedBy
\* The ids of the first n objects.
FirstIds(objects, n) == {objects[j].id : j \in 1 .. n}

\* What holds once n objects are merged: a node for each of them, none a
\* second time, and those of the others still to be found.
Merging(state, nodes, objects, n) ==
    /\ state = [nodes |-> state.nodes, existing |-> state.existing]
    /\ state.nodes \in Seq(TraceNode) /\ Single(state.nodes)
    /\ IdsOf(state.nodes) = IdsOf(nodes) \cup FirstIds(objects, n)
    /\ DOMAIN state.existing = IdsOf(nodes) \ FirstIds(objects, n)
    /\ \A id \in DOMAIN state.existing :
          state.existing[id] \in DOMAIN state.nodes /\ state.nodes[state.existing[id]].id = id
    /\ Shown(state.nodes, objects, n)

(* It holds at the start.                                                  *)
LEMMA MergingBegins ==
    ASSUME NEW nodes \in Seq(TraceNode), Single(nodes), NEW objects
    PROVE  Merging([nodes |-> nodes, existing |-> Existing(nodes)], nodes, objects, 0)
<1>1. FirstIds(objects, 0) = {}
  BY DEF FirstIds
<1>2. \A id \in IdsOf(nodes) : \E i \in DOMAIN nodes : nodes[i].id = id
                                   /\ \A j \in DOMAIN nodes : nodes[j].id = id => j <= i
  <2>1. \A i \in DOMAIN nodes : i \in Nat /\ i <= i
    OBVIOUS
  <2> QED
    BY <2>1 DEF IdsOf, Single
<1>3. DOMAIN Existing(nodes) = IdsOf(nodes)
  BY DEF Existing, IdsOf
<1>4. \A id \in IdsOf(nodes) : Existing(nodes)[id] =
          CHOOSE i \in DOMAIN nodes : nodes[i].id = id /\ \A j \in DOMAIN nodes : nodes[j].id = id => j <= i
  BY DEF Existing, IdsOf
<1>5. \A id \in IdsOf(nodes) : Existing(nodes)[id] \in DOMAIN nodes /\ nodes[Existing(nodes)[id]].id = id
  BY <1>2, <1>4
<1>6. Shown(nodes, objects, 0)
  BY DEF Shown
<1> QED
  BY <1>1, <1>3, <1>5, <1>6 DEF Merging

(* An object that has its node: that node is brought up to date.           *)
LEMMA MergingFound ==
    ASSUME NEW objects \in Seq(TraceObject), Single(objects), NEW nodes, NEW state,
           NEW n \in 1 .. Len(objects), Merging(state, nodes, objects, n - 1),
           objects[n].id \in DOMAIN state.existing
    PROVE  Merging(MergeObject(state, objects[n]), nodes, objects, n)
<1> DEFINE o == objects[n]
           p == state.existing[o.id]
           new == [state.nodes EXCEPT ![p].ready = Interval(@, o.ready)]
           left == [id \in DOMAIN state.existing \ {o.id} |-> state.existing[id]]
<1>1. MergeObject(state, o) = [nodes |-> new, existing |-> left]
  BY DEF MergeObject
<1>2. /\ o \in TraceObject /\ o.ready \in SpaceStates \ {"absent"} /\ n - 1 \in Nat
      /\ \A j \in 1 .. n - 1 : j \in DOMAIN objects /\ j # n
      /\ n \in DOMAIN objects
  <2>1. Len(objects) \in Nat /\ DOMAIN objects = 1 .. Len(objects) /\ o \in TraceObject
    OBVIOUS
  <2> HIDE DEF o
  <2> QED
    BY <2>1 DEF TraceObject
<1>3. FirstIds(objects, n) = FirstIds(objects, n - 1) \cup {o.id}
  BY DEF FirstIds
<1>4. p \in DOMAIN state.nodes /\ state.nodes[p].id = o.id /\ state.nodes[p] \in TraceNode
  BY DEF Merging
<1>5. /\ new \in Seq(TraceNode) /\ DOMAIN new = DOMAIN state.nodes
      /\ new[p].ready = Interval(state.nodes[p].ready, o.ready)
      /\ \A i \in DOMAIN new : new[i].id = state.nodes[i].id
      /\ \A i \in DOMAIN new : i # p => new[i] = state.nodes[i]
  <2>1. state.nodes \in Seq(TraceNode)
    BY DEF Merging
  <2>2. PICK ready : ready = Interval(state.nodes[p].ready, o.ready)
    OBVIOUS
  <2>3. ready \in Seq({"open", "closed"})
    BY <1>2, <1>4, <2>2, IntervalFacts DEF TraceNode
  <2> DEFINE node == [state.nodes[p] EXCEPT !.ready = ready]
  <2>4. node \in TraceNode /\ node.id = state.nodes[p].id /\ node.ready = ready
    BY <1>4, <2>3 DEF TraceNode
  <2>5. new = [state.nodes EXCEPT ![p] = node]
    BY <2>2
  <2> HIDE DEF node, new, p
  <2> QED
    BY <1>4, <2>1, <2>2, <2>4, <2>5
<1> HIDE DEF new, left, p
<1>6. Single(new) /\ IdsOf(new) = IdsOf(state.nodes)
  <2>1. Single(state.nodes)
    BY DEF Merging
  <2>2. DOMAIN new = DOMAIN state.nodes /\ \A i \in DOMAIN new : new[i].id = state.nodes[i].id
    BY <1>5
  <2>3. Single(new)
    BY <2>1, <2>2 DEF Single
  <2>4. IdsOf(new) = IdsOf(state.nodes)
    BY <2>2 DEF IdsOf
  <2> QED
    BY <2>3, <2>4
<1>7. IdsOf(new) = IdsOf(nodes) \cup FirstIds(objects, n)
  <2>1. o.id \in IdsOf(state.nodes)
    BY <1>4 DEF IdsOf
  <2> QED
    BY <1>3, <1>6, <2>1 DEF Merging
<1>8. /\ DOMAIN left = IdsOf(nodes) \ FirstIds(objects, n)
      /\ \A id \in DOMAIN left : left[id] \in DOMAIN new /\ new[left[id]].id = id
  <2>1. DOMAIN left = DOMAIN state.existing \ {o.id} /\ \A id \in DOMAIN left : left[id] = state.existing[id]
    BY DEF left
  <2>2. \A id \in DOMAIN left : state.existing[id] \in DOMAIN state.nodes /\ state.nodes[state.existing[id]].id = id
    BY <2>1 DEF Merging
  <2>3. DOMAIN state.existing = IdsOf(nodes) \ FirstIds(objects, n - 1)
    BY DEF Merging
  <2> QED
    BY <1>3, <1>5, <2>1, <2>2, <2>3
<1>9. Shown(new, objects, n)
  <2> SUFFICES ASSUME NEW j \in 1 .. n
               PROVE  \E i \in DOMAIN new : new[i].id = objects[j].id /\ Agrees(objects[j].ready, new[i].ready)
    BY DEF Shown
  <2>1. CASE j = n
    <3>1. new[p].id = o.id /\ Agrees(o.ready, new[p].ready)
      <4>1. state.nodes[p].ready \in Seq({"open", "closed"})
        BY <1>4 DEF TraceNode
      <4> QED
        BY <1>2, <1>4, <1>5, <4>1, IntervalFacts
    <3> QED
      BY <1>4, <1>5, <2>1, <3>1
  <2>2. CASE j # n
    <3>1. j \in 1 .. n - 1
      BY <1>2, <2>2
    <3>2. PICK i \in DOMAIN state.nodes : /\ state.nodes[i].id = objects[j].id
                                          /\ Agrees(objects[j].ready, state.nodes[i].ready)
      BY <3>1 DEF Merging, Shown
    <3>3. objects[j].id # o.id
      BY <1>2, <3>1 DEF Single
    <3>4. i # p
      BY <1>4, <3>2, <3>3
    <3> QED
      BY <1>5, <3>2, <3>4
  <2> QED
    BY <2>1, <2>2
<1> QED
  BY <1>1, <1>5, <1>6, <1>7, <1>8, <1>9 DEF Merging
(* An object that has none gets one of its own, the last.                  *)
LEMMA MergingAdded ==
    ASSUME NEW objects \in Seq(TraceObject), Single(objects), NEW nodes, NEW state,
           NEW n \in 1 .. Len(objects), Merging(state, nodes, objects, n - 1),
           objects[n].id \notin DOMAIN state.existing
    PROVE  Merging(MergeObject(state, objects[n]), nodes, objects, n)
<1> DEFINE o == objects[n]
           node == [id |-> o.id, ready |-> Interval(<<>>, o.ready)]
           new == Append(state.nodes, node)
           len == Len(state.nodes)
<1>1. MergeObject(state, o) = [nodes |-> new, existing |-> state.existing]
  BY DEF MergeObject, Merging
<1>2. /\ o \in TraceObject /\ o.id \in Nat /\ o.ready \in SpaceStates \ {"absent"} /\ n - 1 \in Nat
      /\ \A j \in 1 .. n - 1 : j \in DOMAIN objects /\ j # n
      /\ n \in DOMAIN objects
  <2>1. Len(objects) \in Nat /\ DOMAIN objects = 1 .. Len(objects) /\ o \in TraceObject
    OBVIOUS
  <2> HIDE DEF o
  <2> QED
    BY <2>1 DEF TraceObject
<1>3. FirstIds(objects, n) = FirstIds(objects, n - 1) \cup {o.id}
  BY DEF FirstIds
<1>4. o.id \notin FirstIds(objects, n - 1)
  BY <1>2 DEF FirstIds, Single
<1>5. o.id \notin IdsOf(state.nodes)
  BY <1>4 DEF Merging
<1>6. node \in TraceNode /\ node.id = o.id /\ Agrees(o.ready, node.ready)
  <2>1. <<>> \in Seq({"open", "closed"})
    OBVIOUS
  <2> QED
    BY <1>2, <2>1, IntervalFacts DEF TraceNode
<1> HIDE DEF node
<1>7. /\ new \in Seq(TraceNode) /\ len \in Nat /\ DOMAIN state.nodes = 1 .. len /\ DOMAIN new = 1 .. len + 1
      /\ new[len + 1] = node /\ \A i \in 1 .. len : new[i] = state.nodes[i]
  <2>1. state.nodes \in Seq(TraceNode)
    BY DEF Merging
  <2> QED
    BY <1>6, <2>1
<1> HIDE DEF new, len
<1>8. \A i \in 1 .. len : new[i].id # o.id
  BY <1>5, <1>7 DEF IdsOf
<1>9. Single(new)
  <2> SUFFICES ASSUME NEW i \in DOMAIN new, NEW j \in DOMAIN new, new[i].id = new[j].id PROVE i = j
    BY DEF Single
  <2>1. CASE i \in 1 .. len /\ j \in 1 .. len
    BY <1>7, <2>1 DEF Merging, Single
  <2>2. CASE ~(i \in 1 .. len /\ j \in 1 .. len)
    <3>1. i = len + 1 \/ j = len + 1
      BY <1>7, <2>2
    <3>2. new[i].id = o.id /\ new[j].id = o.id
      BY <1>6, <1>7, <3>1
    <3> QED
      BY <1>7, <1>8, <3>2
  <2> QED
    BY <2>1, <2>2
<1>10. IdsOf(new) = IdsOf(nodes) \cup FirstIds(objects, n)
  <2>1. IdsOf(new) = IdsOf(state.nodes) \cup {o.id}
    <3>1. DOMAIN new = (1 .. len) \cup {len + 1}
      BY <1>7
    <3>2. {new[i].id : i \in 1 .. len} = {state.nodes[i].id : i \in 1 .. len}
      BY <1>7
    <3>3. new[len + 1].id = o.id
      BY <1>6, <1>7
    <3>4. IdsOf(new) = {new[i].id : i \in 1 .. len} \cup {new[len + 1].id}
      BY <3>1 DEF IdsOf
    <3> QED
      BY <1>7, <3>2, <3>3, <3>4 DEF IdsOf
  <2> QED
    BY <1>3, <2>1 DEF Merging
<1>11. /\ DOMAIN state.existing = IdsOf(nodes) \ FirstIds(objects, n)
       /\ \A id \in DOMAIN state.existing :
             state.existing[id] \in DOMAIN new /\ new[state.existing[id]].id = id
  <2>1. \A i \in DOMAIN state.nodes : i \in DOMAIN new /\ new[i] = state.nodes[i]
    BY <1>7
  <2> QED
    BY <1>3, <2>1 DEF Merging
<1>12. Shown(new, objects, n)
  <2> SUFFICES ASSUME NEW j \in 1 .. n
               PROVE  \E i \in DOMAIN new : new[i].id = objects[j].id /\ Agrees(objects[j].ready, new[i].ready)
    BY DEF Shown
  <2>1. CASE j = n
    <3>1. len + 1 \in DOMAIN new
      BY <1>7
    <3> QED
      BY <1>6, <1>7, <2>1, <3>1
  <2>2. CASE j # n
    <3>1. j \in 1 .. n - 1
      BY <1>2, <2>2
    <3>2. PICK i \in DOMAIN state.nodes : /\ state.nodes[i].id = objects[j].id
                                          /\ Agrees(objects[j].ready, state.nodes[i].ready)
      BY <3>1 DEF Merging, Shown
    <3>3. i \in DOMAIN new /\ new[i] = state.nodes[i]
      BY <1>7, <3>2
    <3> QED
      BY <3>2, <3>3
  <2> QED
    BY <2>1, <2>2
<1> QED
  BY <1>1, <1>7, <1>9, <1>10, <1>11, <1>12 DEF Merging

(* With all objects merged it holds of all of them.                        *)
LEMMA MergingEnds ==
    ASSUME NEW nodes \in Seq(TraceNode), Single(nodes),
           NEW objects \in Seq(TraceObject), Single(objects)
    PROVE  Merging(MergeObjects(nodes, objects), nodes, objects, Len(objects))
<1>0. Len(objects) \in Nat
  OBVIOUS
<1>1. PICK f : MergedBy(f, nodes, objects)
  BY <1>0, MergesFacts
<1> DEFINE T == {n \in 0 .. Len(objects) : ~Merging(f[n], nodes, objects, n)}
<1>2. T = {}
  <2> SUFFICES ASSUME T # {} PROVE FALSE
    OBVIOUS
  <2>1. PICK n \in T : n = 0 \/ (n - 1 \in Nat /\ n - 1 \notin T)
    <3>1. T \in SUBSET Nat
      BY <1>0
    <3> HIDE DEF T
    <3> QED
      BY <3>1, LeastNumber
  <2>2. n \in 0 .. Len(objects) /\ ~Merging(f[n], nodes, objects, n)
    OBVIOUS
  <2>3. n # 0
    BY <1>1, <2>2, MergingBegins DEF MergedBy
  <2>4. n \in 1 .. Len(objects) /\ n - 1 \in 0 .. Len(objects)
    BY <1>0, <2>2, <2>3
  <2>5. Merging(f[n - 1], nodes, objects, n - 1)
    BY <2>1, <2>3, <2>4
  <2>6. f[n] = MergeObject(f[n - 1], objects[n])
    BY <1>1, <2>4 DEF MergedBy
  <2>7. Merging(f[n], nodes, objects, n)
    BY <2>4, <2>5, <2>6, MergingFound, MergingAdded
  <2> QED
    BY <2>2, <2>7
<1>3. Len(objects) \in 0 .. Len(objects)
  BY <1>0
<1> QED
  BY <1>1, <1>2, <1>3 DEF MergedBy
(* As many nodes as ids, when none is there a second time.                 *)
LEMMA LengthIsIds ==
    ASSUME NEW S, NEW s \in Seq(S), Single(s)
    PROVE  IsFiniteSet(IdsOf(s)) /\ Cardinality(IdsOf(s)) = Len(s)
<1> DEFINE len == Len(s)
           f == [i \in 1 .. len |-> s[i].id]
<1>1. len \in Nat /\ DOMAIN s = 1 .. len
  OBVIOUS
<1>2. f \in Bijection(1 .. len, IdsOf(s))
  <2>1. f \in [1 .. len -> IdsOf(s)]
    BY <1>1 DEF IdsOf
  <2>2. \A i, j \in 1 .. len : f[i] = f[j] => i = j
    BY <1>1 DEF Single
  <2>3. \A id \in IdsOf(s) : \E i \in 1 .. len : f[i] = id
    BY <1>1 DEF IdsOf
  <2> HIDE DEF f, len
  <2> QED
    BY <2>1, <2>2, <2>3 DEF Bijection, Injection, Surjection, IsInjective
<1>3. ExistsBijection(1 .. len, IdsOf(s))
  <2> HIDE DEF f
  <2> QED
    BY <1>2 DEF ExistsBijection
<1>4. IsFiniteSet(1 .. len)
  <2>1. 1 \in Int /\ len \in Int
    BY <1>1
  <2> QED
    BY <2>1, FS_Interval, Zenon
<1> HIDE DEF f, len
<1>5. IsFiniteSet(IdsOf(s))
  BY <1>3, <1>4, FS_Bijection
<1>6. Cardinality(IdsOf(s)) = len
  BY <1>1, <1>3, FS_CountingElements
<1> QED
  BY <1>5, <1>6 DEF len

\* How many of them are no greater.
PlaceIn(stay, i) == Cardinality({j \in stay : j <= i})

(* Of some numbers, each has a place, and each place a number of its own.  *)
LEMMA Places ==
    ASSUME NEW len \in Nat, NEW stay \in SUBSET (1 .. len)
    PROVE  /\ Cardinality(stay) \in Nat
           /\ \A k \in 1 .. Cardinality(stay) : \E i \in stay : PlaceIn(stay, i) = k
           /\ \A i \in stay : PlaceIn(stay, i) \in 1 .. Cardinality(stay)
           /\ \A i, j \in stay : PlaceIn(stay, i) = PlaceIn(stay, j) => i = j
<1> DEFINE upTo(i) == {j \in stay : j <= i}
           c == Cardinality(stay)
           f == [i \in stay |-> PlaceIn(stay, i)]
<1>1. IsFiniteSet(stay)
  <2>1. IsFiniteSet(1 .. len)
    <3>1. 1 \in Int /\ len \in Int
      OBVIOUS
    <3> QED
      BY <3>1, FS_Interval, Zenon
  <2> QED
    BY <2>1, FS_Subset
<1>2. c \in Nat
  BY <1>1, FS_CardinalityType
<1>3. \A i \in stay : IsFiniteSet(upTo(i)) /\ Cardinality(upTo(i)) \in Nat /\ Cardinality(upTo(i)) <= c
  <2> SUFFICES ASSUME NEW i \in stay
               PROVE  IsFiniteSet(upTo(i)) /\ Cardinality(upTo(i)) \in Nat /\ Cardinality(upTo(i)) <= c
    OBVIOUS
  <2>1. upTo(i) \in SUBSET stay
    OBVIOUS
  <2> HIDE DEF upTo
  <2> QED
    BY <1>1, <2>1, FS_Subset, FS_CardinalityType
<1>4. \A i \in stay : PlaceIn(stay, i) \in 1 .. c
  <2> SUFFICES ASSUME NEW i \in stay PROVE PlaceIn(stay, i) \in 1 .. c
    OBVIOUS
  <2>1. i \in upTo(i)
    OBVIOUS
  <2>2. PlaceIn(stay, i) = Cardinality(upTo(i))
    BY DEF PlaceIn
  <2> HIDE DEF upTo, c
  <2>3. Cardinality(upTo(i)) # 0
    BY <1>3, <2>1, FS_EmptySet
  <2> QED
    BY <1>2, <1>3, <2>2, <2>3
<1>5. ASSUME NEW i \in stay, NEW j \in stay, i < j
      PROVE  PlaceIn(stay, i) # PlaceIn(stay, j)
  <2>1. upTo(i) \in SUBSET upTo(j) /\ j \in upTo(j) /\ j \notin upTo(i)
    <3>1. \A k \in stay : k <= i => k <= j
      <4>1. i \in Nat /\ j \in Nat /\ \A k \in stay : k \in Nat
        OBVIOUS
      <4> QED
        BY <1>5, <4>1
    <3>2. j <= j /\ ~(j <= i)
      BY <1>5
    <3> QED
      BY <3>1, <3>2, Zenon
  <2>2. PlaceIn(stay, i) = Cardinality(upTo(i)) /\ PlaceIn(stay, j) = Cardinality(upTo(j))
    BY DEF PlaceIn
  <2> HIDE DEF upTo
  <2>3. Cardinality(upTo(i)) # Cardinality(upTo(j))
    BY <1>3, <2>1, FS_Subset
  <2> QED
    BY <2>2, <2>3
<1>6. \A i, j \in stay : PlaceIn(stay, i) = PlaceIn(stay, j) => i = j
  <2>1. \A i, j \in stay : i < j \/ j < i \/ i = j
    OBVIOUS
  <2> QED
    BY <1>5, <2>1
<1>7. f \in Injection(stay, 1 .. c)
  <2>1. f \in [stay -> 1 .. c]
    BY <1>4
  <2>2. \A i, j \in stay : f[i] = f[j] => i = j
    BY <1>6
  <2> HIDE DEF f, c
  <2> QED
    BY <2>1, <2>2 DEF Injection, IsInjective
<1>8. IsFiniteSet(1 .. c) /\ Cardinality(1 .. c) = c
  <2>1. 1 \in Int /\ c \in Int
    BY <1>2
  <2>2. IsFiniteSet(1 .. c) /\ Cardinality(1 .. c) = IF 1 > c THEN 0 ELSE c - 1 + 1
    <3> HIDE DEF c
    <3> QED
      BY <2>1, FS_Interval, Zenon
  <2> QED
    BY <1>2, <2>2
<1>9. f \in Surjection(stay, 1 .. c)
  <2>1. Cardinality(stay) = Cardinality(1 .. c)
    BY <1>8
  <2> HIDE DEF f, c
  <2> QED
    BY <1>7, <1>8, <2>1, FS_Injection
<1>10. \A k \in 1 .. c : \E i \in stay : f[i] = k
  <2> HIDE DEF f, c
  <2> QED
    BY <1>9 DEF Surjection
<1> QED
  BY <1>2, <1>4, <1>6, <1>10

(* What an answer makes of a tree: a node for each object, ready as it is, *)
(* none for another and none twice.                                        *)
LEMMA MergedFacts ==
    ASSUME NEW nodes \in Seq(TraceNode), Single(nodes),
           NEW objects \in Seq(TraceObject), Single(objects)
    PROVE  /\ Merged(nodes, objects) \in Seq(TraceNode) /\ Single(Merged(nodes, objects))
           /\ Len(Merged(nodes, objects)) = Len(objects)
           /\ Shown(Merged(nodes, objects), objects, Len(objects))
<1> DEFINE new == Merged(nodes, objects)
<1>1. PICK end : end = MergeObjects(nodes, objects)
  OBVIOUS
<1>2. Merging(end, nodes, objects, Len(objects))
  BY <1>1, MergingEnds
<1> DEFINE len == Len(end.nodes)
           stay == DOMAIN end.nodes \ {end.existing[id] : id \in DOMAIN end.existing}
           c == Cardinality(stay)
           at(k) == CHOOSE i \in stay : PlaceIn(stay, i) = k
<1>3. new = [k \in 1 .. c |-> end.nodes[at(k)]]
  BY <1>1 DEF Merged, PlaceIn
<1>4. end.nodes \in Seq(TraceNode) /\ len \in Nat /\ DOMAIN end.nodes = 1 .. len /\ Single(end.nodes)
  BY <1>2 DEF Merging
<1>5. FirstIds(objects, Len(objects)) = IdsOf(objects)
  BY DEF FirstIds, IdsOf
<1>6. \A i \in DOMAIN end.nodes : i \in stay <=> end.nodes[i].id \in IdsOf(objects)
  <2> SUFFICES ASSUME NEW i \in DOMAIN end.nodes PROVE i \in stay <=> end.nodes[i].id \in IdsOf(objects)
    OBVIOUS
  <2>1. i \notin stay <=> end.nodes[i].id \in DOMAIN end.existing
    <3>1. \A id \in DOMAIN end.existing : end.existing[id] \in DOMAIN end.nodes /\ end.nodes[end.existing[id]].id = id
      BY <1>2 DEF Merging
    <3>2. \A id \in DOMAIN end.existing : end.existing[id] = i => end.nodes[i].id = id
      BY <3>1
    <3>3. \A id \in DOMAIN end.existing : end.nodes[i].id = id => end.existing[id] = i
      BY <1>4, <3>1 DEF Single
    <3>4. i \notin stay <=> \E id \in DOMAIN end.existing : end.existing[id] = i
      OBVIOUS
    <3> HIDE DEF stay
    <3> QED
      BY <3>2, <3>3, <3>4
  <2>2. end.nodes[i].id \in IdsOf(end.nodes)
    BY DEF IdsOf
  <2> HIDE DEF stay
  <2> QED
    BY <1>2, <1>5, <2>1, <2>2 DEF Merging
<1>7. stay \in SUBSET (1 .. len)
  BY <1>4
<1>8. /\ c \in Nat
      /\ \A k \in 1 .. c : \E i \in stay : PlaceIn(stay, i) = k
      /\ \A i \in stay : PlaceIn(stay, i) \in 1 .. c
      /\ \A i, j \in stay : PlaceIn(stay, i) = PlaceIn(stay, j) => i = j
  <2> HIDE DEF stay, len
  <2> QED
    BY <1>4, <1>7, Places
<1>9. \A k \in 1 .. c : at(k) \in stay /\ PlaceIn(stay, at(k)) = k
  <2> HIDE DEF stay
  <2> QED
    BY <1>8
<1>10. \A i \in stay : \E k \in 1 .. c : at(k) = i
  <2> HIDE DEF stay
  <2>1. ASSUME NEW i \in stay PROVE at(PlaceIn(stay, i)) = i
    <3>1. PlaceIn(stay, i) \in 1 .. c
      BY <1>8
    <3> QED
      BY <1>8, <1>9, <3>1
  <2> QED
    BY <1>8, <2>1
<1> HIDE DEF stay, c, at, len
<1>11. new \in Seq(TraceNode) /\ Len(new) = c /\ DOMAIN new = 1 .. c /\ \A k \in 1 .. c : new[k] = end.nodes[at(k)]
  <2>1. \A k \in 1 .. c : end.nodes[at(k)] \in TraceNode
    <3>1. \A i \in DOMAIN end.nodes : end.nodes[i] \in TraceNode
      BY <1>4
    <3>2. \A k \in 1 .. c : at(k) \in DOMAIN end.nodes
      BY <1>4, <1>7, <1>9
    <3> QED
      BY <3>1, <3>2
  <2> HIDE DEF new
  <2> QED
    BY <1>3, <1>8, <2>1
<1> HIDE DEF new
<1>12. Single(new)
  <2> SUFFICES ASSUME NEW k \in 1 .. c, NEW l \in 1 .. c, new[k].id = new[l].id PROVE k = l
    BY <1>11 DEF Single
  <2>1. end.nodes[at(k)].id = end.nodes[at(l)].id /\ at(k) \in DOMAIN end.nodes /\ at(l) \in DOMAIN end.nodes
    BY <1>4, <1>7, <1>9, <1>11
  <2>2. at(k) = at(l)
    BY <1>4, <2>1 DEF Single
  <2> QED
    BY <1>9, <2>2
<1>13. IdsOf(new) = IdsOf(objects)
  <2>1. ASSUME NEW k \in 1 .. c PROVE new[k].id \in IdsOf(objects)
    BY <1>4, <1>6, <1>7, <1>9, <1>11
  <2>2. ASSUME NEW id \in IdsOf(objects) PROVE \E k \in 1 .. c : new[k].id = id
    <3>1. id \in IdsOf(end.nodes)
      BY <1>2, <1>5 DEF Merging
    <3>2. PICK i \in DOMAIN end.nodes : end.nodes[i].id = id
      BY <3>1 DEF IdsOf
    <3>3. i \in stay
      BY <1>6, <3>2
    <3> QED
      BY <1>10, <1>11, <3>2, <3>3
  <2>3. IdsOf(new) = {new[k].id : k \in 1 .. c}
    BY <1>11 DEF IdsOf
  <2> QED
    BY <2>1, <2>2, <2>3
<1>14. Len(new) = Len(objects)
  <2>1. Cardinality(IdsOf(new)) = Len(new)
    BY <1>11, <1>12, LengthIsIds
  <2>2. Cardinality(IdsOf(objects)) = Len(objects)
    BY LengthIsIds
  <2> QED
    BY <1>13, <2>1, <2>2
<1>15. Shown(new, objects, Len(objects))
  <2> SUFFICES ASSUME NEW j \in 1 .. Len(objects)
               PROVE  \E k \in DOMAIN new : new[k].id = objects[j].id /\ Agrees(objects[j].ready, new[k].ready)
    BY DEF Shown
  <2>1. PICK i \in DOMAIN end.nodes : end.nodes[i].id = objects[j].id /\ Agrees(objects[j].ready, end.nodes[i].ready)
    BY <1>2 DEF Merging, Shown
  <2>2. objects[j].id \in IdsOf(objects)
    BY DEF IdsOf
  <2>3. i \in stay
    BY <1>6, <2>1, <2>2
  <2>4. PICK k \in 1 .. c : at(k) = i
    BY <1>10, <2>3
  <2> QED
    BY <1>11, <2>1, <2>4
<1> QED
  BY <1>11, <1>12, <1>14, <1>15 DEF new
-----------------------------------------------------------------------------
LEMMA TraceInitInv == TraceInit => TraceInv
<1> SUFFICES ASSUME TraceInit PROVE TraceInv
  OBVIOUS
<1>1. NoAsk \in TraceAsk
  BY DEF NoAsk, TraceAsk
<1>2. <<>> \in Seq(TraceObject) /\ <<>> \in Seq(TraceNode) /\ Len(<<>>) = 0
  OBVIOUS
<1>3. TraceTypes
  BY <1>1, <1>2, AsksAssumption DEF TraceTypes, TraceInit, NoQuery, TraceAsk, SpaceStates
<1>4. AskInv
  BY DEF AskInv, TraceInit, NoQuery
<1>5. TreeInv
  BY DEF TreeInv, Single, TraceInit
<1>6. TreeIsTheAnswer
  BY DEF TreeIsTheAnswer, TraceInit, ToSet
<1> QED
  BY <1>3, <1>4, <1>5, <1>6 DEF TraceInv

(* A step that leaves the tree, its answer and the questions alone.        *)
LEMMA QuietTrace ==
    ASSUME TraceInv, TraceTypes', UNCHANGED <<asked, dialog, tree, answer, twice>>,
           \/ query'.step = "sleep"
           \/ query' = query
           \/ query.step = "query" /\ query'.step = "query" /\ query'.ask = query.ask /\ query'.fresh = query.fresh
    PROVE  TraceInv'
<1>1. AskInv'
  BY DEF TraceInv, AskInv
<1>2. TreeInv'
  BY DEF TraceInv, TreeInv
<1>3. TreeIsTheAnswer'
  BY DEF TraceInv, TreeIsTheAnswer
<1> QED
  BY <1>1, <1>2, <1>3 DEF TraceInv

\* What a poll is.
PollType == [step : {"sleep", "load", "query"}, ask : TraceAsk,
             specs : SUBSET (TraceKinds \cup {"managed"}),
             spec : TraceKinds \cup {"managed", "none"}, cursor : Nat,
             objects : Seq(TraceObject), fresh : BOOLEAN]

LEMMA NoQueryType == NoQuery \in PollType /\ NoQuery.step = "sleep" /\ NoAsk \in TraceAsk
<1>1. NoAsk \in TraceAsk
  BY DEF NoAsk, TraceAsk
<1>2. <<>> \in Seq(TraceObject)
  OBVIOUS
<1> QED
  BY <1>1, <1>2 DEF NoQuery, PollType

LEMMA LoadStep == ASSUME TraceInv, LoadKinds \/ LoadCategories PROVE TraceInv'
<1>1. CASE LoadKinds
  <2>1. PICK ask : ask = [kinds |-> asked.kinds, categories |-> {}]
    OBVIOUS
  <2>2. ask \in TraceAsk /\ ask.kinds = asked.kinds
    BY <2>1 DEF TraceInv, TraceTypes, TraceAsk
  <2>3. query' = [NoQuery EXCEPT !.step = "load", !.ask = ask, !.fresh = (dialog = NoAsk)]
    <3>1. [NoAsk EXCEPT !.kinds = asked.kinds] = ask
      BY <2>1 DEF NoAsk
    <3>2. NoQuery.ask = NoAsk
      BY DEF NoQuery
    <3>3. query' = [NoQuery EXCEPT !.step = "load", !.ask.kinds = asked.kinds, !.fresh = (dialog = NoAsk)]
      BY <1>1 DEF LoadKinds
    <3> QED
      BY <3>1, <3>2, <3>3 DEF NoQuery
  <2>4. /\ query' \in PollType /\ query'.step = "load" /\ query'.ask = ask
        /\ query'.fresh = (dialog = NoAsk)
    BY <2>2, <2>3, NoQueryType DEF PollType
  <2>5. TraceTypes'
    BY <1>1, <2>4 DEF LoadKinds, TraceInv, TraceTypes, PollType
  <2>6. AskInv'
    BY <1>1, <2>2, <2>4 DEF LoadKinds, TraceInv, AskInv
  <2>7. TreeInv' /\ TreeIsTheAnswer'
    BY <1>1 DEF LoadKinds, TraceInv, TreeInv, TreeIsTheAnswer
  <2> QED
    BY <2>5, <2>6, <2>7 DEF TraceInv
<1>2. CASE LoadCategories
  <2>1. PICK ask : ask = [kinds |-> query.ask.kinds, categories |-> asked.categories]
    OBVIOUS
  <2>2. query \in PollType /\ asked \in TraceAsk /\ query.ask \in TraceAsk
    BY DEF TraceInv, TraceTypes, PollType
  <2>3. /\ ask \in TraceAsk /\ [query.ask EXCEPT !.categories = asked.categories] = ask
        /\ query.ask.kinds = asked.kinds => ask = asked
        /\ query.ask.kinds \cup asked.categories \in SUBSET (TraceKinds \cup {"managed"})
    BY <2>1, <2>2 DEF TraceAsk
  <2> DEFINE specs == query.ask.kinds \cup asked.categories
  <2>4. query' = [query EXCEPT !.step = "query", !.ask = ask, !.specs = specs]
    BY <1>2, <2>2, <2>3 DEF LoadCategories, PollType
  <2> HIDE DEF specs
  <2>5. /\ query' \in PollType /\ query'.step = "query" /\ query'.ask = ask /\ query'.fresh = query.fresh
    BY <2>2, <2>3, <2>4 DEF PollType, specs
  <2>6. TraceTypes'
    BY <1>2, <2>5 DEF LoadCategories, TraceInv, TraceTypes, PollType
  <2>7. AskInv'
    BY <1>2, <2>3, <2>5 DEF LoadCategories, TraceInv, AskInv
  <2>8. TreeInv' /\ TreeIsTheAnswer'
    BY <1>2 DEF LoadCategories, TraceInv, TreeInv, TreeIsTheAnswer
  <2> QED
    BY <2>6, <2>7, <2>8 DEF TraceInv
<1> QED
  BY <1>1, <1>2

(* A page adds an object that the Space has.                               *)
LEMMA PageStep == ASSUME TraceInv, NextSpec \/ Page PROVE TraceInv'
<1>0. query \in PollType
  BY DEF TraceInv, TraceTypes, PollType
<1>1. CASE NextSpec
  <2>1. PICK s \in query.specs : query' = [query EXCEPT !.specs = @ \ {s}, !.spec = s, !.cursor = 0]
    BY <1>1 DEF NextSpec
  <2>2. query' \in PollType /\ query'.step = query.step /\ query'.ask = query.ask /\ query'.fresh = query.fresh
    BY <1>0, <2>1 DEF PollType
  <2>3. TraceTypes'
    BY <1>1, <2>2 DEF NextSpec, TraceInv, TraceTypes, PollType
  <2> QED
    BY <1>1, <2>2, <2>3, QuietTrace DEF NextSpec
<1>2. CASE Page
  <2> DEFINE found == Matching(query.spec)
             least == CHOOSE o \in found : \A p \in found : o <= p
  <2>1. /\ query.step = "query" /\ UNCHANGED <<space, asked, dialog, screen, tree, answer, twice, spent>>
        /\ query' = IF found = {} THEN [query EXCEPT !.spec = "none"]
                    ELSE [query EXCEPT !.objects = Append(@, [id |-> least, ready |-> space[least]]),
                                       !.cursor = least,
                                       !.spec = IF found = {least} THEN "none" ELSE @]
    BY <1>2 DEF Page
  <2>2. found # {} => least \in Nat /\ least \in found
    <3> SUFFICES ASSUME found # {} PROVE least \in Nat /\ least \in found
      OBVIOUS
    <3>1. found \in SUBSET Nat
      BY TracedAssumption DEF Matching
    <3> HIDE DEF found
    <3>2. \E o \in found : \A p \in found : o <= p
      <4>1. IsWellFoundedOn(OpToRel(<, Nat), Nat)
        BY NatLessThanWellFounded
      <4>2. PICK o \in found : \A p \in found : ~ (<<p, o>> \in OpToRel(<, Nat))
        BY <3>1, <4>1, WFMin
      <4>3. \A p \in found : ~ (p < o)
        BY <3>1, <4>2 DEF OpToRel
      <4> QED
        BY <3>1, <4>3
    <3> QED
      BY <3>1, <3>2
  <2>5. found # {} => least \in Traced /\ space[least] # "absent"
    BY <2>2 DEF Matching
  <2> HIDE DEF found, least
  <2>3. query' \in PollType /\ query'.step = query.step /\ query'.ask = query.ask /\ query'.fresh = query.fresh
    <3>1. CASE found = {}
      BY <1>0, <2>1, <3>1 DEF PollType
    <3>2. CASE found # {}
      <4>0. PICK is \in SpaceStates \ {"absent"} : is = space[least]
        BY <2>5, <3>2 DEF TraceInv, TraceTypes
      <4>1. PICK object \in TraceObject : object = [id |-> least, ready |-> is]
        BY <2>2, <3>2 DEF TraceObject
      <4>2. PICK objects \in Seq(TraceObject) : objects = Append(query.objects, object)
        <5>1. query.objects \in Seq(TraceObject)
          BY <1>0 DEF PollType
        <5>2. \A s \in Seq(TraceObject) : Append(s, object) \in Seq(TraceObject)
          OBVIOUS
        <5> QED
          BY <5>1, <5>2
      <4>3. PICK s \in TraceKinds \cup {"managed", "none"} : s = IF found = {least} THEN "none" ELSE query.spec
        BY <1>0 DEF PollType
      <4>4. query' = [query EXCEPT !.objects = objects, !.cursor = least, !.spec = s]
        BY <2>1, <3>2, <4>0, <4>1, <4>2, <4>3
      <4> QED
        BY <1>0, <2>2, <3>2, <4>4 DEF PollType
    <3> QED
      BY <3>1, <3>2
  <2>4. TraceTypes'
    BY <2>1, <2>3 DEF TraceInv, TraceTypes, PollType
  <2> QED
    BY <2>1, <2>3, <2>4, QuietTrace
<1> QED
  BY <1>1, <1>2

(* The answer is merged.                                                   *)
LEMMA UpdateStep == ASSUME TraceInv, Update PROVE TraceInv'
<1>0. query \in PollType /\ query.step = "query" /\ query.objects \in Seq(TraceObject)
  BY DEF TraceInv, TraceTypes, PollType, Update, Answered
<1>1. PICK objects \in Seq(TraceObject) : objects = query.objects
  BY <1>0
<1>2. /\ UNCHANGED <<asked, dialog>> /\ query' = NoQuery /\ tree' = Merged(tree, objects)
      /\ answer' = [ask |-> query.ask, objects |-> objects, fresh |-> query.fresh]
      /\ twice' = (twice \/ \E i, j \in DOMAIN objects : i # j /\ objects[i].id = objects[j].id)
  BY <1>1 DEF Update
<1>3. AskInv'
  BY <1>0, <1>2, NoQueryType DEF TraceInv, AskInv
<1>4. /\ answer' \in [ask : TraceAsk, objects : Seq(TraceObject), fresh : BOOLEAN] /\ twice' \in BOOLEAN
      /\ answer'.objects = objects
  BY <1>0, <1>1, <1>2 DEF PollType, TraceInv, TraceTypes
<1>5. TraceTypes'
  <2>1. space' = space
    BY DEF Update
  <2> QED
    BY <1>2, <1>4, <2>1, NoQueryType DEF TraceInv, TraceTypes, PollType
<1>6. TreeInv' /\ (~twice' => Len(tree') = Len(objects) /\ Shown(tree', objects, Len(objects)))
  <2> SUFFICES ASSUME ~twice'
               PROVE  /\ tree' \in Seq(TraceNode) /\ Single(tree')
                      /\ Len(tree') = Len(objects) /\ Shown(tree', objects, Len(objects))
    BY DEF TreeInv
  <2>1. ~twice /\ Single(objects)
    BY <1>2 DEF Single
  <2>2. tree \in Seq(TraceNode) /\ Single(tree)
    BY <2>1 DEF TraceInv, TreeInv
  <2> QED
    BY <1>2, <2>1, <2>2, MergedFacts
<1>7. TreeIsTheAnswer'
  <2>1. ASSUME ~twice', NEW o \in ToSet(objects)
        PROVE  \E i \in DOMAIN tree' : /\ tree'[i].id = o.id
                                       /\ Agrees(o.ready, tree'[i].ready)
    <3>1. PICK j \in 1 .. Len(objects) : o = objects[j]
      <4>1. DOMAIN objects = 1 .. Len(objects)
        OBVIOUS
      <4> QED
        BY <2>1, <4>1 DEF ToSet
    <3> QED
      BY <1>6, <2>1, <3>1 DEF Shown
  <2>2. answer'.fresh => answer'.ask = asked'
    BY <1>3 DEF AskInv
  <2> QED
    BY <1>4, <1>6, <2>1, <2>2 DEF TreeIsTheAnswer, Agrees
<1> QED
  BY <1>3, <1>5, <1>6, <1>7 DEF TraceInv

(* What is asked for changes: no answer is fresh until it has.             *)
LEMMA AskStep ==
    ASSUME TraceInv, (\E a \in Asks : StoreKinds(a)) \/ StoreCategories
    PROVE  TraceInv'
<1>0. query \in PollType /\ answer \in [ask : TraceAsk, objects : Seq(TraceObject), fresh : BOOLEAN]
  BY DEF TraceInv, TraceTypes, PollType
<1>1. ASSUME NEW a \in Asks, StoreKinds(a) PROVE TraceInv'
  <2>1. a \in TraceAsk
    BY AsksAssumption DEF TraceAsk
  <2>2. asked' \in TraceAsk
    <3>1. asked' = [asked EXCEPT !.kinds = a.kinds] /\ asked \in TraceAsk
      BY <1>1 DEF StoreKinds, TraceInv, TraceTypes
    <3> QED
      BY <2>1, <3>1 DEF TraceAsk
  <2>3. /\ answer' \in [ask : TraceAsk, objects : Seq(TraceObject), fresh : BOOLEAN] /\ ~answer'.fresh
        /\ answer'.objects = answer.objects
    BY <1>0, <1>1 DEF StoreKinds
  <2>4. query' \in PollType /\ ~query'.fresh
    BY <1>0, <1>1 DEF StoreKinds, PollType
  <2>5. TraceTypes'
    BY <1>1, <2>1, <2>2, <2>3, <2>4 DEF StoreKinds, TraceInv, TraceTypes, PollType
  <2>6. AskInv'
    BY <2>3, <2>4 DEF AskInv
  <2>7. UNCHANGED <<tree, twice>>
    BY <1>1 DEF StoreKinds
  <2>8. TreeInv' /\ TreeIsTheAnswer'
    BY <2>3, <2>7 DEF TraceInv, TreeInv, TreeIsTheAnswer
  <2> QED
    BY <2>5, <2>6, <2>8 DEF TraceInv
<1>2. CASE StoreCategories
  <2>1. UNCHANGED <<query, tree, answer, twice>> /\ dialog # NoAsk /\ asked' = dialog /\ dialog' = NoAsk
    BY <1>2 DEF StoreCategories
  <2>2. ~answer.fresh /\ (query.step # "sleep" => ~query.fresh)
    BY <2>1 DEF TraceInv, AskInv
  <2>3. TraceTypes'
    BY <1>2, <2>1, NoQueryType DEF StoreCategories, TraceInv, TraceTypes
  <2>4. AskInv'
    BY <2>1, <2>2 DEF AskInv
  <2>5. TreeInv' /\ TreeIsTheAnswer'
    BY <2>1, <2>2 DEF TraceInv, TreeInv, TreeIsTheAnswer
  <2> QED
    BY <2>3, <2>4, <2>5 DEF TraceInv
<1> QED
  BY <1>1, <1>2

(* The rest: the Space's objects, the ends of a poll, what is shown.       *)
LEMMA ShowStep ==
    ASSUME TraceInv,
           \/ \E o \in Traced, s \in SpaceStates : Turn(o, s)
           \/ PollFails \/ PrintObjects \/ Fetch \/ Close
    PROVE  TraceInv'
<1>1. UNCHANGED <<asked, dialog, tree, answer, twice>> /\ (query' = query \/ query' = NoQuery)
  BY DEF Turn, PollFails, PrintObjects, Fetch, Close
<1>2. TraceTypes'
  <2>1. space' \in [Traced -> SpaceStates]
    BY DEF Turn, PollFails, PrintObjects, Fetch, Close, TraceInv, TraceTypes
  <2> QED
    BY <1>1, <2>1, NoQueryType DEF TraceInv, TraceTypes, PollType
<1> QED
  BY <1>1, <1>2, NoQueryType, QuietTrace

LEMMA TraceStep == TraceInv /\ [TraceNext]_traceVars => TraceInv'
<1> SUFFICES ASSUME TraceInv, [TraceNext]_traceVars PROVE TraceInv'
  OBVIOUS
<1>1. CASE UNCHANGED traceVars
  <2>1. TraceTypes'
    BY <1>1 DEF traceVars, TraceInv, TraceTypes
  <2> QED
    BY <1>1, <2>1, QuietTrace DEF traceVars
<1>2. CASE TraceNext
  BY <1>2, LoadStep, PageStep, UpdateStep, AskStep, ShowStep DEF TraceNext, SpaceStates
<1> QED
  BY <1>1, <1>2

(* TreeIsTheAnswer, whatever the Space has and however its objects, the    *)
(* answers and the questions follow on each other: an answer without an    *)
(* object twice is what the tree shows, node for object, and one that no   *)
(* change has met is to what is asked for (tree.go, update).               *)
THEOREM TreeIsAlwaysTheAnswer == TraceSpec => []TreeIsTheAnswer
<1>1. TraceInit => TraceInv
  BY TraceInitInv
<1>2. TraceInv /\ [TraceNext]_traceVars => TraceInv'
  BY TraceStep
<1>3. TraceInv => TreeIsTheAnswer
  BY DEF TraceInv
<1> QED
  BY <1>1, <1>2, <1>3, PTL DEF TraceSpec
=============================================================================
