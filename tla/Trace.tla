------------------------------- MODULE Trace -------------------------------
(***************************************************************************)
(* `up alpha trace`: one goroutine asks a Space for objects every second   *)
(* and hands the answer to the one that draws, which merges it into a tree *)
(* that remembers since when each object was ready; the user changes what  *)
(* is asked for.  `up alpha query` asks in the same way, once.             *)
(***************************************************************************)
EXTENDS Naturals, SequencesExt

CONSTANTS
    TraceKinds,      \* kinds of objects that can be asked for by name
    Asks,            \* what may be asked for: [kinds, categories]
    Traced,          \* the objects of the Space, numbered
    KindOfTraced,    \* [Traced -> TraceKinds]; the category "managed" has them all
    MaxPolls,        \* bound: answers that are merged
    MaxTurns,        \* bound: changes of an object
    MaxAsks          \* bound: changes of what is asked for

ASSUME AsksAssumption ==
    Asks \subseteq [kinds : SUBSET TraceKinds, categories : SUBSET {"managed"}]

ASSUME TracedAssumption == Traced \subseteq Nat

VARIABLES
    space,      \* [Traced -> "absent", or what its Ready condition says: "ready", or
                \*  "unready" since a time, or "unknown": no condition, or none with a time]
    asked,      \* the two atomic pointers: kinds and categories
    dialog,     \* the kinds and categories typed, until both are stored
    screen,     \* "query", or "polling" before the first answer, "tree", "yaml"; "ended"
    query,      \* the poll: its step, what it asks for, queries left, cursor, answer
    tree,       \* the nodes: sequence of [id, ready: intervals "open", without an end, or "closed"]
    answer,     \* the answer in the tree, and what it was asked for
    twice,      \* an answer had an object twice
    spent       \* the bounded steps so far

traceVars == <<space, asked, dialog, screen, query, tree, answer, twice, spent>>

Managed == "managed"
NoAsk == [kinds |-> {}, categories |-> {}]
NoQuery == [step |-> "sleep", ask |-> NoAsk, specs |-> {}, spec |-> "none", cursor |-> 0,
            objects |-> <<>>, fresh |-> TRUE]

TraceInit ==
    /\ space \in [Traced -> {"absent", "ready"}]
    /\ asked \in Asks
    /\ dialog = NoAsk /\ screen \in {"polling", "query"}
    /\ query = NoQuery
    /\ tree = <<>> /\ answer = [ask |-> NoAsk, objects |-> <<>>, fresh |-> FALSE]
    /\ twice = FALSE
    /\ spent = [polls |-> 0, turns |-> 0, asks |-> 0]

\* Objects come, go and become ready or not, at any time.
Turn(o, s) ==
    /\ spent.turns < MaxTurns /\ s # space[o]
    /\ space' = [space EXCEPT ![o] = s]
    /\ spent' = [spent EXCEPT !.turns = @ + 1]
    /\ UNCHANGED <<asked, dialog, screen, query, tree, answer, twice>>
-----------------------------------------------------------------------------
\* The pointers are read one after the other.
LoadKinds ==
    /\ query.step = "sleep" /\ screen # "ended" /\ spent.polls < MaxPolls
    /\ query' = [NoQuery EXCEPT !.step = "load", !.ask.kinds = asked.kinds,
                                !.fresh = dialog = NoAsk]
    /\ spent' = [spent EXCEPT !.polls = @ + 1]
    /\ UNCHANGED <<space, asked, dialog, screen, tree, answer, twice>>

LoadCategories ==
    /\ query.step = "load"
    /\ query' = [query EXCEPT !.step = "query", !.ask.categories = asked.categories,
                              !.specs = query.ask.kinds \cup asked.categories]
    /\ UNCHANGED <<space, asked, dialog, screen, tree, answer, twice, spent>>

\* One query for each kind and category, in the order of a map.
NextSpec ==
    /\ query.step = "query" /\ query.spec = "none"
    /\ \E spec \in query.specs :
          query' = [query EXCEPT !.specs = @ \ {spec}, !.spec = spec, !.cursor = 0]
    /\ UNCHANGED <<space, asked, dialog, screen, tree, answer, twice, spent>>

Matching(spec) ==
    {o \in Traced : space[o] # "absent" /\ (spec = Managed \/ KindOfTraced[o] = spec) /\ o > query.cursor}

\* A page of one object; the next one is asked for with the cursor.
Page ==
    /\ query.step = "query" /\ query.spec # "none"
    /\ LET found == Matching(query.spec)  o == CHOOSE o \in found : \A p \in found : o <= p IN
       query' = IF found = {} THEN [query EXCEPT !.spec = "none"]
                ELSE [query EXCEPT !.objects = Append(@, [id |-> o, ready |-> space[o]]),
                                   !.cursor = o,
                                   !.spec = IF found = {o} THEN "none" ELSE @]
    /\ UNCHANGED <<space, asked, dialog, screen, tree, answer, twice, spent>>

\* The first poll ends the command with its error, the others show theirs.
PollFails ==
    /\ query.step = "query"
    /\ query' = NoQuery
    /\ screen' = IF screen \in {"polling", "query"} THEN "ended" ELSE screen
    /\ UNCHANGED <<space, asked, dialog, tree, answer, twice, spent>>

\* Opens and closes the intervals of an object.  An interval ends at the time of
\* the condition that ends it; where the condition, or its time, is missing that
\* is the zero time, which stands for an interval without an end.  The intervals
\* in which an object is synced are kept in the same way and left out.
Open(ready) == ready # <<>> /\ Last(ready) = "open"
Interval(ready, is) ==
    IF is = "ready" /\ ~Open(ready) THEN Append(ready, "open")
    ELSE IF is = "unready" /\ Open(ready) THEN [ready EXCEPT ![Len(ready)] = "closed"]
    ELSE ready

\* The children by id: of two with the same id, the later one.
Existing(nodes) ==
    [id \in {nodes[i].id : i \in DOMAIN nodes} |->
        CHOOSE i \in DOMAIN nodes : nodes[i].id = id /\ \A j \in DOMAIN nodes : nodes[j].id = id => j <= i]

MergeObject(state, o) ==
    IF o.id \in DOMAIN state.existing
    THEN [nodes |-> [state.nodes EXCEPT ![state.existing[o.id]].ready = Interval(@, o.ready)],
          existing |-> [id \in DOMAIN state.existing \ {o.id} |-> state.existing[id]]]
    ELSE [state EXCEPT !.nodes = Append(@, [id |-> o.id, ready |-> Interval(<<>>, o.ready)])]

\* One object of the answer after the other.
MergeObjects(nodes, objects) ==
    LET merged[n \in 0 .. Len(objects)] ==
            IF n = 0 THEN [nodes |-> nodes, existing |-> Existing(nodes)]
            ELSE MergeObject(merged[n - 1], objects[n])
    IN  merged[Len(objects)]

MergedKeepingGone(nodes, objects) == \* Mutant: what is gone stays in the tree
    MergeObjects(nodes, objects).nodes

\* What no object of the answer was merged into is removed; the order in which
\* the rest is then sorted to be drawn is left out.
Merged(nodes, objects) ==
    LET end == MergeObjects(nodes, objects)
        stay == DOMAIN end.nodes \ {end.existing[id] : id \in DOMAIN end.existing}
        place(i) == Cardinality({j \in stay : j <= i})
    IN  [k \in 1 .. Cardinality(stay) |-> end.nodes[CHOOSE i \in stay : place(i) = k]]

Answered == query.step = "query" /\ query.spec = "none" /\ query.specs = {}

\* `up alpha query` prints what it got, as it got it.
PrintObjects ==
    /\ Answered /\ screen = "query"
    /\ screen' = "ended" /\ query' = NoQuery
    /\ UNCHANGED <<space, asked, dialog, tree, answer, twice, spent>>

\* Drawn by the other goroutine, which the poll waits for.
Update ==
    /\ Answered /\ screen \notin {"query", "ended"}
    /\ tree' = Merged(tree, query.objects)
    /\ answer' = [ask |-> query.ask, objects |-> query.objects, fresh |-> query.fresh]
    /\ twice' = (twice \/ \E i, j \in DOMAIN query.objects :
                              i # j /\ query.objects[i].id = query.objects[j].id)
    /\ screen' = IF screen = "polling" THEN "tree" ELSE screen
    /\ query' = NoQuery
    /\ UNCHANGED <<space, asked, dialog, spent>>
-----------------------------------------------------------------------------
\* F2: the kinds are stored, then the categories.
StoreKinds(a) ==
    /\ screen = "tree" /\ dialog = NoAsk /\ spent.asks < MaxAsks /\ a # asked
    /\ dialog' = a
    /\ asked' = [asked EXCEPT !.kinds = a.kinds]
    /\ answer' = [answer EXCEPT !.fresh = FALSE] /\ query' = [query EXCEPT !.fresh = FALSE]
    /\ spent' = [spent EXCEPT !.asks = @ + 1]
    /\ UNCHANGED <<space, screen, tree, twice>>

StoreCategories ==
    /\ dialog # NoAsk
    /\ asked' = dialog /\ dialog' = NoAsk
    /\ UNCHANGED <<space, screen, query, tree, answer, twice, spent>>

\* F3 shows the selected object as the Space has it now; one that is gone is
\* not shown.
Fetch ==
    /\ screen = "tree" /\ dialog = NoAsk
    /\ \E i \in DOMAIN tree : space[tree[i].id] # "absent"
    /\ screen' = "yaml"
    /\ UNCHANGED <<space, asked, dialog, query, tree, answer, twice, spent>>

Close ==
    /\ screen \in {"tree", "yaml"} /\ dialog = NoAsk
    /\ screen' = IF screen = "yaml" THEN "tree" ELSE "ended"
    /\ UNCHANGED <<space, asked, dialog, query, tree, answer, twice, spent>>

TraceNext ==
    \/ \E o \in Traced, s \in {"absent", "ready", "unready", "unknown"} : Turn(o, s)
    \/ LoadKinds \/ LoadCategories \/ NextSpec \/ Page \/ PollFails \/ PrintObjects \/ Update
    \/ \E a \in Asks : StoreKinds(a)
    \/ StoreCategories \/ Fetch \/ Close

TraceSpec == TraceInit /\ [][TraceNext]_traceVars
-----------------------------------------------------------------------------
(* However answers, objects and questions follow on each other, the tree   *)
(* has a node for each object of the last answer, none for another, and an *)
(* interval is open there just if the object is ready (tree.go, update):   *)
(* nothing is said of an object whose condition, or its time, is missing,  *)
(* which leaves an interval open.  And once no change of the question has  *)
(* met the poll, that answer is to it (app.go, Run).  It ends with the     *)
(* first answer that has an object twice, as a kind and a category         *)
(* together give: then nodes are added with each answer and none of them   *)
(* goes away again.                                                        *)
TreeIsTheAnswer ==
    /\ ~twice =>
        /\ Len(tree) = Len(answer.objects)
        /\ \A o \in ToSet(answer.objects) : \E i \in DOMAIN tree :
              tree[i].id = o.id /\ (o.ready # "unknown" => (o.ready = "ready" <=> Open(tree[i].ready)))
    /\ answer.fresh => answer.ask = asked
=============================================================================
