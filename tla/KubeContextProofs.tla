------------------------- MODULE KubeContextProofs -------------------------
(***************************************************************************)
(* Theorems about KubeContext, for any names, targets, processes and       *)
(* bounds.                                                                 *)
(***************************************************************************)
EXTENDS KubeContext, TLAPS

-----------------------------------------------------------------------------
(* Kubeconfig: what the pure functions keep *)

LEMMA NameFacts ==
  /\ Dest \in Contexts /\ Prev \in Contexts /\ Dest # Prev
  /\ Contexts \subseteq Entries /\ Free \subseteq Entries
  /\ \A n \in Entries \cup Targets \cup Refs : n # None
  /\ \A c \in Others : c # Dest /\ c # Prev
  /\ \A n \in Free : n # Prev
BY NamesAssumption DEF Contexts, Entries, Refs

LEMMA FlipFacts ==
  ASSUME NEW n \in Entries
  PROVE  /\ Flip(n) \in Entries
         /\ n = Prev => Flip(n) = Dest
         /\ n = Dest => Flip(n) = Prev
         /\ n \notin {Dest, Prev} => Flip(n) = n
BY NameFacts DEF Flip

\* The fields of a kubeconfig, and a kubeconfig from its fields.
LEMMA Fields ==
  ASSUME NEW conf \in Kubeconfigs
  PROVE  /\ conf.contexts \in [Contexts -> Refs \cup {None}]
         /\ conf.clusters \in [Entries -> Targets \cup {None}]
         /\ conf.users \in [Entries -> Targets \cup {None}]
         /\ conf.current \in Contexts \cup {None}
         /\ \A c \in Contexts : conf.contexts[c] # None =>
              /\ conf.contexts[c] \in Refs
              /\ conf.contexts[c].cluster \in Entries
              /\ conf.contexts[c].user \in Entries
BY DEF Kubeconfigs, Refs

LEMMA SwapContextsFacts ==
  ASSUME NEW conf \in Kubeconfigs, Sound(conf), conf.contexts[Prev] # None
  PROVE  LET new == SwapContexts(conf)
         IN  /\ new \in Kubeconfigs /\ Sound(new)
             /\ new.contexts[Dest] = conf.contexts[Prev]
             /\ conf.current = Dest => new.contexts[Prev] = conf.contexts[Dest]
             /\ \A c \in Others : new.contexts[c] = conf.contexts[c]
             /\ new.clusters = conf.clusters /\ new.users = conf.users
             /\ new.current = Dest
<1> DEFINE new == SwapContexts(conf)
           displaced == IF conf.current = Dest THEN conf.contexts[Dest] ELSE None
<1>1. displaced \in Refs \cup {None}
  BY NameFacts, Fields
<1>2. /\ new = [conf EXCEPT !.contexts[Dest] = conf.contexts[Prev],
                            !.contexts[Prev] = displaced,
                            !.current = Dest]
  BY DEF SwapContexts
<1>3. /\ new \in Kubeconfigs
      /\ new.clusters = conf.clusters /\ new.users = conf.users
      /\ new.current = Dest
      /\ new.contexts[Dest] = conf.contexts[Prev]
      /\ new.contexts[Prev] = displaced
      /\ \A c \in Contexts \ {Dest, Prev} : new.contexts[c] = conf.contexts[c]
  <2> HIDE DEF displaced, new
  <2> QED  BY <1>1, <1>2, NameFacts DEF Kubeconfigs
<1>4. Sound(new)
  <2> HIDE DEF new
  <2> QED  BY <1>3, NameFacts DEF Sound
<1> QED
  BY <1>3, <1>4, NameFacts DEF Contexts

\* Trading two names and every reference to them moves no context.
LEMMA SwapClustersFacts ==
  ASSUME NEW conf \in Kubeconfigs, Sound(conf), conf.contexts[Dest] # None
  PROVE  LET new == SwapClusters(conf)
         IN  /\ new \in Kubeconfigs /\ Sound(new)
             /\ \A c \in Contexts : /\ new.contexts[c] = None <=> conf.contexts[c] = None
                                    /\ conf.contexts[c] # None =>
                                         new.contexts[c].user = conf.contexts[c].user
                                    /\ Reach(new, c) = Reach(conf, c)
             /\ new.users = conf.users /\ new.current = conf.current
<1> DEFINE new == SwapClusters(conf)
           flipped == [c \in Contexts |->
             IF conf.contexts[c] = None THEN None
             ELSE [conf.contexts[c] EXCEPT !.cluster = Flip(@)]]
<1>1. CASE conf.contexts[Dest].cluster # Prev
  BY <1>1 DEF SwapClusters
<1>2. CASE conf.contexts[Dest].cluster = Prev
  <2>1. ASSUME NEW c \in Contexts, conf.contexts[c] # None
        PROVE  /\ flipped[c] \in Refs /\ flipped[c] # None
               /\ flipped[c].cluster = Flip(conf.contexts[c].cluster)
               /\ flipped[c].user = conf.contexts[c].user
    BY <2>1, Fields, FlipFacts, NameFacts DEF Refs
  <2>2. \A c \in Contexts : conf.contexts[c] = None => flipped[c] = None
    OBVIOUS
  <2>3. flipped \in [Contexts -> Refs \cup {None}]
    <3>1. \A c \in Contexts : flipped[c] \in Refs \cup {None}
      BY <2>1, <2>2
    <3> QED  BY <3>1
  <2> HIDE DEF flipped
  <2>4. /\ new \in Kubeconfigs
        /\ new.contexts = flipped
        /\ new.users = conf.users /\ new.current = conf.current
        /\ new.clusters[Dest] = conf.clusters[Prev]
        /\ new.clusters[Prev] = conf.clusters[Dest]
        /\ \A n \in Entries \ {Dest, Prev} : new.clusters[n] = conf.clusters[n]
    <3>1. new = [conf EXCEPT !.clusters[Dest] = conf.clusters[Prev],
                             !.clusters[Prev] = conf.clusters[Dest],
                             !.contexts = flipped]
      BY <1>2 DEF SwapClusters, flipped
    <3> HIDE DEF new
    <3> QED  BY <3>1, <2>3, NameFacts DEF Kubeconfigs
  <2> HIDE DEF new
  <2>5. ASSUME NEW c \in Contexts, conf.contexts[c] # None
        PROVE  new.clusters[new.contexts[c].cluster]
                 = conf.clusters[conf.contexts[c].cluster]
    BY <2>1, <2>4, <2>5, Fields, FlipFacts
  <2>6. Sound(new)
    BY <2>1, <2>2, <2>4, <2>5 DEF Sound
  <2>7. \A c \in Contexts : Reach(new, c) = Reach(conf, c)
    BY <2>1, <2>2, <2>4, <2>5, NameFacts DEF Reach
  <2> QED
    BY <2>1, <2>2, <2>4, <2>6, <2>7 DEF new
<1> QED
  BY <1>1, <1>2

LEMMA SwapUsersFacts ==
  ASSUME NEW conf \in Kubeconfigs, Sound(conf), conf.contexts[Dest] # None
  PROVE  LET new == SwapUsers(conf)
         IN  /\ new \in Kubeconfigs /\ Sound(new)
             /\ \A c \in Contexts : Reach(new, c) = Reach(conf, c)
             /\ new.current = conf.current
<1> DEFINE new == SwapUsers(conf)
           flipped == [c \in Contexts |->
             IF conf.contexts[c] = None THEN None
             ELSE [conf.contexts[c] EXCEPT !.user = Flip(@)]]
<1>1. CASE conf.contexts[Dest].user # Prev
  BY <1>1 DEF SwapUsers
<1>2. CASE conf.contexts[Dest].user = Prev
  <2>1. ASSUME NEW c \in Contexts, conf.contexts[c] # None
        PROVE  /\ flipped[c] \in Refs /\ flipped[c] # None
               /\ flipped[c].user = Flip(conf.contexts[c].user)
               /\ flipped[c].cluster = conf.contexts[c].cluster
    BY <2>1, Fields, FlipFacts, NameFacts DEF Refs
  <2>2. \A c \in Contexts : conf.contexts[c] = None => flipped[c] = None
    OBVIOUS
  <2>3. flipped \in [Contexts -> Refs \cup {None}]
    <3>1. \A c \in Contexts : flipped[c] \in Refs \cup {None}
      BY <2>1, <2>2
    <3> QED  BY <3>1
  <2> HIDE DEF flipped
  <2>4. /\ new \in Kubeconfigs
        /\ new.contexts = flipped
        /\ new.clusters = conf.clusters /\ new.current = conf.current
        /\ new.users[Dest] = conf.users[Prev]
        /\ new.users[Prev] = conf.users[Dest]
        /\ \A n \in Entries \ {Dest, Prev} : new.users[n] = conf.users[n]
    <3>1. new = [conf EXCEPT !.users[Dest] = conf.users[Prev],
                             !.users[Prev] = conf.users[Dest],
                             !.contexts = flipped]
      BY <1>2 DEF SwapUsers, flipped
    <3> HIDE DEF new
    <3> QED  BY <3>1, <2>3, NameFacts DEF Kubeconfigs
  <2> HIDE DEF new
  <2>5. ASSUME NEW c \in Contexts, conf.contexts[c] # None
        PROVE  new.users[new.contexts[c].user] = conf.users[conf.contexts[c].user]
    BY <2>1, <2>4, <2>5, Fields, FlipFacts
  <2>6. Sound(new)
    BY <2>1, <2>2, <2>4, <2>5 DEF Sound
  <2>7. \A c \in Contexts : Reach(new, c) = Reach(conf, c)
    BY <2>1, <2>2, <2>4, <2>5, NameFacts DEF Reach
  <2> QED
    BY <2>4, <2>6, <2>7 DEF new
<1> QED
  BY <1>1, <1>2

\* A switch back: every other context reaches what it reached, the new
\* current one what the context called Prev reached, and the context called
\* Prev what the displaced one reached.
LEMMA ActivateFacts ==
  ASSUME NEW conf \in Kubeconfigs, Sound(conf), NEW source \in Contexts \cup {None},
         Activate(conf, source).end = "done"
  PROVE  LET new == Activate(conf, source).conf
         IN  /\ new \in Kubeconfigs /\ Sound(new)
             /\ Activate(conf, source).last \in Contexts \cup {None}
             /\ \A c \in Others : Reach(new, c) = Reach(conf, c)
             /\ source = Prev => /\ new.current = Dest
                                 /\ Reach(new, Dest) = Reach(conf, Prev)
                                 /\ conf.current = Dest =>
                                      Reach(new, Prev) = Reach(conf, Dest)
<1>1. CASE source # Prev
  <2>1. Activate(conf, source) = Done([conf EXCEPT !.current = source], conf.current)
    BY <1>1 DEF Activate
  <2> DEFINE new == [conf EXCEPT !.current = source]
  <2>2. /\ new \in Kubeconfigs
        /\ new.contexts = conf.contexts /\ new.clusters = conf.clusters
        /\ new.users = conf.users
    BY DEF Kubeconfigs
  <2> HIDE DEF new
  <2>3. Sound(new) /\ \A c \in Others : Reach(new, c) = Reach(conf, c)
    BY <2>2 DEF Sound, Reach
  <2> QED
    BY <1>1, <2>1, <2>2, <2>3, Fields DEF Done, new
<1>2. CASE source = Prev
  <2> DEFINE a == SwapContexts(conf)
             b == SwapClusters(a)
             new == SwapUsers(b)
  <2>1. PICK l \in Contexts \cup {None} : Activate(conf, source) = Done(new, l)
    BY <1>2, Fields, NameFacts DEF Activate, NoConf, Error
  <2>2. conf.contexts[Prev] # None
    BY <1>2, Fields DEF Activate, NoConf, Error
  <2>3. /\ a \in Kubeconfigs /\ Sound(a)
        /\ a.contexts[Dest] = conf.contexts[Prev]
        /\ conf.current = Dest => a.contexts[Prev] = conf.contexts[Dest]
        /\ \A c \in Others : a.contexts[c] = conf.contexts[c]
        /\ a.clusters = conf.clusters /\ a.users = conf.users
        /\ a.current = Dest
    BY <2>2, SwapContextsFacts
  <2> HIDE DEF a
  <2>4. /\ b \in Kubeconfigs /\ Sound(b)
        /\ b.contexts[Dest] # None
        /\ \A c \in Contexts : Reach(b, c) = Reach(a, c)
        /\ b.current = Dest
    BY <2>2, <2>3, SwapClustersFacts, NameFacts
  <2> HIDE DEF b
  <2>5. /\ new \in Kubeconfigs /\ Sound(new)
        /\ \A c \in Contexts : Reach(new, c) = Reach(b, c)
        /\ new.current = Dest
    BY <2>4, SwapUsersFacts
  <2> HIDE DEF new
  <2>6. /\ Reach(a, Dest) = Reach(conf, Prev)
        /\ conf.current = Dest => Reach(a, Prev) = Reach(conf, Dest)
        /\ \A c \in Others : Reach(a, c) = Reach(conf, c)
    BY <2>3, NameFacts DEF Reach
  <2>7. Others \subseteq Contexts
    BY DEF Contexts
  <2>8. /\ Activate(conf, source).conf = new
        /\ Activate(conf, source).last = l
    BY <2>1 DEF Done
  <2> QED
    BY <2>4, <2>5, <2>6, <2>7, <2>8, NameFacts
<1> QED
  BY <1>1, <1>2

\* Which name a switch remembers, and when it is an error.
LEMMA ActivateRemembers ==
  ASSUME NEW conf \in Kubeconfigs, Sound(conf), conf.current # Prev,
         NEW source \in Contexts \cup {None}
  PROVE  /\ source # Prev \/ conf.contexts[Prev] # None =>
              Activate(conf, source).end = "done"
         /\ Activate(conf, source).end = "done" =>
              Activate(conf, source).last =
                IF source = Prev /\ conf.current = Dest /\ conf.contexts[Dest] # None
                  THEN Prev ELSE conf.current
<1>1. CASE source # Prev
  BY <1>1 DEF Activate, Done
<1>2. CASE source = Prev /\ conf.contexts[Prev] = None
  BY <1>2, Fields DEF Activate, Error
<1>3. CASE source = Prev /\ conf.contexts[Prev] # None
  <2> DEFINE new == SwapUsers(SwapClusters(SwapContexts(conf)))
  <2>1. /\ conf.clusters[conf.contexts[Prev].cluster] # None
        /\ conf.users[conf.contexts[Prev].user] # None
    BY <1>3, NameFacts DEF Sound
  <2>2. Activate(conf, source) =
          Done(new, IF conf.current = Dest /\ conf.contexts[Dest] # None
                      THEN Prev ELSE conf.current)
    BY <1>3, <2>1 DEF Activate
  <2> HIDE DEF new
  <2> QED
    BY <1>3, <2>2 DEF Done
<1> QED
  BY <1>1, <1>2, <1>3

\* From a current context that is there, the name a switch remembers is that
\* of a context that reaches what the current one reached; and to switch to
\* that name leads back.
LEMMA ActivateLeadsBack ==
  ASSUME NEW conf \in Kubeconfigs, Sound(conf), conf.current # Prev,
         ReachCurrent(conf) # None, NEW source \in Contexts \cup {None},
         Activate(conf, source).end = "done"
  PROVE  LET new == Activate(conf, source)
             back == Activate(new.conf, new.last)
         IN  /\ \E c \in Contexts : Reach(new.conf, c) = ReachCurrent(conf)
             /\ back.end = "done"
             /\ ReachCurrent(back.conf) = ReachCurrent(conf)
<1> DEFINE new == Activate(conf, source)
           back == Activate(new.conf, new.last)
<1>1. /\ conf.current \in Contexts \ {Prev}
      /\ conf.contexts[conf.current] # None
  BY Fields DEF ReachCurrent, Reach
<1>2. /\ new.conf \in Kubeconfigs /\ Sound(new.conf)
      /\ new.last \in Contexts \cup {None}
      /\ \A c \in Others : Reach(new.conf, c) = Reach(conf, c)
      /\ source = Prev => /\ new.conf.current = Dest
                          /\ conf.current = Dest =>
                               Reach(new.conf, Prev) = Reach(conf, Dest)
  BY ActivateFacts
<1>3. CASE source # Prev
  <2>1. new = Done([conf EXCEPT !.current = source], conf.current)
    BY <1>3 DEF Activate
  <2>2. /\ new.conf = [conf EXCEPT !.current = source]
        /\ new.last = conf.current
    BY <2>1 DEF Done
  <2>3. /\ new.conf.contexts = conf.contexts /\ new.conf.clusters = conf.clusters
        /\ new.conf.users = conf.users
    BY <2>2 DEF Kubeconfigs
  <2> HIDE DEF new
  <2>4. back = Done([new.conf EXCEPT !.current = conf.current], new.conf.current)
    BY <1>1, <2>2 DEF Activate
  <2>5. /\ back.end = "done"
        /\ back.conf = [new.conf EXCEPT !.current = conf.current]
    BY <2>4 DEF Done
  <2>6. /\ back.conf.contexts = conf.contexts /\ back.conf.clusters = conf.clusters
        /\ back.conf.users = conf.users /\ back.conf.current = conf.current
    BY <1>2, <2>3, <2>5 DEF Kubeconfigs
  <2> QED
    BY <1>1, <2>3, <2>5, <2>6 DEF ReachCurrent, Reach, new
<1>4. CASE source = Prev /\ conf.current = Dest
  <2>1. new.last = Prev
    BY <1>1, <1>4, ActivateRemembers
  <2>2. Reach(new.conf, Prev) = ReachCurrent(conf)
    BY <1>2, <1>4 DEF ReachCurrent
  <2>3. new.conf.contexts[Prev] # None
    BY <2>2, NameFacts DEF Reach
  <2> HIDE DEF new
  <2>4. back.end = "done"
    BY <1>2, <1>4, <2>1, <2>3, ActivateRemembers, NameFacts
  <2>5. ReachCurrent(back.conf) = Reach(new.conf, Prev)
    BY <1>2, <2>1, <2>4, ActivateFacts DEF ReachCurrent
  <2> QED
    BY <2>2, <2>4, <2>5, NameFacts DEF new
<1>5. CASE source = Prev /\ conf.current # Dest
  <2>1. conf.current \in Others
    BY <1>1, <1>5 DEF Contexts
  <2>2. new.last = conf.current
    BY <1>5, ActivateRemembers
  <2>3. Reach(new.conf, conf.current) = ReachCurrent(conf)
    BY <1>2, <2>1 DEF ReachCurrent
  <2> HIDE DEF new
  <2>4. back = Done([new.conf EXCEPT !.current = conf.current], new.conf.current)
    BY <1>1, <2>2 DEF Activate
  <2>5. /\ back.end = "done"
        /\ back.conf = [new.conf EXCEPT !.current = conf.current]
    BY <2>4 DEF Done
  <2>6. /\ back.conf.contexts = new.conf.contexts
        /\ back.conf.clusters = new.conf.clusters
        /\ back.conf.users = new.conf.users /\ back.conf.current = conf.current
    BY <1>2, <2>5 DEF Kubeconfigs
  <2>7. ReachCurrent(back.conf) = Reach(new.conf, conf.current)
    BY <2>6 DEF ReachCurrent, Reach
  <2> QED
    BY <1>1, <2>3, <2>5, <2>7 DEF new
<1> QED
  BY <1>3, <1>4, <1>5

\* Making room moves no context, and leaves the cluster called Prev to the
\* context called Prev.
LEMMA MakeRoomFacts ==
  ASSUME NEW conf \in Kubeconfigs, Sound(conf), HasRoom(conf)
  PROVE  LET new == MakeRoom(conf)
         IN  /\ new \in Kubeconfigs /\ Sound(new)
             /\ \A c \in Contexts :
                  /\ new.contexts[c] = None <=> conf.contexts[c] = None
                  /\ conf.contexts[c] # None =>
                       new.contexts[c].user = conf.contexts[c].user
                  /\ Reach(new, c) = Reach(conf, c)
                  /\ c # Prev /\ conf.contexts[c] # None =>
                       new.contexts[c].cluster # Prev
             /\ new.users = conf.users /\ new.current = conf.current
<1> DEFINE new == MakeRoom(conf)
           free == CHOOSE n \in FreeNames(conf) : TRUE
           moved == [c \in Contexts |->
             IF c \in Tenants(conf)
               THEN [conf.contexts[c] EXCEPT !.cluster = free]
               ELSE conf.contexts[c]]
<1>1. CASE conf.clusters[Prev] = None \/ Tenants(conf) = {}
  <2>1. new = conf
    BY <1>1 DEF MakeRoom
  <2>2. \A c \in Contexts : c # Prev /\ conf.contexts[c] # None =>
          conf.contexts[c].cluster # Prev
    BY <1>1 DEF Tenants, Sound
  <2> QED
    BY <2>1, <2>2
<1>2. CASE conf.clusters[Prev] # None /\ Tenants(conf) # {}
  <2>1. free \in Free /\ conf.clusters[free] = None
    BY DEF HasRoom, FreeNames
  <2> HIDE DEF free
  <2>2. /\ free \in Entries /\ free # Prev
        /\ \A c \in Contexts : conf.contexts[c] # None =>
             conf.contexts[c].cluster # free
    BY <2>1, NameFacts DEF Sound
  <2>3. ASSUME NEW c \in Contexts, conf.contexts[c] # None
        PROVE  /\ moved[c] \in Refs /\ moved[c] # None
               /\ moved[c].user = conf.contexts[c].user
               /\ IF c \in Tenants(conf)
                    THEN moved[c].cluster = free /\ conf.contexts[c].cluster = Prev
                    ELSE moved[c].cluster = conf.contexts[c].cluster
    BY <2>2, <2>3, Fields, NameFacts DEF Refs, Tenants
  <2>4. \A c \in Contexts : conf.contexts[c] = None => moved[c] = None
    BY DEF Tenants
  <2>5. moved \in [Contexts -> Refs \cup {None}]
    <3>1. \A c \in Contexts : moved[c] \in Refs \cup {None}
      BY <2>3, <2>4
    <3> QED  BY <3>1
  <2> HIDE DEF moved
  <2>6. /\ new \in Kubeconfigs
        /\ new.contexts = moved
        /\ new.users = conf.users /\ new.current = conf.current
        /\ new.clusters[free] = conf.clusters[Prev]
        /\ \A n \in Entries \ {free} : new.clusters[n] = conf.clusters[n]
    <3>1. new = [conf EXCEPT !.clusters[free] = conf.clusters[Prev],
                             !.contexts = moved]
      BY <1>2 DEF MakeRoom, moved, free
    <3> HIDE DEF new
    <3>2. /\ new.contexts = moved
          /\ new.clusters = [conf.clusters EXCEPT ![free] = conf.clusters[Prev]]
          /\ new.users = conf.users /\ new.current = conf.current
          /\ new = [contexts |-> moved, clusters |-> new.clusters,
                    users |-> conf.users, current |-> conf.current]
      BY <3>1 DEF Kubeconfigs
    <3>3. /\ new.clusters \in [Entries -> Targets \cup {None}]
          /\ new.clusters[free] = conf.clusters[Prev]
          /\ \A n \in Entries \ {free} : new.clusters[n] = conf.clusters[n]
      BY <3>2, <2>2, NameFacts, Fields
    <3> QED  BY <3>2, <3>3, <2>5, Fields DEF Kubeconfigs
  <2> HIDE DEF new
  <2>7. ASSUME NEW c \in Contexts, conf.contexts[c] # None
        PROVE  new.clusters[new.contexts[c].cluster]
                 = conf.clusters[conf.contexts[c].cluster]
    BY <2>2, <2>3, <2>6, <2>7, Fields
  <2>8. \A c \in Contexts : c # Prev /\ conf.contexts[c] # None =>
          new.contexts[c].cluster # Prev
    BY <2>2, <2>3, <2>6 DEF Tenants
  <2>9. Sound(new)
    BY <2>3, <2>4, <2>6, <2>7 DEF Sound
  <2>10. \A c \in Contexts : Reach(new, c) = Reach(conf, c)
    BY <2>3, <2>4, <2>6, <2>7, NameFacts DEF Reach
  <2> QED
    BY <2>3, <2>4, <2>6, <2>8, <2>9, <2>10 DEF new
<1> QED
  BY <1>1, <1>2

\* Once there is room, the target takes over the names Prev; others keep
\* their cluster.
LEMMA PutTargetFacts ==
  ASSUME NEW conf \in Kubeconfigs, Sound(conf), NEW t \in Targets,
         conf.current = Prev => conf.contexts[Prev] # None,
         \A c \in Others : conf.contexts[c] # None => conf.contexts[c].cluster # Prev
  PROVE  LET new == PutTarget(conf, t)
         IN  /\ new \in Kubeconfigs /\ Sound(new)
             /\ Reach(new, Prev) = <<t, t>>
             /\ \A c \in Others : conf.contexts[c] # None =>
                  /\ Reach(new, c) # None
                  /\ Reach(new, c)[1] = Reach(conf, c)[1]
<1> DEFINE new == PutTarget(conf, t)
           here == conf.current = Prev
           ref == [cluster |-> Prev, user |-> Prev]
<1>1. ref \in Refs /\ ref # None /\ ref.cluster = Prev /\ ref.user = Prev
  BY NameFacts DEF Refs
<1> HIDE DEF ref
<1>2. new = [conf EXCEPT
               !.clusters[Prev] = t,
               !.users[Prev] = t,
               !.contexts[Dest] = IF here THEN conf.contexts[Prev] ELSE @,
               !.contexts[Prev] = ref,
               !.current = IF here THEN Dest ELSE @]
  BY DEF PutTarget, ref
<1> HIDE DEF new
<1>3. /\ new \in Kubeconfigs
      /\ new.contexts[Prev] = ref
      /\ new.contexts[Dest] = IF here THEN conf.contexts[Prev] ELSE conf.contexts[Dest]
      /\ \A c \in Others : new.contexts[c] = conf.contexts[c]
      /\ new.clusters[Prev] = t /\ new.users[Prev] = t
      /\ \A n \in Entries \ {Prev} : /\ new.clusters[n] = conf.clusters[n]
                                     /\ new.users[n] = conf.users[n]
  <2> DEFINE kept == IF here THEN conf.contexts[Prev] ELSE conf.contexts[Dest]
  <2>1. kept \in Refs \cup {None}
    BY Fields, NameFacts
  <2> HIDE DEF here
  <2>2. /\ new.contexts = [conf.contexts EXCEPT ![Dest] = kept, ![Prev] = ref]
        /\ new.clusters = [conf.clusters EXCEPT ![Prev] = t]
        /\ new.users = [conf.users EXCEPT ![Prev] = t]
        /\ new.current = IF here THEN Dest ELSE conf.current
        /\ new = [contexts |-> new.contexts, clusters |-> new.clusters,
                  users |-> new.users, current |-> new.current]
    BY <1>2 DEF Kubeconfigs
  <2> HIDE DEF kept
  <2>3. /\ new.contexts \in [Contexts -> Refs \cup {None}]
        /\ new.contexts[Prev] = ref /\ new.contexts[Dest] = kept
        /\ \A c \in Contexts \ {Dest, Prev} : new.contexts[c] = conf.contexts[c]
    BY <1>1, <2>1, <2>2, NameFacts, Fields
  <2>4. /\ new.clusters \in [Entries -> Targets \cup {None}]
        /\ new.users \in [Entries -> Targets \cup {None}]
        /\ new.clusters[Prev] = t /\ new.users[Prev] = t
        /\ \A n \in Entries \ {Prev} : /\ new.clusters[n] = conf.clusters[n]
                                       /\ new.users[n] = conf.users[n]
    BY <2>2, NameFacts, Fields
  <2>5. new \in Kubeconfigs
    BY <2>2, <2>3, <2>4, NameFacts, Fields DEF Kubeconfigs
  <2> QED  BY <2>3, <2>4, <2>5, NameFacts DEF Contexts, kept
<1>4. t # None
  BY NameFacts
<1>5. ASSUME NEW n \in Entries, conf.clusters[n] # None
      PROVE  new.clusters[n] # None
  BY <1>3, <1>4, <1>5
<1>6. ASSUME NEW n \in Entries, conf.users[n] # None
      PROVE  new.users[n] # None
  BY <1>3, <1>4, <1>6
<1>7. ASSUME NEW c \in Contexts, new.contexts[c] # None
      PROVE  /\ new.clusters[new.contexts[c].cluster] # None
             /\ new.users[new.contexts[c].user] # None
  <2>1. CASE c = Prev
    BY <2>1, <1>1, <1>3, <1>4
  <2>2. CASE c # Prev
    <3>1. PICK d \in Contexts : new.contexts[c] = conf.contexts[d]
      BY <2>2, <1>3, NameFacts DEF Contexts
    <3> QED
      BY <3>1, <1>5, <1>6, <1>7, Fields DEF Sound
  <2> QED  BY <2>1, <2>2
<1>8. Sound(new)
  BY <1>7 DEF Sound
<1>9. Reach(new, Prev) = <<t, t>>
  BY <1>1, <1>3, NameFacts DEF Reach
<1>10. ASSUME NEW c \in Others, conf.contexts[c] # None
       PROVE  /\ Reach(new, c) # None
              /\ Reach(new, c)[1] = Reach(conf, c)[1]
  <2>1. c \in Contexts /\ c # None
    BY NameFacts DEF Contexts
  <2>2. /\ Reach(new, c) = <<new.clusters[conf.contexts[c].cluster],
                             new.users[conf.contexts[c].user]>>
        /\ Reach(conf, c) = <<conf.clusters[conf.contexts[c].cluster],
                              conf.users[conf.contexts[c].user]>>
    BY <1>3, <1>10, <2>1 DEF Reach
  <2>3. new.clusters[conf.contexts[c].cluster] = conf.clusters[conf.contexts[c].cluster]
    BY <1>3, <1>10, <2>1, Fields
  <2>4. Reach(new, c) \in Targets \X Targets
    BY <1>3, <1>8, <1>10, <2>1, <2>2, Fields DEF Sound
  <2>5. Reach(new, c) # None
    BY <2>4, NamesAssumption
  <2> QED  BY <2>2, <2>3, <2>5
<1> QED
  BY <1>3, <1>8, <1>9, <1>10 DEF new

\* A current context that goes neither by the cluster nor by the user called
\* Prev reaches what it reached.
LEMMA PutTargetKeepsCurrent ==
  ASSUME NEW conf \in Kubeconfigs, NEW t \in Targets,
         conf.current # Prev, ReachCurrent(conf) # None,
         conf.contexts[conf.current].cluster # Prev,
         conf.contexts[conf.current].user # Prev
  PROVE  LET new == PutTarget(conf, t)
         IN  /\ new.current = conf.current
             /\ ReachCurrent(new) = ReachCurrent(conf)
<1> DEFINE new == PutTarget(conf, t)
           ref == [cluster |-> Prev, user |-> Prev]
<1> HIDE DEF ref
<1>1. /\ conf.current \in Contexts \ {Prev}
      /\ conf.contexts[conf.current] # None
  BY Fields DEF ReachCurrent, Reach
<1>2. /\ conf.contexts[conf.current].cluster \in Entries \ {Prev}
      /\ conf.contexts[conf.current].user \in Entries \ {Prev}
  BY <1>1, Fields
<1>3. new = [conf EXCEPT
               !.clusters[Prev] = t,
               !.users[Prev] = t,
               !.contexts[Dest] = conf.contexts[Dest],
               !.contexts[Prev] = ref,
               !.current = conf.current]
  BY DEF PutTarget, ref, Kubeconfigs
<1> HIDE DEF new
<1>4. /\ new.contexts = [conf.contexts EXCEPT ![Dest] = conf.contexts[Dest], ![Prev] = ref]
      /\ new.clusters = [conf.clusters EXCEPT ![Prev] = t]
      /\ new.users = [conf.users EXCEPT ![Prev] = t]
      /\ new.current = conf.current
  BY <1>3 DEF Kubeconfigs
<1>5. /\ new.contexts[conf.current] = conf.contexts[conf.current]
      /\ \A n \in Entries \ {Prev} : /\ new.clusters[n] = conf.clusters[n]
                                     /\ new.users[n] = conf.users[n]
  BY <1>1, <1>4, NameFacts, Fields
<1> QED
  <2> DEFINE at == conf.contexts[conf.current]
  <2>1. new.clusters[at.cluster] = conf.clusters[at.cluster] /\ new.users[at.user] = conf.users[at.user]
    BY <1>2, <1>5
  <2>2. new.current = conf.current /\ new.contexts[new.current] = at
    BY <1>4, <1>5
  <2> HIDE DEF at
  <2>3. Reach(new, new.current) = Reach(conf, conf.current)
    BY <2>1, <2>2 DEF Reach, at
  <2> QED
    BY <2>2, <2>3 DEF ReachCurrent, new

\* `up ctx <target>` in one step, from any kubeconfig it may have read.
LEMMA UpsertFacts ==
  ASSUME NEW conf \in Kubeconfigs, Sound(conf), HasRoom(conf), NEW t \in Targets,
         Upsert(conf, t).end = "done"
  PROVE  LET new == Upsert(conf, t).conf
         IN  /\ new \in Kubeconfigs /\ Sound(new)
             /\ Upsert(conf, t).last \in Contexts \cup {None}
             /\ new.current = Dest
             /\ Reach(new, Dest) = <<t, t>>
             /\ \A c \in Others : conf.contexts[c] # None =>
                  /\ Reach(new, c) # None
                  /\ Reach(new, c)[1] = Reach(conf, c)[1]
<1> DEFINE room == MakeRoom(conf)
           put == PutTarget(room, t)
           merged == Activate(put, Prev)
<1>1. /\ ~(conf.current = Prev /\ conf.contexts[Prev] = None)
      /\ Upsert(conf, t) = merged
  BY DEF Upsert, NoConf
<1>2. /\ room \in Kubeconfigs /\ Sound(room)
      /\ \A c \in Contexts : /\ room.contexts[c] = None <=> conf.contexts[c] = None
                             /\ Reach(room, c) = Reach(conf, c)
                             /\ c # Prev /\ conf.contexts[c] # None =>
                                  room.contexts[c].cluster # Prev
      /\ room.current = conf.current
  BY MakeRoomFacts
<1> HIDE DEF room
<1>3. Others \subseteq Contexts
  BY DEF Contexts
<1>4. /\ put \in Kubeconfigs /\ Sound(put)
      /\ Reach(put, Prev) = <<t, t>>
      /\ \A c \in Others : conf.contexts[c] # None =>
           /\ Reach(put, c) # None
           /\ Reach(put, c)[1] = Reach(room, c)[1]
  BY <1>1, <1>2, <1>3, NameFacts, PutTargetFacts
<1> HIDE DEF put
<1>5. /\ merged.conf \in Kubeconfigs /\ Sound(merged.conf)
      /\ merged.last \in Contexts \cup {None}
      /\ \A c \in Others : Reach(merged.conf, c) = Reach(put, c)
      /\ merged.conf.current = Dest
      /\ Reach(merged.conf, Dest) = Reach(put, Prev)
  BY <1>1, <1>4, ActivateFacts, NameFacts
<1> QED
  BY <1>1, <1>2, <1>3, <1>4, <1>5

\* A switch from a kubeconfig `up ctx` would leave keeps the context it leaves
\* behind, and the name it remembers leads back there.
LEMMA UpsertLeadsBack ==
  ASSUME NEW conf \in Kubeconfigs, Sound(conf), HasRoom(conf), NEW t \in Targets,
         Plain(conf), ReachCurrent(conf) # None, Upsert(conf, t).end = "done"
  PROVE  LET new == Upsert(conf, t)
             back == Activate(new.conf, new.last)
         IN  /\ \E c \in Contexts : Reach(new.conf, c) = ReachCurrent(conf)
             /\ back.end = "done"
             /\ ReachCurrent(back.conf) = ReachCurrent(conf)
<1> DEFINE room == MakeRoom(conf)
           put == PutTarget(room, t)
           merged == Activate(put, Prev)
<1>1. Upsert(conf, t) = merged
  BY DEF Upsert, NoConf
<1>2. /\ conf.current \in Contexts \ {Prev}
      /\ conf.contexts[conf.current] # None
      /\ conf.contexts[conf.current].user # Prev
  BY Fields DEF ReachCurrent, Reach, Plain
<1>3. /\ room \in Kubeconfigs /\ Sound(room)
      /\ room.current = conf.current
      /\ ReachCurrent(room) = ReachCurrent(conf)
      /\ room.contexts[conf.current].user # Prev
      /\ room.contexts[conf.current].cluster # Prev
      /\ \A c \in Others : room.contexts[c] # None => room.contexts[c].cluster # Prev
  BY <1>2, MakeRoomFacts, NameFacts DEF ReachCurrent, Contexts
<1> HIDE DEF room
<1>4. /\ put \in Kubeconfigs /\ Sound(put)
      /\ put.current = conf.current
      /\ ReachCurrent(put) = ReachCurrent(conf)
  BY <1>2, <1>3, PutTargetFacts, PutTargetKeepsCurrent
<1> HIDE DEF put
<1> QED
  BY <1>1, <1>2, <1>4, ActivateLeadsBack, NameFacts

-----------------------------------------------------------------------------
(* The specification *)

\* What a command's result is made of.
LEMMA ResultFacts ==
  ASSUME ContextInv, NEW p \in Procs, pc[p] \in {"write", "last"},
         Result(p).end = "done"
  PROVE  /\ base[p] \in Kubeconfigs /\ Sound(base[p])
         /\ Result(p).conf \in Kubeconfigs /\ Sound(Result(p).conf)
         /\ Result(p).last \in Contexts \cup {None}
<1>1. /\ base[p] \in Kubeconfigs /\ Sound(base[p]) /\ HasRoom(base[p])
      /\ last[p] \in Contexts \cup {None}
      /\ goal[p] \in Targets \cup {None}
  BY DEF ContextInv, TypeOK
<1>2. CASE goal[p] = None
  BY <1>1, <1>2, ActivateFacts DEF Result
<1>3. CASE goal[p] # None
  BY <1>1, <1>3, UpsertFacts DEF Result
<1> QED
  BY <1>2, <1>3

\* What one command makes of a kubeconfig leads back.
LEMMA ResultLeadsBack ==
  ASSUME ContextInv, NEW p \in Procs, pc[p] \in {"write", "last"},
         Result(p).end = "done", Plain(base[p]), ReachCurrent(base[p]) # None
  PROVE  LET back == Activate(Result(p).conf, Result(p).last)
         IN  /\ \E c \in Contexts : Reach(Result(p).conf, c) = ReachCurrent(base[p])
             /\ back.end = "done"
             /\ ReachCurrent(back.conf) = ReachCurrent(base[p])
<1>1. /\ base[p] \in Kubeconfigs /\ Sound(base[p]) /\ HasRoom(base[p])
      /\ last[p] \in Contexts \cup {None}
      /\ goal[p] \in Targets \cup {None}
  BY DEF ContextInv, TypeOK
<1>2. CASE goal[p] = None
  BY <1>1, <1>2, ActivateLeadsBack DEF Result, Plain
<1>3. CASE goal[p] # None
  BY <1>1, <1>3, UpsertLeadsBack DEF Result
<1> QED
  BY <1>2, <1>3

LEMMA InitContextInv == Init => ContextInv
<1> SUFFICES ASSUME Init PROVE ContextInv
  OBVIOUS
<1>1. Hub \in Contexts /\ Hub \in Entries /\ HubTarget \in Targets /\ HubTarget # None
  BY HubAssumption, NameFacts DEF Contexts
<1> DEFINE ref == [cluster |-> Hub, user |-> Hub]
<1>2. ref \in Refs /\ ref.cluster = Hub /\ ref.user = Hub
  BY <1>1 DEF Refs
<1> HIDE DEF ref
<1> DEFINE contexts == [n \in Contexts |-> IF n = Hub THEN ref ELSE None]
           entries == [n \in Entries |-> IF n = Hub THEN HubTarget ELSE None]
<1>3. PICK c \in {Hub, None} :
        file = [contexts |-> contexts, clusters |-> entries,
                users |-> entries, current |-> c]
  BY DEF Init, ref
<1>4. contexts \in [Contexts -> Refs \cup {None}]
  BY <1>2
<1>5. entries \in [Entries -> Targets \cup {None}]
  BY <1>1
<1>6. file \in Kubeconfigs
  BY <1>1, <1>3, <1>4, <1>5 DEF Kubeconfigs
<1>7. Sound(file)
  BY <1>1, <1>2, <1>3 DEF Sound
<1>8. TypeOK
  BY <1>6, BoundsAssumption DEF Init, TypeOK, Outcomes
<1> QED
  BY <1>7, <1>8 DEF ContextInv, NoDanglingRefs, Init

\* Ending a command forgets what the process knew.
LEMMA EndContextInv ==
  ASSUME ContextInv, NEW p \in Procs, NEW o \in Outcomes, End(p, o),
         file' \in Kubeconfigs, Sound(file'),
         lastFile' \in Contexts \cup {None}, home' \in Kubeconfigs \cup {None},
         UNCHANGED bounds
  PROVE  ContextInv'
<1>1. TypeOK'
  BY DEF ContextInv, TypeOK, End, bounds
<1>2. ASSUME NEW q \in Procs, pc'[q] \in {"write", "last"}
      PROVE  q # p /\ pc[q] = pc'[q] /\ base'[q] = base[q] /\ Result(q)' = Result(q)
  BY <1>2 DEF ContextInv, TypeOK, End, Result
<1> QED
  BY <1>1, <1>2 DEF ContextInv, NoDanglingRefs

LEMMA NextContextInv == ContextInv /\ [Next]_vars => ContextInv'
<1> SUFFICES ASSUME ContextInv, [Next]_vars PROVE ContextInv'
  OBVIOUS
<1> USE DEF files, bounds
<1>1. ASSUME NEW p \in Procs, NEW t \in Targets \cup {None}, Start(p, t)
      PROVE  ContextInv'
  <2>1. TypeOK'
    BY <1>1, BoundsAssumption DEF ContextInv, TypeOK, Start
  <2>2. ASSUME NEW q \in Procs, pc'[q] \in {"write", "last"}
        PROVE  pc[q] = pc'[q] /\ base'[q] = base[q] /\ Result(q)' = Result(q)
    BY <1>1, <2>2 DEF ContextInv, TypeOK, Start, Result
  <2> QED
    BY <1>1, <2>1, <2>2 DEF ContextInv, NoDanglingRefs, Start
<1>2. ASSUME NEW p \in Procs, Read(p)
      PROVE  ContextInv'
  <2>1. TypeOK'
    BY <1>2 DEF ContextInv, TypeOK, Read
  <2>2. ASSUME NEW q \in Procs, pc'[q] \in {"write", "last"}, q # p
        PROVE  pc[q] = pc'[q] /\ base'[q] = base[q] /\ Result(q)' = Result(q)
    BY <1>2, <2>2 DEF ContextInv, TypeOK, Read, Result
  <2>3. pc'[p] = "write" /\ base'[p] = file /\ file # None
    BY <1>2, KubeconfigsAssumption DEF ContextInv, TypeOK, Read
  <2> QED
    BY <1>2, <2>1, <2>2, <2>3 DEF ContextInv, NoDanglingRefs, Read
<1>3. ASSUME NEW p \in Procs, Write(p)
      PROVE  ContextInv'
  <2>1. /\ Result(p).conf \in Kubeconfigs /\ Sound(Result(p).conf)
    BY <1>3, ResultFacts DEF Write
  <2>2. TypeOK'
    BY <1>3, <2>1 DEF ContextInv, TypeOK, Write
  <2>3. ASSUME NEW q \in Procs
        PROVE  /\ base'[q] = base[q] /\ Result(q)' = Result(q)
               /\ q # p => pc'[q] = pc[q]
    BY <1>3 DEF ContextInv, TypeOK, Write, Result
  <2> QED
    BY <1>3, <2>1, <2>2, <2>3 DEF ContextInv, NoDanglingRefs, Write
<1>4. ASSUME NEW p \in Procs, Refuse(p)
      PROVE  ContextInv'
  BY <1>4, EndContextInv DEF Refuse, Outcomes, ContextInv, TypeOK, NoDanglingRefs
<1>5. ASSUME NEW p \in Procs, WriteLast(p)
      PROVE  ContextInv'
  <2>1. Result(p).end = "done" /\ Result(p).last \in Contexts \cup {None}
        /\ base[p] \in Kubeconfigs
    BY <1>5, ResultFacts DEF WriteLast, ContextInv
  <2>2. /\ lastFile' \in Contexts \cup {None}
        /\ home' \in Kubeconfigs \cup {None}
        /\ file' \in Kubeconfigs /\ Sound(file')
    BY <1>5, <2>1 DEF WriteLast, ContextInv, TypeOK, NoDanglingRefs
  <2>3. \E o \in Outcomes : End(p, o)
    BY <1>5 DEF WriteLast, Outcomes
  <2> QED
    BY <1>5, <2>2, <2>3, EndContextInv DEF WriteLast
<1>6. ASSUME NEW p \in Procs, Kill(p)
      PROVE  ContextInv'
  BY <1>6, EndContextInv DEF Kill, Outcomes, ContextInv, TypeOK, NoDanglingRefs
<1>7. ASSUME NEW conf \in Kubeconfigs, Sound(conf), Edit(conf)
      PROVE  ContextInv'
  <2>1. TypeOK'
    BY <1>7, BoundsAssumption DEF ContextInv, TypeOK, Edit
  <2>2. \A q \in Procs : Result(q)' = Result(q)
    BY <1>7 DEF Edit, Result
  <2> QED
    BY <1>7, <2>1, <2>2 DEF ContextInv, NoDanglingRefs, Edit
<1>8. file \in Kubeconfigs /\ Sound(file)
  BY DEF ContextInv, TypeOK, NoDanglingRefs
<1>9. ASSUME NEW c \in Contexts, UseContext(c)
      PROVE  ContextInv'
  <2>1. [file EXCEPT !.current = c] \in Kubeconfigs
    BY <1>8 DEF Kubeconfigs
  <2>2. Sound([file EXCEPT !.current = c])
    BY <1>8 DEF Kubeconfigs, Sound
  <2> QED  BY <1>7, <1>9, <2>1, <2>2 DEF UseContext
<1>10. ASSUME NEW c \in Contexts, DeleteContext(c)
       PROVE  ContextInv'
  <2>1. [file EXCEPT !.contexts[c] = None] \in Kubeconfigs
    BY <1>8 DEF Kubeconfigs
  <2>2. Sound([file EXCEPT !.contexts[c] = None])
    BY <1>8 DEF Kubeconfigs, Sound
  <2> QED  BY <1>7, <1>10, <2>1, <2>2 DEF DeleteContext
<1>11. ASSUME NEW c \in Contexts, NEW d \in Contexts, RenameContext(c, d)
       PROVE  ContextInv'
  <2> DEFINE new == [file EXCEPT !.contexts[d] = file.contexts[c],
                                 !.contexts[c] = None,
                                 !.current = IF @ = c THEN d ELSE @]
             current == IF file.current = c THEN d ELSE file.current
             contexts == [file.contexts EXCEPT ![d] = file.contexts[c], ![c] = None]
  <2>0. new = [contexts |-> contexts, clusters |-> file.clusters,
               users |-> file.users, current |-> current]
    <3>1. new = [file EXCEPT !.contexts[d] = file.contexts[c],
                             !.contexts[c] = None,
                             !.current = current]
      BY <1>8 DEF Kubeconfigs
    <3> HIDE DEF new, current
    <3> QED  BY <1>8, <3>1 DEF Kubeconfigs
  <2> HIDE DEF new
  <2>1. /\ new.contexts = contexts
        /\ new.clusters = file.clusters /\ new.users = file.users
        /\ new.current \in Contexts \cup {None}
        /\ new = [contexts |-> new.contexts, clusters |-> new.clusters,
                  users |-> new.users, current |-> new.current]
    BY <1>8, <2>0, Fields
  <2>2. new.contexts \in [Contexts -> Refs \cup {None}]
    BY <1>8, <2>1, Fields
  <2>3. new \in Kubeconfigs
    BY <1>8, <2>1, <2>2, Fields DEF Kubeconfigs
  <2>4. \A n \in Contexts : new.contexts[n] # None =>
          \E m \in Contexts : new.contexts[n] = file.contexts[m]
    BY <1>8, <2>1, Fields
  <2>5. Sound(new)
    BY <1>8, <2>1, <2>4 DEF Sound
  <2> QED  BY <1>7, <1>11, <2>3, <2>5 DEF RenameContext, new
<1>12. CASE UNCHANGED vars
  BY <1>12 DEF vars, ContextInv, TypeOK, NoDanglingRefs, Result
<1> QED
  BY <1>1, <1>2, <1>3, <1>4, <1>5, <1>6, <1>9, <1>10, <1>11, <1>12 DEF Next

LEMMA ContextInvariant == Spec => []ContextInv
BY InitContextInv, NextContextInv, PTL DEF Spec

\* Every variable keeps its type, whoever writes the two files in between.
THEOREM ContextTypeCorrect == Spec => []TypeOK
<1>1. ContextInv => TypeOK
  BY DEF ContextInv
<1> QED
  BY <1>1, ContextInvariant, PTL

\* No sequence of switches, back-switches and edits leaves a context that
\* refers to a cluster or a user that is not there.
THEOREM KubeconfigStaysSound == Spec => []NoDanglingRefs
<1>1. ContextInv => NoDanglingRefs
  BY DEF ContextInv
<1> QED
  BY <1>1, ContextInvariant, PTL

\* A switch makes its target the current context (mergeUpboundContext), from
\* whatever kubeconfig.
THEOREM SwitchAlwaysArrives == Spec => SwitchArrives
<1> DEFINE Step == \A p \in Procs : Write(p) /\ goal[p] # None =>
             file'.current = Dest /\ ReachCurrent(file') = <<goal[p], goal[p]>>
<1>1. ContextInv /\ [Next]_vars => [Step]_vars
  <2> SUFFICES ASSUME ContextInv, NEW p \in Procs, Write(p), goal[p] # None
               PROVE  file'.current = Dest
                      /\ ReachCurrent(file') = <<goal[p], goal[p]>>
    OBVIOUS
  <2>1. /\ base[p] \in Kubeconfigs /\ Sound(base[p]) /\ HasRoom(base[p])
        /\ goal[p] \in Targets
    BY DEF ContextInv, TypeOK, Write
  <2> QED
    BY <2>1, UpsertFacts DEF Write, Result, ReachCurrent
<1> QED
  BY <1>1, ContextInvariant, PTL DEF Spec, SwitchArrives

\* A switch moves none of the user's own contexts to another cluster, and a
\* switch back moves them neither to another cluster nor to another user.
THEOREM OthersAlwaysKeepTarget == Spec => OthersKeepTarget
<1> DEFINE Step == \A p \in Procs, c \in Others :
             Write(p) /\ base[p].contexts[c] # None =>
               /\ Reach(file', c) # None
               /\ Reach(file', c)[1] = Reach(base[p], c)[1]
               /\ goal[p] = None => Reach(file', c) = Reach(base[p], c)
<1>1. ContextInv /\ [Next]_vars => [Step]_vars
  <2> SUFFICES ASSUME ContextInv, NEW p \in Procs, NEW c \in Others,
                      Write(p), base[p].contexts[c] # None
               PROVE  /\ Reach(file', c) # None
                      /\ Reach(file', c)[1] = Reach(base[p], c)[1]
                      /\ goal[p] = None => Reach(file', c) = Reach(base[p], c)
    OBVIOUS
  <2>1. /\ base[p] \in Kubeconfigs /\ Sound(base[p]) /\ HasRoom(base[p])
        /\ goal[p] \in Targets \cup {None} /\ last[p] \in Contexts \cup {None}
    BY DEF ContextInv, TypeOK, Write
  <2>2. CASE goal[p] # None
    BY <2>1, <2>2, UpsertFacts DEF Write, Result
  <2>3. CASE goal[p] = None
    <3>1. Reach(file', c) = Reach(base[p], c)
      BY <2>1, <2>3, ActivateFacts DEF Write, Result
    <3>2. c \in Contexts /\ c # None
      BY NameFacts DEF Contexts
    <3>3. Reach(base[p], c) \in Targets \X Targets
      BY <2>1, <3>2, Fields DEF Reach, Sound
    <3> QED
      BY <2>3, <3>1, <3>3, NamesAssumption
  <2> QED
    BY <2>2, <2>3
<1> QED
  BY <1>1, ContextInvariant, PTL DEF Spec, OthersKeepTarget

\* The first of the two writes keeps the context the command leaves behind.
THEOREM LeftBehindIsAlwaysKept == Spec => LeftBehindIsKept
<1> DEFINE Step == \A p \in Procs :
             Write(p) /\ Plain(base[p]) /\ ReachCurrent(base[p]) # None =>
               \E c \in Contexts : Reach(file', c) = ReachCurrent(base[p])
<1>1. ContextInv /\ [Next]_vars => [Step]_vars
  BY ResultLeadsBack DEF Write
<1> QED
  BY <1>1, ContextInvariant, PTL DEF Spec, LeftBehindIsKept

\* RoundTrip by itself is no step's business but the second write's: no other
\* step that keeps `home` touches either file.
LEMMA NextRoundTrip == ContextInv /\ RoundTrip /\ [Next]_vars => RoundTrip'
<1> SUFFICES ASSUME ContextInv, RoundTrip, [Next]_vars, home' # None,
                    Plain(home'), ReachCurrent(home') # None
             PROVE  LeadsBack'
  BY DEF RoundTrip
<1>1. CASE home' = home /\ UNCHANGED files
  BY <1>1 DEF RoundTrip, LeadsBack, files
<1>2. ASSUME NEW p \in Procs, WriteLast(p), home' = base[p],
             file = Result(p).conf, lastFile' = Result(p).last, UNCHANGED file
      PROVE  LeadsBack'
  <2>1. pc[p] = "last" /\ Result(p).end = "done"
    BY <1>2 DEF WriteLast, ContextInv
  <2>2. LET back == Activate(Result(p).conf, Result(p).last)
        IN  back.end = "done" /\ ReachCurrent(back.conf) = ReachCurrent(base[p])
    BY <1>2, <2>1, ResultLeadsBack
  <2> QED
    BY <1>2, <2>2 DEF LeadsBack
<1>3. ASSUME NEW p \in Procs, WriteLast(p)
      PROVE  LeadsBack'
  BY <1>2, <1>3 DEF WriteLast
<1>4. ASSUME NEW p \in Procs, NEW t \in Targets \cup {None},
             Start(p, t) \/ Read(p) \/ Refuse(p) \/ Kill(p)
      PROVE  home' = home /\ UNCHANGED files
  BY <1>4 DEF Start, Read, Refuse, Kill
<1>5. \A p \in Procs : ~Write(p)
  BY DEF Write
<1>6. \A conf : ~Edit(conf)
  BY DEF Edit
<1>7. CASE UNCHANGED vars
  BY <1>1, <1>7 DEF vars
<1> QED
  BY <1>1, <1>3, <1>4, <1>5, <1>6, <1>7
     DEF Next, UseContext, RenameContext, DeleteContext

\* `up ctx -` leads back to where the command before it began, as long as
\* nobody else has written either file, for any number of commands.
THEOREM RoundTripLeadsBack == Spec => []RoundTrip
<1>1. Init => RoundTrip
  BY DEF Init, RoundTrip
<1> QED
  BY <1>1, NextRoundTrip, ContextInvariant, PTL DEF Spec

=============================================================================
