----------------------------- MODULE Kubeconfig -----------------------------
(***************************************************************************)
(* The kubeconfig as `up ctx` rewrites it (cmd/up/ctx/writer.go and        *)
(* cmd/up/ctx/cmd.go): named contexts that refer to named clusters and     *)
(* named users.  The operators are the program's pure functions on one     *)
(* kubeconfig in memory.  Dest is the context the command works on         *)
(* ("upbound", or --context) and Prev is Dest with the suffix "-previous"; *)
(* the same two names are used for contexts, clusters and users.           *)
(***************************************************************************)
CONSTANTS
  None,
  Dest, Prev,
  Others,    \* names the user's own contexts, clusters and users have
  Free,      \* "upbound-previous1", "upbound-previous2", ... (clusters only)
  Targets    \* what a context may lead to: a server, and who talks to it

Contexts == {Dest, Prev} \cup Others
Entries  == Contexts \cup Free

ASSUME NamesAssumption ==
  /\ Dest # Prev
  /\ {Dest, Prev} \cap (Others \cup Free) = {}
  /\ Others \cap Free = {}
  /\ None \notin Entries \cup Targets
  /\ None \notin [cluster : Entries, user : Entries]
  /\ None \notin Targets \X Targets

Refs == [cluster : Entries, user : Entries]

Kubeconfigs ==
  [contexts : [Contexts -> Refs \cup {None}],
   clusters : [Entries -> Targets \cup {None}],
   users    : [Entries -> Targets \cup {None}],
   current  : Contexts \cup {None}]

ASSUME KubeconfigsAssumption == None \notin Kubeconfigs

\* What a context leads to: the cluster's server and the user's credentials.
Reach(conf, c) ==
  IF c = None THEN None
  ELSE IF conf.contexts[c] = None THEN None
  ELSE <<conf.clusters[conf.contexts[c].cluster],
         conf.users[conf.contexts[c].user]>>

ReachCurrent(conf) == Reach(conf, conf.current)

\* Every context refers to a cluster and a user that are there.
Sound(conf) ==
  \A c \in Contexts : conf.contexts[c] # None =>
    /\ conf.clusters[conf.contexts[c].cluster] # None
    /\ conf.users[conf.contexts[c].user] # None

-----------------------------------------------------------------------------
(* activateContext *)

Flip(n) == CASE n = Prev -> Dest [] n = Dest -> Prev [] OTHER -> n

\* Mutant of SwapContexts: the displaced context is not kept as Prev.
SwapContextsForget(conf) ==
  [conf EXCEPT !.contexts[Dest] = conf.contexts[Prev],
               !.contexts[Prev] = None,
               !.current = Dest]

\* The context Prev becomes the context Dest; Dest takes its place only if it
\* was the current one, and is given up otherwise.
SwapContexts(conf) ==
  LET displaced == IF conf.current = Dest THEN conf.contexts[Dest] ELSE None
  IN  [conf EXCEPT !.contexts[Dest] = conf.contexts[Prev],
                   !.contexts[Prev] = displaced,
                   !.current = Dest]

\* If the new Dest refers to the cluster called Prev, the two clusters trade
\* names, and so does every reference to them.
SwapClusters(conf) ==
  IF conf.contexts[Dest].cluster # Prev THEN conf
  ELSE [conf EXCEPT
          !.clusters[Dest] = conf.clusters[Prev],
          !.clusters[Prev] = conf.clusters[Dest],
          !.contexts = [c \in Contexts |->
            IF conf.contexts[c] = None THEN None
            ELSE [conf.contexts[c] EXCEPT !.cluster = Flip(@)]]]

\* Mutant of SwapUsers: the references stay as they are.
SwapUsersOnly(conf) ==
  IF conf.contexts[Dest].user # Prev THEN conf
  ELSE [conf EXCEPT !.users[Dest] = conf.users[Prev],
                    !.users[Prev] = conf.users[Dest]]

SwapUsers(conf) ==
  IF conf.contexts[Dest].user # Prev THEN conf
  ELSE [conf EXCEPT
          !.users[Dest] = conf.users[Prev],
          !.users[Prev] = conf.users[Dest],
          !.contexts = [c \in Contexts |->
            IF conf.contexts[c] = None THEN None
            ELSE [conf.contexts[c] EXCEPT !.user = Flip(@)]]]

\* The three ways a call ends: a kubeconfig with the name to remember as the
\* last context; an error; no kubeconfig and no error.
Done(conf, last) == [end |-> "done", conf |-> conf, last |-> last]
Error            == [end |-> "error"]
NoConf           == [end |-> "nil"]

\* Mutant of Activate: the name of the current context is remembered, which
\* the swap has just given to another one.
ActivateStaleName(conf, source) ==
  CASE source # Prev ->
         Done([conf EXCEPT !.current = source], conf.current)
    [] source = Prev /\ conf.current = Prev -> NoConf
    [] OTHER ->
         IF conf.contexts[Prev] = None THEN Error
         ELSE Done(SwapUsers(SwapClusters(SwapContexts(conf))), conf.current)

\* activateContext(conf, source, Dest): any name but Prev becomes the current
\* context without a look at whether it exists.
Activate(conf, source) ==
  LET dangling(ref, entries) == ref = Prev /\ entries[Prev] = None
      displaced == /\ conf.current = Dest
                   /\ conf.contexts[Dest] # None
  IN  CASE source # Prev ->
             Done([conf EXCEPT !.current = source], conf.current)
        [] source = Prev /\ conf.current = Prev -> NoConf
        [] OTHER ->
             IF conf.contexts[Prev] = None THEN Error
             ELSE IF \/ dangling(conf.contexts[Prev].cluster, conf.clusters)
                     \/ dangling(conf.contexts[Prev].user, conf.users)
             THEN Error
             ELSE Done(SwapUsers(SwapClusters(SwapContexts(conf))),
                       IF displaced THEN Prev ELSE conf.current)

-----------------------------------------------------------------------------
(* mergeUpboundContext *)

\* The other contexts that refer to the cluster called Prev.
Tenants(conf) ==
  {c \in Contexts \ {Prev} : /\ conf.contexts[c] # None
                             /\ conf.contexts[c].cluster = Prev}

FreeNames(conf) == {n \in Free : conf.clusters[n] = None}

\* Bound: a free name is left.
HasRoom(conf) == FreeNames(conf) # {}

\* Mutants of MakeRoom: no room is made; the tenants move to a cluster that
\* is not there.
MakeNoRoom(conf) == conf

MakeRoomWithoutCopy(conf) ==
  LET free == CHOOSE n \in FreeNames(conf) : TRUE
  IN  [conf EXCEPT !.contexts = [c \in Contexts |->
         IF c \in Tenants(conf)
           THEN [conf.contexts[c] EXCEPT !.cluster = free]
           ELSE conf.contexts[c]]]

\* "make room for upbound-previous cluster": the tenants move to a copy.  Its
\* name is the free one with the lowest number; any free one will do here.
MakeRoom(conf) ==
  IF conf.clusters[Prev] = None \/ Tenants(conf) = {} THEN conf
  ELSE LET free == CHOOSE n \in FreeNames(conf) : TRUE
       IN  [conf EXCEPT
              !.clusters[free] = conf.clusters[Prev],
              !.contexts = [c \in Contexts |->
                IF c \in Tenants(conf)
                  THEN [conf.contexts[c] EXCEPT !.cluster = free]
                  ELSE conf.contexts[c]]]

\* The target goes into the context, the cluster and the user called Prev,
\* whoever else uses that user.  A current context called Prev is first
\* copied to Dest.
PutTarget(conf, t) ==
  LET here == conf.current = Prev
  IN  [conf EXCEPT
         !.clusters[Prev] = t,
         !.users[Prev] = t,
         !.contexts[Dest] = IF here THEN conf.contexts[Prev] ELSE @,
         !.contexts[Prev] = [cluster |-> Prev, user |-> Prev],
         !.current = IF here THEN Dest ELSE @]

\* upsertContext: merge, activate, and compare: a kubeconfig whose current
\* context has the name of the last one is dropped.  A missing current
\* context called Prev is dereferenced.
Upsert(conf, t) ==
  LET merged == Activate(PutTarget(MakeRoom(conf), t), Prev)
  IN  IF \/ conf.current = Prev /\ conf.contexts[Prev] = None
         \/ merged.end = "done" /\ merged.last = merged.conf.current
        THEN NoConf
        ELSE merged

=============================================================================
