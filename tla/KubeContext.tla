---------------------------- MODULE KubeContext ----------------------------
(***************************************************************************)
(* `up ctx <target>` and `up ctx -` (cmd/up/ctx) against the two files     *)
(* they share with everybody: the kubeconfig and the last-context file.    *)
(* A command reads the kubeconfig once and works on that copy, for as long *)
(* as the user navigates; then it writes the whole kubeconfig, and then    *)
(* the last-context file.  Other commands and the user's own kubectl run   *)
(* in between, and a command may be killed between its two writes.         *)
(***************************************************************************)
EXTENDS Kubeconfig, Naturals

CONSTANTS
  Procs,        \* `up ctx` processes that may run at the same time
  Hub,          \* the user's own context the kubeconfig starts with
  HubTarget,    \* where it leads
  MaxCommands,  \* bound: `up ctx` commands
  MaxEdits      \* bound: kubectl commands in between

ASSUME HubAssumption == Hub \in Others /\ HubTarget \in Targets

ASSUME BoundsAssumption == MaxCommands \in Nat /\ MaxEdits \in Nat

VARIABLES
  file,       \* the kubeconfig
  lastFile,   \* the last-context file
  pc,         \* process -> its next step
  goal,       \* process -> the target of `up ctx <target>`, None for `-`
  last,       \* process -> what it read from the last-context file
  base,       \* process -> the kubeconfig it read
  outcome,    \* how the last command to end ended
  home,       \* the kubeconfig the last command to end began with, as long
              \* as nobody has written either file since; None otherwise
  commands, edits

files  == <<file, lastFile>>
bounds == <<commands, edits>>
vars   == <<files, pc, goal, last, base, outcome, home, bounds>>

Outcomes == {"none", "switched", "failed", "killed", "panicked"}

\* Every variable has its type; the kubeconfig is well formed after every
\* write, whoever interleaves.
TypeOK ==
  /\ file \in Kubeconfigs
  /\ lastFile \in Contexts \cup {None}
  /\ pc \in [Procs -> {"idle", "read", "write", "last"}]
  /\ goal \in [Procs -> Targets \cup {None}]
  /\ last \in [Procs -> Contexts \cup {None}]
  /\ base \in [Procs -> Kubeconfigs \cup {None}]
  /\ outcome \in Outcomes
  /\ home \in Kubeconfigs \cup {None}
  /\ commands \in 0..MaxCommands /\ edits \in 0..MaxEdits

-----------------------------------------------------------------------------
\* What the command of process p makes of the kubeconfig it has read.
Result(p) == IF goal[p] = None THEN Activate(base[p], last[p])
                               ELSE Upsert(base[p], goal[p])

\* A process ends its command and forgets what it read.
End(p, o) ==
  /\ pc' = [pc EXCEPT ![p] = "idle"]
  /\ goal' = [goal EXCEPT ![p] = None]
  /\ last' = [last EXCEPT ![p] = None]
  /\ base' = [base EXCEPT ![p] = None]
  /\ outcome' = o

\* `up ctx <target>` starts (t # None), or `up ctx -`, which reads the
\* last-context file first.
Start(p, t) ==
  /\ pc[p] = "idle"
  /\ commands < MaxCommands
  /\ commands' = commands + 1
  /\ pc' = [pc EXCEPT ![p] = "read"]
  /\ goal' = [goal EXCEPT ![p] = t]
  /\ last' = [last EXCEPT ![p] = IF t = None THEN lastFile ELSE None]
  /\ UNCHANGED <<files, base, outcome, home, edits>>

\* RawConfig: read once, cached in the process.
Read(p) ==
  /\ pc[p] = "read"
  /\ HasRoom(file)
  /\ base' = [base EXCEPT ![p] = file]
  /\ pc' = [pc EXCEPT ![p] = "write"]
  /\ UNCHANGED <<files, goal, last, outcome, home, bounds>>

\* The new kubeconfig replaces the file, unless activateContext returned an
\* error or the server behind the new context did not answer (verify,
\* DeriveState); a missing kubeconfig is dereferenced.
Write(p) ==
  /\ pc[p] = "write"
  /\ Result(p).end = "done"
  /\ file' = Result(p).conf
  /\ pc' = [pc EXCEPT ![p] = "last"]
  /\ home' = None
  /\ UNCHANGED <<lastFile, goal, last, base, outcome, bounds>>

Refuse(p) ==
  /\ pc[p] = "write"
  /\ \/ Result(p).end \in {"done", "error"} /\ End(p, "failed")
     \/ Result(p).end = "nil" /\ End(p, "panicked")
  /\ UNCHANGED <<files, home, bounds>>

\* The last-context file is written; a switch ignores a failure to do so,
\* and `up ctx -` reports it, with the kubeconfig switched already.
WriteLast(p) ==
  /\ pc[p] = "last"
  /\ \/ /\ lastFile' = Result(p).last
        /\ home' = IF file = Result(p).conf THEN base[p] ELSE None
        /\ End(p, "switched")
     \/ /\ UNCHANGED lastFile
        /\ home' = None
        /\ End(p, IF goal[p] = None THEN "failed" ELSE "switched")
  /\ UNCHANGED <<file, bounds>>

Kill(p) ==
  /\ pc[p] # "idle"
  /\ End(p, "killed")
  /\ UNCHANGED <<files, home, bounds>>

-----------------------------------------------------------------------------
(* kubectl config use-context, rename-context, delete-context *)

Edit(conf) ==
  /\ edits < MaxEdits
  /\ edits' = edits + 1
  /\ file' = conf
  /\ home' = None
  /\ UNCHANGED <<lastFile, pc, goal, last, base, outcome, commands>>

UseContext(c) ==
  /\ file.contexts[c] # None
  /\ Edit([file EXCEPT !.current = c])

RenameContext(c, d) ==
  /\ file.contexts[c] # None /\ file.contexts[d] = None
  /\ Edit([file EXCEPT !.contexts[d] = file.contexts[c],
                       !.contexts[c] = None,
                       !.current = IF @ = c THEN d ELSE @])

\* The current context may be deleted: its name stays.
DeleteContext(c) ==
  /\ file.contexts[c] # None
  /\ Edit([file EXCEPT !.contexts[c] = None])

-----------------------------------------------------------------------------
Init ==
  /\ \E c \in {Hub, None} :
       file = [contexts |-> [n \in Contexts |->
                 IF n = Hub THEN [cluster |-> Hub, user |-> Hub] ELSE None],
               clusters |-> [n \in Entries |-> IF n = Hub THEN HubTarget ELSE None],
               users    |-> [n \in Entries |-> IF n = Hub THEN HubTarget ELSE None],
               current  |-> c]
  /\ lastFile = None
  /\ pc = [p \in Procs |-> "idle"]
  /\ goal = [p \in Procs |-> None]
  /\ last = [p \in Procs |-> None]
  /\ base = [p \in Procs |-> None]
  /\ outcome = "none" /\ home = None
  /\ commands = 0 /\ edits = 0

Next ==
  \/ \E p \in Procs :
       \/ \E t \in Targets \cup {None} : Start(p, t)
       \/ Read(p) \/ Write(p) \/ Refuse(p) \/ WriteLast(p) \/ Kill(p)
  \/ \E c \in Contexts :
       \/ UseContext(c) \/ DeleteContext(c)
       \/ \E d \in Contexts : RenameContext(c, d)

Spec == Init /\ [][Next]_vars

-----------------------------------------------------------------------------
(* Properties *)

\* No write leaves a context that refers to a cluster or a user that is not
\* there: every swap moves the references with the entries.
NoDanglingRefs == Sound(file)

\* The inductive strengthening: what a command works on is as sound as what
\* it read, and it got to its second write only with a kubeconfig to write.
ContextInv ==
  /\ TypeOK
  /\ NoDanglingRefs
  /\ \A p \in Procs :
       /\ pc[p] \in {"write", "last"} =>
            base[p] # None /\ Sound(base[p]) /\ HasRoom(base[p])
       /\ pc[p] = "last" => Result(p).end = "done"

\* `up ctx <target>` makes the target the current context, under any
\* kubeconfig it may have found.
SwitchArrives ==
  [][ \A p \in Procs : Write(p) /\ goal[p] # None =>
        file'.current = Dest /\ ReachCurrent(file') = <<goal[p], goal[p]>> ]_vars

\* The user's own contexts still reach the cluster they reached in the
\* kubeconfig the command read, and after `up ctx -` as the same user.
OthersKeepTarget ==
  [][ \A p \in Procs, c \in Others :
        Write(p) /\ base[p].contexts[c] # None =>
          /\ Reach(file', c) # None
          /\ Reach(file', c)[1] = Reach(base[p], c)[1]
          /\ goal[p] = None => Reach(file', c) = Reach(base[p], c) ]_vars

\* A kubeconfig `up ctx` itself would leave: the current context is not the
\* previous one, and nobody else goes by the user called Prev.
Plain(conf) ==
  /\ conf.current # Prev
  /\ \A c \in Contexts \ {Prev} :
       conf.contexts[c] # None => conf.contexts[c].user # Prev

\* The context left behind is still in the kubeconfig once the first of the
\* two writes is done: a command killed before the second one loses nothing.
LeftBehindIsKept ==
  [][ \A p \in Procs :
        Write(p) /\ Plain(base[p]) /\ ReachCurrent(base[p]) # None =>
          \E c \in Contexts : Reach(file', c) = ReachCurrent(base[p]) ]_vars

\* `up ctx -` leads back to where the command before began.
LeadsBack ==
  LET back == Activate(file, lastFile)
  IN  back.end = "done" /\ ReachCurrent(back.conf) = ReachCurrent(home)

RoundTrip ==
  home # None =>
    (Plain(home) /\ ReachCurrent(home) # None => LeadsBack)

\* What the command's help says: "'-' for the previous context".
DashIsPrevious ==
  home # None => (ReachCurrent(home) # None => LeadsBack)

\* What TestSwapContext says of a kubeconfig whose current context is gone:
\* the switch succeeds.  It never dereferences a missing kubeconfig.
NeverPanics == outcome # "panicked"

=============================================================================
