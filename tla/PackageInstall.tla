--------------------------- MODULE PackageInstall ---------------------------
(***************************************************************************)
(* `up controlplane provider install` and `configuration install`: the     *)
(* package is made in the control plane, and with --wait its command       *)
(* watches the packages of that kind until one is installed and healthy,   *)
(* or until the API server ends the watch.                                 *)
(***************************************************************************)
EXTENDS Naturals, SequencesExt

CONSTANTS
    PackageNames, \* names of packages of the one kind
    Installs,     \* bound: commands
    MaxConditions \* bound: what controllers and other users do to packages

ASSUME PackageInstallAssumption == MaxConditions \in Nat /\ IsFiniteSet(PackageNames)

VARIABLES
    present,     \* a function of the packages that exist: the conditions that are true
    installs,     \* [Installs -> the command: its step, package and whether its watch ended]
    events,       \* [Installs -> events of its watch that were not read]
    wasHealthy,   \* [Installs -> packages that were healthy while its watch was on]
    conditionChanges  \* so far

packageInstallVars == <<present, installs, events, wasHealthy, conditionChanges>>

Conditions == {"Installed", "Healthy"}
Event(p, conditions) == [name |-> p, conditions |-> conditions]
\* What a server that cannot go on sends, which is not a package.
Status == Event("", {})

InstalledAndHealthy(conditions) == {"Installed", "Healthy"} \subseteq conditions
Watching(i) == installs[i].step = "waiting" /\ ~installs[i].ended
Without(f, p) == [q \in DOMAIN f \ {p} |-> f[q]]

PackageInstallInit ==
    /\ present \in UNION {[S -> SUBSET Conditions] : S \in SUBSET PackageNames}
    /\ installs = [i \in Installs |-> [step |-> "ready", name |-> "", ended |-> FALSE]]
    /\ events = [i \in Installs |-> <<>>]
    /\ wasHealthy = [i \in Installs |-> {}]
    /\ conditionChanges = 0

\* Every watch is told of every package of the kind.
Tell(p, conditions) ==
    /\ events' = [i \in Installs |-> IF Watching(i) THEN Append(events[i], Event(p, conditions)) ELSE events[i]]
    /\ wasHealthy' = [i \in Installs |->
           wasHealthy[i] \union {q \in {p} : Watching(i) /\ InstalledAndHealthy(conditions)}]

\* A name that is taken is an error, as is an answer that is lost.
Create(i, p, wait) ==
    /\ installs[i].step = "ready"
    /\ \/ /\ p \notin DOMAIN present
          /\ present' = [q \in DOMAIN present \union {p} |-> IF q = p THEN {} ELSE present[q]]
          /\ Tell(p, {})
          /\ \E step \in {IF wait THEN "created" ELSE "installed", "failed"} :
                installs' = [installs EXCEPT ![i].step = step, ![i].name = p]
       \/ /\ installs' = [installs EXCEPT ![i].step = "failed", ![i].name = p]
          /\ UNCHANGED <<present, events, wasHealthy>>
    /\ UNCHANGED conditionChanges

\* A watch begins with the packages there are.
Watch(i) ==
    /\ installs[i].step = "created"
    /\ \/ /\ installs' = [installs EXCEPT ![i].step = "waiting"]
          /\ \E order \in SetToSeqs(DOMAIN present) :
                events' = [events EXCEPT ![i] = [n \in DOMAIN order |-> Event(order[n], present[order[n]])]]
          /\ wasHealthy' = [wasHealthy EXCEPT ![i] = {p \in DOMAIN present : InstalledAndHealthy(present[p])}]
       \/ /\ installs' = [installs EXCEPT ![i].step = "failed"]
          /\ UNCHANGED <<events, wasHealthy>>
    /\ UNCHANGED <<present, conditionChanges>>

\* What is not a package is passed over; the type of an event is not read.
ReadEvent(i) ==
    /\ installs[i].step = "waiting" /\ events[i] # <<>>
    /\ events' = [events EXCEPT ![i] = Tail(@)]
    /\ installs' = IF InstalledAndHealthy(Head(events[i]).conditions)
                   THEN [installs EXCEPT ![i].step = "healthy"] ELSE installs
    /\ UNCHANGED <<present, wasHealthy, conditionChanges>>

ReadEndAsSuccess(i) == \* Mutant: the channel of errors is closed before the error is sent
    /\ installs[i].step = "waiting" /\ installs[i].ended /\ events[i] = <<>>
    /\ installs' = [installs EXCEPT ![i].step = "healthy"]
    /\ UNCHANGED <<present, events, wasHealthy, conditionChanges>>

ReadEnd(i) ==
    /\ installs[i].step = "waiting" /\ installs[i].ended /\ events[i] = <<>>
    /\ installs' = [installs EXCEPT ![i].step = "closed"]
    /\ UNCHANGED <<present, events, wasHealthy, conditionChanges>>

\* The API server: the timeout it was given is over, or the connection is.
\* What was on its way may be lost.
EndWatch(i) ==
    /\ Watching(i)
    /\ installs' = [installs EXCEPT ![i].ended = TRUE]
    /\ \E n \in 0 .. Len(events[i]), last \in {<<>>, <<Status>>} :
          events' = [events EXCEPT ![i] = SubSeq(@, 1, n) \o last]
    /\ UNCHANGED <<present, wasHealthy, conditionChanges>>

\* The package manager, or someone else.
Change(p) ==
    /\ conditionChanges < MaxConditions /\ p \in DOMAIN present
    /\ conditionChanges' = conditionChanges + 1
    /\ \E conditions \in (SUBSET Conditions) \ {present[p]} :
          present' = [present EXCEPT ![p] = conditions] /\ Tell(p, conditions)
    /\ UNCHANGED installs

\* The event has the package as it was.
Delete(p) ==
    /\ conditionChanges < MaxConditions /\ p \in DOMAIN present
    /\ conditionChanges' = conditionChanges + 1
    /\ present' = Without(present, p)
    /\ Tell(p, present[p])
    /\ UNCHANGED installs

PackageInstallNext ==
    \/ \E i \in Installs : Watch(i) \/ ReadEvent(i) \/ ReadEnd(i) \/ EndWatch(i)
    \/ \E i \in Installs, p \in PackageNames, wait \in BOOLEAN : Create(i, p, wait)
    \/ \E p \in PackageNames : Change(p) \/ Delete(p)

PackageInstallSpec == PackageInstallInit /\ [][PackageInstallNext]_packageInstallVars
-----------------------------------------------------------------------------
(* A command says "installed and healthy" only if some package of the kind *)
(* was, while its watch was on: the end of a watch is no success, wherever *)
(* it meets the last events (watch.go, DynamicWatch).  That it is the      *)
(* package of the command is not said: the code asks no event for its name *)
(* (install.go:152-158), and a watch begins with all there are.            *)
SuccessWasSeen == \A i \in Installs : installs[i].step = "healthy" => wasHealthy[i] # {}
=============================================================================
