---------------------------- MODULE BatchPublish ----------------------------
(***************************************************************************)
(* `up xpkg batch` (cmd/up/xpkg/batch.go): one goroutine per service       *)
(* builds, stores and pushes the packages of that service, the main        *)
(* goroutine collects their results, and a channel holds the slots that    *)
(* limit how many work at a time.  A push (PushImages in push.go, also all *)
(* of `up xpkg push`) writes one image per platform in goroutines of its   *)
(* own and then, for more than one, the index under the tag.  The registry *)
(* is external: a request may take effect although its answer is an error. *)
(***************************************************************************)
EXTENDS Naturals, FiniteSets

CONSTANTS
  Services,      \* the smaller providers
  Platforms,     \* the platforms a package may be built for
  Limits,        \* values of --concurrency; 0 is no limit
  PushRetry,     \* value of --push-retry
  UintSize       \* how many values a uint has (2^64 in the program)

ASSUME FamilyAssumption ==
  IsFiniteSet(Services) /\ IsFiniteSet(Platforms)

ASSUME FlagsAssumption ==
  /\ Limits \subseteq Nat
  /\ UintSize \in Nat \ {0} /\ PushRetry \in 0..(UintSize - 1)

VARIABLES
  platforms, limit, buildOnly, storing,   \* --platform, --concurrency,
                                          \* --build-only, --store-packages
  main,       \* what the main goroutine does next, or how the process ended
  slots,      \* free slots in the channel `concurrency`
  open,       \* the channel has not been closed
  pc,         \* service -> what its goroutine does next
  err,        \* service -> processService returned an error
  attempt,    \* service -> calls of PushImages so far
  image,      \* service -> platform -> where writing that image stands
  pending,    \* services whose result is in the channel chErr
  received,   \* services whose result the main goroutine has taken
  result,     \* services the error that Run returns speaks of
  archive,    \* service -> its package files: none, some of them, or all
  manifests,  \* registry: the <<service, platform>> images it has
  tag         \* registry: what a service's tag points to, old or new

flags    == <<platforms, limit, buildOnly, storing>>
channels == <<slots, open, pending>>
pushing  == <<attempt, image>>
registry == <<manifests, tag>>
vars == <<flags, main, channels, pc, err, pushing, received, result, archive, registry>>

Ended == {"exited", "panicked"}

\* Every variable has its type; a channel never holds more than its capacity.
TypeOK ==
  /\ platforms \in SUBSET Platforms /\ platforms # {}
  /\ limit \in Limits /\ buildOnly \in BOOLEAN /\ storing \subseteq Services
  /\ main \in {"fetch", "collect", "exit"} \cup Ended
  /\ slots \in 0..limit /\ open \in BOOLEAN
  /\ pc \in [Services -> {"ready", "build", "store", "push", "images", "index",
                          "report", "release", "done"}]
  /\ err \in [Services -> BOOLEAN]
  /\ attempt \in [Services -> 0..PushRetry + 1]
  /\ image \in [Services -> [Platforms -> {"todo", "writing", "ok", "failed"}]]
  /\ pending \subseteq Services /\ received \subseteq Services
  /\ result \subseteq Services
  /\ archive \in [Services -> {"none", "some", "all"}]
  /\ manifests \subseteq Services \X Platforms
  /\ tag \in [Services -> {"old", "new"}]

-----------------------------------------------------------------------------
(* The goroutine of service s *)

Running == main \notin Ended

At(s, here) == Running /\ main # "fetch" /\ pc[s] = here

Goto(s, there) == pc' = [pc EXCEPT ![s] = there]

\* tries := c.PushRetry + 1, in unsigned arithmetic.
Tries == (PushRetry + 1) % UintSize

Multi == Cardinality(platforms) > 1

\* Every service works while it holds a slot, if slots are limited.
Working == {s \in Services : pc[s] \notin {"ready", "done"}}

\* Mutant: a slot is awaited but not taken.
AcquireFree(s) ==
  /\ At(s, "ready")
  /\ limit = 0 \/ slots > 0
  /\ Goto(s, "build")
  /\ UNCHANGED <<flags, main, channels, err, pushing, received, result, archive, registry>>

Acquire(s) ==
  /\ At(s, "ready")
  /\ \/ limit = 0 /\ UNCHANGED slots
     \/ limit # 0 /\ slots > 0 /\ slots' = slots - 1
  /\ Goto(s, "build")
  /\ UNCHANGED <<flags, main, open, pending, err, pushing, received, result, archive, registry>>

\* processService returns with or without an error.
Return(s, failed) ==
  /\ Goto(s, "report")
  /\ err' = [err EXCEPT ![s] = failed]

\* Mutant: the error path gives the slot back as well as the deferred call.
BuildGivesBack(s) ==
  /\ At(s, "build")
  /\ \/ Goto(s, "store") /\ UNCHANGED <<err, slots>>
     \/ Return(s, TRUE) /\ slots' = slots + 1
  /\ UNCHANGED <<flags, main, open, pending, pushing, received, result, archive, registry>>

\* The image of each platform is built; any of them may fail.
Build(s) ==
  /\ At(s, "build")
  /\ \/ Goto(s, "store") /\ UNCHANGED err
     \/ Return(s, TRUE)
  /\ UNCHANGED <<flags, main, channels, pushing, received, result, archive, registry>>

\* What follows the packages: nothing with --build-only, or the first try.
Packed(s) ==
  IF buildOnly \/ Tries = 0 THEN Return(s, FALSE)
                            ELSE Goto(s, "push") /\ UNCHANGED err

\* Mutant: a package that could not be stored is pushed all the same.
StoreIgnoringErrors(s) ==
  /\ At(s, "store")
  /\ Packed(s)
  /\ archive' \in {archive, [archive EXCEPT ![s] = "all"]}
  /\ UNCHANGED <<flags, main, channels, pushing, received, result, registry>>

\* storePackage writes one file per platform and stops at the first error,
\* leaving the files it has created.
Store(s) ==
  /\ At(s, "store")
  /\ \/ s \notin storing /\ Packed(s) /\ UNCHANGED archive
     \/ s \in storing /\ Packed(s) /\ archive' = [archive EXCEPT ![s] = "all"]
     \/ /\ s \in storing
        /\ Return(s, TRUE)
        /\ \E a \in {"none", "some"} : archive' = [archive EXCEPT ![s] = a]
  /\ UNCHANGED <<flags, main, channels, pushing, received, result, registry>>

\* Mutant: the last retry is never made.
RetryOneLess(s) ==
  IF attempt'[s] + 1 >= Tries THEN Return(s, TRUE)
                              ELSE Goto(s, "push") /\ UNCHANGED err

\* An attempt fails: pushWithRetry tries again or gives up.
Retry(s) ==
  IF attempt'[s] = Tries THEN Return(s, TRUE)
                         ELSE Goto(s, "push") /\ UNCHANGED err

\* PushImages starts: the tag is parsed and the repository created if asked.
StartPush(s) ==
  /\ At(s, "push")
  /\ attempt' = [attempt EXCEPT ![s] = @ + 1]
  /\ image' = [image EXCEPT ![s] = [p \in Platforms |-> "todo"]]
  /\ \/ Goto(s, "images") /\ UNCHANGED err
     \/ Retry(s)
  /\ UNCHANGED <<flags, main, channels, received, result, archive, registry>>

-----------------------------------------------------------------------------
(* The goroutines of one push *)

\* The context of the group is cancelled by the first image that fails.
Cancelled(s) == \E p \in platforms : image[s][p] = "failed"

SetImage(s, p, there) == image' = [image EXCEPT ![s][p] = there]

Annotate(s, p) ==
  /\ At(s, "images")
  /\ image[s][p] = "todo"
  /\ \/ ~Cancelled(s) /\ SetImage(s, p, "writing")
     \/ SetImage(s, p, "failed")
  /\ UNCHANGED <<flags, main, channels, pc, err, attempt, received, result, archive, registry>>

\* The image is in the registry, under its digest or, alone, under the tag;
\* the answer may be lost or cancelled all the same.
ImageLands(s, p) ==
  /\ At(s, "images")
  /\ image[s][p] = "writing"
  /\ manifests' = manifests \cup {<<s, p>>}
  /\ tag' = IF Multi THEN tag ELSE [tag EXCEPT ![s] = "new"]
  /\ SetImage(s, p, "ok") \/ SetImage(s, p, "failed")
  /\ UNCHANGED <<flags, main, channels, pc, err, attempt, received, result, archive>>

ImageFails(s, p) ==
  /\ At(s, "images")
  /\ image[s][p] = "writing"
  /\ SetImage(s, p, "failed")
  /\ UNCHANGED <<flags, main, channels, pc, err, attempt, received, result, archive, registry>>

\* Mutant: the index does not wait for the images.
JoinEarly(s) ==
  /\ At(s, "images")
  /\ Goto(s, IF Multi THEN "index" ELSE "report")
  /\ UNCHANGED <<flags, main, channels, err, pushing, received, result, archive, registry>>

\* g.Wait: all goroutines have returned.
Join(s) ==
  /\ At(s, "images")
  /\ \A p \in platforms : image[s][p] \in {"ok", "failed"}
  /\ IF Cancelled(s) THEN attempt' = attempt /\ Retry(s)
     ELSE IF Multi THEN Goto(s, "index") /\ UNCHANGED <<err, attempt>>
     ELSE Return(s, FALSE) /\ UNCHANGED attempt
  /\ UNCHANGED <<flags, main, channels, image, received, result, archive, registry>>

\* remote.WriteIndex puts the index under the tag, with or without an answer,
\* or fails without an effect.
WriteIndex(s) ==
  /\ At(s, "index")
  /\ UNCHANGED attempt
  /\ \/ tag' = [tag EXCEPT ![s] = "new"] /\ (Return(s, FALSE) \/ Retry(s))
     \/ tag' = tag /\ Retry(s)
  /\ UNCHANGED <<flags, main, channels, image, received, result, archive, manifests>>

\* Mutant: a service that failed keeps its slot.
ReportLeak(s) ==
  /\ At(s, "report")
  /\ pending' = pending \cup {s}
  /\ Goto(s, IF limit = 0 \/ err[s] THEN "done" ELSE "release")
  /\ UNCHANGED <<flags, main, slots, open, err, pushing, received, result, archive, registry>>

\* The result is sent first; the deferred function gives the slot back
\* after that, and panics if the channel has been closed in between.
Report(s) ==
  /\ At(s, "report")
  /\ pending' = pending \cup {s}
  /\ Goto(s, IF limit = 0 THEN "done" ELSE "release")
  /\ UNCHANGED <<flags, main, slots, open, err, pushing, received, result, archive, registry>>

Release(s) ==
  /\ At(s, "release")
  /\ IF open THEN slots' = slots + 1 /\ Goto(s, "done") /\ UNCHANGED main
             ELSE main' = "panicked" /\ UNCHANGED <<slots, pc>>
  /\ UNCHANGED <<flags, open, pending, err, pushing, received, result, archive, registry>>

-----------------------------------------------------------------------------
(* The main goroutine *)

\* The base images are fetched, then the channels made and filled and the
\* goroutines started; a base image that is missing ends the command.
Fetch ==
  /\ main = "fetch"
  /\ \/ main' = "collect" /\ slots' = limit /\ open' = TRUE
     \/ main' = "exited" /\ UNCHANGED <<slots, open>>
  /\ UNCHANGED <<flags, pending, pc, err, pushing, received, result, archive, registry>>

Failures(s) == IF err[s] THEN {s} ELSE {}

\* Mutant: only the first error is kept.
CollectFirst(s) ==
  /\ main = "collect"
  /\ s \in pending
  /\ pending' = pending \ {s}
  /\ received' = received \cup {s}
  /\ result' = IF result = {} THEN Failures(s) ELSE result
  /\ UNCHANGED <<flags, main, slots, open, pc, err, pushing, archive, registry>>

Collect(s) ==
  /\ main = "collect"
  /\ s \in pending
  /\ pending' = pending \ {s}
  /\ received' = received \cup {s}
  /\ result' = result \cup Failures(s)
  /\ UNCHANGED <<flags, main, slots, open, pc, err, pushing, archive, registry>>

\* All results are in: Run's deferred calls close the channels and the
\* command exits with the result.
Close ==
  /\ main = "collect" /\ received = Services
  /\ main' = "exit" /\ open' = FALSE
  /\ UNCHANGED <<flags, slots, pending, pc, err, pushing, received, result, archive, registry>>

Exit ==
  /\ main = "exit"
  /\ main' = "exited"
  /\ UNCHANGED <<flags, channels, pc, err, pushing, received, result, archive, registry>>

-----------------------------------------------------------------------------
Init ==
  /\ platforms \in SUBSET Platforms /\ platforms # {}
  /\ limit \in Limits /\ buildOnly \in BOOLEAN /\ storing \in SUBSET Services
  /\ main = "fetch" /\ slots = 0 /\ open = FALSE
  /\ pc = [s \in Services |-> "ready"]
  /\ err = [s \in Services |-> FALSE]
  /\ attempt = [s \in Services |-> 0]
  /\ image = [s \in Services |-> [p \in Platforms |-> "todo"]]
  /\ pending = {} /\ received = {} /\ result = {}
  /\ archive = [s \in Services |-> "none"]
  /\ manifests = {} /\ tag = [s \in Services |-> "old"]

Work(s) ==
  \/ Acquire(s) \/ Build(s) \/ Store(s) \/ StartPush(s)
  \/ \E p \in platforms : Annotate(s, p) \/ ImageLands(s, p) \/ ImageFails(s, p)
  \/ Join(s) \/ WriteIndex(s) \/ Report(s) \/ Release(s)

Main == Fetch \/ Close \/ Exit \/ \E s \in Services : Collect(s)

Next == Main \/ \E s \in Services : Work(s)

Spec == Init /\ [][Next]_vars

\* Goroutines that can go on do, and a request to the registry is answered.
FairSpec == Spec /\ WF_vars(Main) /\ \A s \in Services : WF_vars(Work(s))

-----------------------------------------------------------------------------
(* Properties *)

Stored(s) == s \in storing => archive[s] = "all"

\* The tag of a service never points at an index some image of which the
\* registry lacks, whichever writes fail, are cancelled or tried again.
TagIsWhole ==
  \A s \in Services : tag[s] = "new" => {s} \X platforms \subseteq manifests

\* A package that was to be stored and could not be is not pushed.
StoredBeforePushed ==
  \A s \in Services, p \in Platforms : <<s, p>> \in manifests => Stored(s)

\* "Maximum number of packages to process concurrently."
WithinConcurrency == limit # 0 => Cardinality(Working) <= limit

\* Whoever the collected result does not name has succeeded: its packages are
\* stored and, unless only built, its tag has moved.
ResultIsHonest ==
  \A s \in received \ result :
    Stored(s) /\ (~buildOnly => tag[s] = "new")

Finished(s) == pc[s] \in {"report", "release", "done"}

\* "Number of retries when pushing a provider package fails": a service whose
\* packages were built and stored fails only after all of its attempts, and
\* does not succeed without one that does.
GivesUpLast ==
  \A s \in Services :
    /\ err[s] /\ attempt[s] > 0 => attempt[s] = PushRetry + 1
    /\ Finished(s) /\ ~err[s] /\ ~buildOnly => tag[s] = "new"

\* The batch processing fails only if a service failed: Run's error says
\* "processing of at least one smaller provider has failed".
FailsForAReason == main = "panicked" => result # {}

\* The inductive strengthening.  Slots: what is free and what is held add up
\* to at most the limit.
SlotsInv ==
  /\ main = "fetch" => slots = 0 /\ \A s \in Services : pc[s] = "ready"
  /\ limit # 0 => slots + Cardinality(Working) <= limit

\* Service: how far its goroutine is bounds its attempts and tells what is in
\* the registry and in its files.
ServiceInv(s) ==
  /\ pc[s] \in {"ready", "build", "store"} =>
       attempt[s] = 0 /\ \A p \in Platforms : <<s, p>> \notin manifests
  /\ pc[s] \in {"push", "images", "index"} =>
       Stored(s) /\ ~buildOnly /\ attempt[s] <= Tries
  /\ pc[s] = "push" => attempt[s] < Tries
  /\ pc[s] = "index" => {s} \X platforms \subseteq manifests
  /\ \A p \in platforms : image[s][p] = "ok" =>
       <<s, p>> \in manifests /\ (~Multi => tag[s] = "new")
  /\ err[s] => Finished(s) /\ attempt[s] \in {0, Tries}
  /\ Finished(s) /\ ~err[s] =>
       Stored(s) /\ (~buildOnly /\ Tries # 0 => tag[s] = "new")
  /\ pc[s] = "release" => limit # 0
  /\ s \in pending \cup received => pc[s] \in {"release", "done"}
  /\ s \in received /\ err[s] => s \in result

BatchInv ==
  /\ TypeOK /\ TagIsWhole /\ StoredBeforePushed /\ SlotsInv
  /\ \A s \in Services : ServiceInv(s)

\* The command ends.
Ends == <>(main \in Ended)

=============================================================================
