---------------------------- MODULE SpaceMirror ----------------------------
(***************************************************************************)
(* `up space mirror`: every artifact that a version of Spaces needs is     *)
(* saved to a directory or copied to a registry, one after the other.      *)
(***************************************************************************)
EXTENDS Naturals, SequencesExt

CONSTANTS
    SpaceVersions,   \* Spaces versions that are asked for
    Semver,          \* [SpaceVersions -> [minor, pre]]
    ChartTags,       \* versions the registry of Upbound has a chart of
    SubResources,    \* sequence of the charts and images whose versions are values of the chart
    Values,          \* [SpaceVersions -> [path of a value -> sequence of versions]]
    Images,          \* sequence of images, of a tag of their own or of the version
    MaxMirrors       \* bound: commands

ASSUME MirrorAssumption ==
    /\ ChartTags \subseteq SpaceVersions /\ MaxMirrors \in Nat
    /\ SubResources \in Seq(Range(SubResources)) /\ Images \in Seq(Range(Images))
    /\ \A v \in SpaceVersions, sub \in Range(SubResources) :
          Values[v][sub.path] \in Seq(Range(Values[v][sub.path]))

VARIABLES
    mirror,          \* the command: its step, its arguments and what it said at its end
    todo,            \* what is left of its work
    directory,       \* --to-dir: "absent", "file" or "there"
    saved,           \* a function of the files in it: "part" or "whole"
    mirrored,        \* --to: the artifacts in it
    mirrors

mirrorVars == <<mirror, todo, directory, saved, mirrored, mirrors>>

Artifact(name, tag) == <<name, tag>>
Job(do, of) == [do |-> do, of |-> of]

\* semver's Check refuses a pre-release; so it is checked again as its base.
Check(constraint, v) == Semver[v].minor \in constraint /\ ~Semver[v].pre
CheckPreRelease(constraint, v) == Semver[v].minor \in constraint

Include(image, v) ==
    "compatible" \in DOMAIN image => Check(image.compatible, v) \/ CheckPreRelease(image.compatible, v)

TagOf(image, v) == IF "tag" \in DOMAIN image THEN image.tag ELSE v

\* The chart; then what its values name; then the images, of those that fit it.
MirrorWork(v) ==
    <<Job("mirror", Artifact("spaces", v))>>
    \o [n \in DOMAIN SubResources |-> Job("values", SubResources[n])]
    \o [n \in DOMAIN Images |-> Job("image", Images[n])]

\* The chart, if any, and the image, if any, of each version.
ChartAndImage(sub) ==
    (IF "chart" \in DOMAIN sub THEN <<sub.chart>> ELSE <<>>)
    \o (IF "image" \in DOMAIN sub THEN <<sub.image>> ELSE <<>>)

SubArtifacts(sub, v) ==
    LET named == ChartAndImage(sub)  versions == Values[v][sub.path]
    IN  [n \in 1 .. Len(named) * Len(versions) |->
            Job("mirror", Artifact(named[1 + ((n - 1) % Len(named))], versions[1 + ((n - 1) \div Len(named))]))]

SpaceMirrorInit ==
    /\ mirror = [step |-> "idle"] /\ todo = <<>>
    /\ directory \in {"absent", "file", "there"}
    /\ saved = <<>> /\ mirrored = {} /\ mirrors = 0

End(step, said) == mirror' = [mirror EXCEPT !.step = step, !.said = said]
File(a, size) == saved' = [b \in DOMAIN saved \union {a} |-> IF b = a THEN size ELSE saved[b]]

Run(v, toDir, to, dryRun) ==
    /\ mirror.step \notin {"checking", "scanning", "mirroring"} /\ mirrors < MaxMirrors
    /\ mirror' = [step |-> "checking", version |-> v, toDir |-> toDir, to |-> to, dryRun |-> dryRun, said |-> {}]
    /\ mirrors' = mirrors + 1 /\ todo' = <<>>
    /\ UNCHANGED <<directory, saved, mirrored>>

\* The directory is made even for a dry run.
CheckDirectory ==
    /\ mirror.step = "checking"
    /\ \/ mirror.toDir /\ End("failed", {}) /\ UNCHANGED directory
       \/ /\ mirror.toDir => directory # "file"
          /\ directory' = IF mirror.toDir THEN "there" ELSE directory
          /\ mirror' = [mirror EXCEPT !.step = "scanning"]
    /\ UNCHANGED <<todo, saved, mirrored, mirrors>>

ScanTags ==
    /\ mirror.step = "scanning"
    /\ \/ End("failed", {}) /\ UNCHANGED todo
       \/ /\ mirror.version \in ChartTags
          /\ todo' = MirrorWork(mirror.version)
          /\ mirror' = [mirror EXCEPT !.step = "mirroring"]
    /\ UNCHANGED <<directory, saved, mirrored, mirrors>>

Doing(do) == mirror.step = "mirroring" /\ todo # <<>> /\ Head(todo).do = do

GetValues ==
    /\ Doing("values")
    /\ \/ End("failed", {}) /\ UNCHANGED todo
       \/ /\ Values[mirror.version][Head(todo).of.path] # <<>>
          /\ todo' = SubArtifacts(Head(todo).of, mirror.version) \o Tail(todo)
          /\ UNCHANGED mirror
    /\ UNCHANGED <<directory, saved, mirrored, mirrors>>

\* Left out: a version that semver cannot parse is an error (mirror.go:185), and
\* an image whose constraint it cannot parse is passed over (:192); the tags of
\* the charts and the constraints of config.yaml are none of these.
SelectImage ==
    /\ Doing("image")
    /\ LET image == Head(todo).of
           job == Job("mirror", Artifact(image.image, TagOf(image, mirror.version)))
       IN  todo' = IF Include(image, mirror.version) THEN <<job>> \o Tail(todo) ELSE Tail(todo)
    /\ UNCHANGED <<mirror, directory, saved, mirrored, mirrors>>

SaveIfMissing == \* Mutant: a file that is there is not saved again
    /\ Doing("mirror") /\ mirror.toDir /\ ~mirror.dryRun
    /\ IF Head(todo).of \in DOMAIN saved THEN UNCHANGED saved ELSE File(Head(todo).of, "whole")
    /\ todo' = Tail(todo)
    /\ UNCHANGED <<mirror, directory, mirrored, mirrors>>

Save ==
    /\ Doing("mirror") /\ mirror.toDir /\ ~mirror.dryRun
    /\ File(Head(todo).of, "whole")
    /\ todo' = Tail(todo)
    /\ UNCHANGED <<mirror, directory, mirrored, mirrors>>

\* Without --to the name it is copied to is none.
Copy ==
    /\ Doing("mirror") /\ ~mirror.toDir /\ mirror.to /\ ~mirror.dryRun
    /\ mirrored' = mirrored \union {Head(todo).of}
    /\ todo' = Tail(todo)
    /\ UNCHANGED <<mirror, directory, saved, mirrors>>

PrintOnly ==
    /\ Doing("mirror") /\ mirror.dryRun
    /\ todo' = Tail(todo)
    /\ UNCHANGED <<mirror, directory, saved, mirrored, mirrors>>

\* An error, or the end of the process; a file that was being saved is cut short.
MirrorFails ==
    /\ Doing("mirror") /\ ~mirror.dryRun
    /\ End("failed", {})
    /\ \/ UNCHANGED saved
       \/ mirror.toDir /\ File(Head(todo).of, "part")
    /\ UNCHANGED <<todo, directory, mirrored, mirrors>>

SucceedMirror ==
    /\ mirror.step = "mirroring" /\ todo = <<>>
    /\ End("done", {m \in {"exported", "mirrored"} :
                       ~mirror.dryRun /\ (IF m = "exported" THEN mirror.toDir ELSE mirror.to)})
    /\ UNCHANGED <<todo, directory, saved, mirrored, mirrors>>

SpaceMirrorNext ==
    \/ CheckDirectory \/ ScanTags \/ GetValues \/ SelectImage \/ Save \/ Copy \/ PrintOnly \/ MirrorFails \/ SucceedMirror
    \/ \E v \in SpaceVersions, toDir \in BOOLEAN, to \in BOOLEAN, dryRun \in BOOLEAN : Run(v, toDir, to, dryRun)

SpaceMirrorSpec == SpaceMirrorInit /\ [][SpaceMirrorNext]_mirrorVars
-----------------------------------------------------------------------------
\* What config.yaml says a version needs; a pre-release needs what its base does.
Needed(v) ==
    {Artifact("spaces", v)}
    \union (UNION {{Artifact(sub[kind], t) : kind \in {"chart", "image"} \intersect DOMAIN sub, t \in Range(Values[v][sub.path])} :
                       sub \in Range(SubResources)})
    \union {Artifact(image.image, TagOf(image, v)) :
                image \in {i \in Range(Images) : "compatible" \in DOMAIN i => Semver[v].minor \in i.compatible}}

Said(m) == mirror.step = "done" /\ m \in mirror.said

(* After "Successfully exported" the directory has a whole file of every   *)
(* artifact, and after "Successfully mirrored" the registry has every      *)
(* artifact, whatever earlier commands left when they failed or were       *)
(* stopped, and whether the version is a release or not (mirror.go,        *)
(* mirrorArtifact; constraint.go).  With --to-dir as well as --to the      *)
(* command says both and has copied nothing (mirror.go:231 and :112).      *)
SuccessIsWhole ==
    /\ Said("exported") => \A a \in Needed(mirror.version) : a \in DOMAIN saved /\ saved[a] = "whole"
    /\ Said("mirrored") /\ ~mirror.toDir => Needed(mirror.version) \subseteq mirrored
=============================================================================
