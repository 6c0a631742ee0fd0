---------------------------- MODULE PackageCache ----------------------------
(***************************************************************************)
(* The cache of packages below ~/.up/cache and the choice of versions: a   *)
(* directory per package and version, whose package.json is written record *)
(* by record.  Data and operators only: LanguageServer has the processes.  *)
(***************************************************************************)
EXTENDS Integers, Sequences, FiniteSets

CONSTANTS
    Packages, Versions,     \* Versions are numbered as semver orders them
    PackageDeps,            \* [Keys -> Seq(Dependencies)]: dependsOn of a package
    Objects                 \* number of CRDs, XRDs and compositions of a package

Keys == Packages \X Versions

\* A dependency: a package and the versions its constraint allows.
Dependencies == [pkg : Packages, allowed : SUBSET Versions]

ASSUME PackagesAssumption ==
    /\ Versions \subseteq Nat \ {0}
    /\ \A some \in SUBSET Versions : some # {} => \E v \in some : \A w \in some : w <= v
    /\ PackageDeps \in [Keys -> Seq(Dependencies)]
    /\ Objects \in Nat \ {0}

\* A directory of the cache and the records of its package.json; each record
\* has the digest of the image it came from.  Files written beside
\* package.json are never read again.
NoEntry == [dir |-> FALSE, file |-> FALSE, json |-> <<>>]
Cleaned(entry) == [entry EXCEPT !.file = FALSE, !.json = <<>>]
Created(digest) == [dir |-> TRUE, file |-> TRUE, json |-> <<[kind |-> "image", digest |-> digest]>>]
Appended(entry, kind, digest) ==
    [dir |-> TRUE, file |-> TRUE, json |-> Append(entry.json, [kind |-> kind, digest |-> digest])]

Count(entry, kind) == Cardinality({i \in DOMAIN entry.json : entry.json[i].kind = kind})

\* A package is read if it has exactly one meta object; objects it lacks do
\* not show.  The last image record gives the digest.
Parses(entry) == Count(entry, "meta") = 1

ImageDigest(entry) ==
    LET images == {i \in DOMAIN entry.json : entry.json[i].kind = "image"}
    IN  IF images = {} THEN 0
        ELSE entry.json[CHOOSE i \in images : \A j \in images : j <= i].digest

\* All records, of one image.
WholeEntry(entry) ==
    /\ Parses(entry)
    /\ Count(entry, "object") = Objects
    /\ \A i \in DOMAIN entry.json : entry.json[i].digest = ImageDigest(entry)

Newest(versions) == CHOOSE v \in versions : \A w \in versions : w <= v

\* The versions a dependency can have: tags in the registry, directories in
\* the cache.
Tags(registry, d) == {v \in d.allowed : registry[<<d.pkg, v>>] # 0}
CachedVersions(cache, d) == {v \in d.allowed : cache[<<d.pkg, v>>].dir}
=============================================================================
