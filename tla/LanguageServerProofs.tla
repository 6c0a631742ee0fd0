------------------------ MODULE LanguageServerProofs ------------------------
(***************************************************************************)
(* That what `up xpkg dep` has added stays whole in the cache, and that a   *)
(* language server with nothing left to do serves the packages and the text *)
(* there are, and shows what they lack; for any commands, packages, pushes, *)
(* kills and edits.  CacheInv says who is writing which entry and how far   *)
(* it has come; ServerInv, on top of it, that a snapshot, done or under     *)
(* way, is of the files as they are unless news of a change is under way.   *)
(***************************************************************************)
EXTENDS LanguageServer, FiniteSetTheorems, TLAPS

Record == [kind : {"image", "meta", "object"}, digest : Nat]
Entry == [dir : BOOLEAN, file : BOOLEAN, json : Seq(Record)]
FiniteDeps == {deps \in SUBSET Dependencies : IsFiniteSet(deps)}
Command == [step : Steps, todo : Seq(Dependencies), key : Keys \cup {NoKey}, first : Keys \cup {NoKey},
            digest : Nat, least : Nat, given : FiniteDeps]
Claim == [key : Keys, digest : Nat, least : Nat]

CacheTypes ==
    /\ registry \in [Keys -> Nat]
    /\ cache \in [Keys -> Entry]
    /\ depends \in SUBSET Dependencies /\ IsFiniteSet(depends)
    /\ command \in [DepCommands -> Command]
    /\ torn \in SUBSET Keys /\ claims \in SUBSET Claim

\* Command c is writing the entry.
Writes(c, key) == command[c].step \in Storing /\ command[c].key = key

\* The first n records of an entry, all of one image.
KindAt(i) == IF i = 1 THEN "image" ELSE IF i = 2 THEN "meta" ELSE "object"
Written(entry, n, digest) ==
    /\ entry.dir /\ entry.file
    /\ entry.json = [i \in 1 .. n |-> [kind |-> KindAt(i), digest |-> digest]]

\* How much of the entry command c has written.
Underway(c, entry) ==
    /\ entry.dir
    /\ command[c].step = "meta" => Written(entry, 1, command[c].digest)
    /\ command[c].step = "objects" => \E n \in 2 .. Objects + 1 : Written(entry, n, command[c].digest)
    /\ command[c].step = "mark" => Written(entry, Objects + 2, command[c].digest)

\* An entry that is not torn is one command's, or whole, or not there; one
\* that was claimed is whole and nobody's.
EntryInv(key) ==
    key \notin torn =>
        /\ \A c, d \in DepCommands : Writes(c, key) /\ Writes(d, key) => c = d
        /\ \A c \in DepCommands : Writes(c, key) => Underway(c, cache[key])
        /\ (\A c \in DepCommands : ~Writes(c, key)) =>
              ~cache[key].file \/ \E digest \in Nat : Written(cache[key], Objects + 2, digest)
        /\ \A claim \in claims : claim.key = key =>
              /\ \A c \in DepCommands : ~Writes(c, key)
              /\ Written(cache[key], Objects + 2, claim.digest)
              /\ claim.least <= claim.digest

Adding == {"get", "fetch", "clean"} \cup Storing

\* The digest a command has, or will find in the registry, is no older than
\* the one it asked for.
CommandInv(c) ==
    /\ command[c].step \in Adding => command[c].key \in Keys /\ command[c].todo # <<>>
    /\ command[c].step \in {"get", "fetch"} => command[c].least <= registry[command[c].key]
    /\ command[c].step \in {"clean"} \cup Storing => command[c].least <= command[c].digest
    /\ command[c].step = "resolve" /\ command[c].todo = <<>> /\ Wanted[c] # {} => command[c].first \in Keys

CacheInv ==
    /\ CacheTypes
    /\ \A key \in Keys : EntryInv(key)
    /\ \A c \in DepCommands : CommandInv(c)

-----------------------------------------------------------------------------
(* The entries of the cache *)

(* What can be read in an entry of n records. *)
LEMMA WrittenFacts ==
    ASSUME NEW entry, NEW n \in Nat, NEW digest \in Nat, Written(entry, n, digest), n >= 2
    PROVE  /\ Parses(entry)
           /\ Count(entry, "object") = n - 2
           /\ ImageDigest(entry) = digest
           /\ \A i \in DOMAIN entry.json : entry.json[i].digest = digest
<1>0. PICK json : json = entry.json
  OBVIOUS
<1>1. /\ DOMAIN json = 1 .. n
      /\ \A i \in 1 .. n : json[i].kind = KindAt(i) /\ json[i].digest = digest
  BY <1>0 DEF Written
<1>2. Parses(entry)
  <2>1. {i \in DOMAIN json : json[i].kind = "meta"} = {2}
    <3>1. \A i \in 1 .. n : KindAt(i) = "meta" <=> i = 2
      BY DEF KindAt
    <3>2. {i \in DOMAIN json : json[i].kind = "meta"} = {i \in 1 .. n : i = 2}
      BY <1>1, <3>1
    <3> QED
      BY <3>2
  <2>2. Cardinality({2}) = 1
    BY FS_Singleton
  <2> QED
    BY <1>0, <2>1, <2>2 DEF Parses, Count
<1>3. Count(entry, "object") = n - 2
  <2>1. {i \in DOMAIN json : json[i].kind = "object"} = 3 .. n
    <3>1. \A i \in 1 .. n : KindAt(i) = "object" <=> i >= 3
      BY DEF KindAt
    <3> QED
      BY <1>1, <3>1
  <2>2. Cardinality(3 .. n) = n - 2
    <3>1. Cardinality(3 .. n) = IF 3 > n THEN 0 ELSE n - 3 + 1
      BY FS_Interval
    <3> QED
      BY <3>1
  <2> QED
    BY <1>0, <2>1, <2>2 DEF Count
<1>4. ImageDigest(entry) = digest
  <2>1. {i \in DOMAIN json : json[i].kind = "image"} = {1}
    <3>1. \A i \in 1 .. n : KindAt(i) = "image" <=> i = 1
      BY DEF KindAt
    <3>2. {i \in DOMAIN json : json[i].kind = "image"} = {i \in 1 .. n : i = 1}
      BY <1>1, <3>1
    <3> QED
      BY <3>2
  <2>2. (CHOOSE i \in {1} : \A j \in {1} : j <= i) = 1
    OBVIOUS
  <2>3. ImageDigest(entry) = json[1].digest
    BY <1>0, <2>1, <2>2 DEF ImageDigest
  <2> QED
    BY <1>1, <2>3
<1> QED
  BY <1>0, <1>1, <1>2, <1>3, <1>4

(* Records are written one after the other. *)
LEMMA AppendFacts ==
    ASSUME NEW entry \in Entry, NEW digest \in Nat
    PROVE  /\ Created(digest) \in Entry /\ Written(Created(digest), 1, digest)
           /\ \A kind \in {"image", "meta", "object"} : Appended(entry, kind, digest) \in Entry
           /\ Written(entry, 1, digest) => Written(Appended(entry, "meta", digest), 2, digest)
           /\ \A n \in Nat : n >= 2 /\ Written(entry, n, digest) => Written(Appended(entry, "object", digest), n + 1, digest)
<1>1. Created(digest) \in Entry /\ Written(Created(digest), 1, digest)
  <2> DEFINE r == [kind |-> "image", digest |-> digest]
  <2>1. <<r>> \in Seq(Record) /\ <<r>> = [i \in 1 .. 1 |-> r] /\ KindAt(1) = "image"
    BY DEF Record, KindAt
  <2> QED
    BY <2>1 DEF Created, Entry, Written
<1>2. ASSUME NEW kind \in {"image", "meta", "object"}
      PROVE  Appended(entry, kind, digest) \in Entry
  <2>1. Append(entry.json, [kind |-> kind, digest |-> digest]) \in Seq(Record)
    BY DEF Entry, Record
  <2> QED
    BY <2>1 DEF Appended, Entry
<1>3. ASSUME NEW n \in Nat, NEW kind, Written(entry, n, digest), KindAt(n + 1) = kind
      PROVE  Written(Appended(entry, kind, digest), n + 1, digest)
  <2> DEFINE s == entry.json
             r == [kind |-> kind, digest |-> digest]
             t == [i \in 1 .. n + 1 |-> [kind |-> KindAt(i), digest |-> digest]]
  <2>1. s = [i \in 1 .. n |-> [kind |-> KindAt(i), digest |-> digest]]
    BY <1>3 DEF Written
  <2>2. s \in Seq(Record)
    BY DEF Entry
  <2>3. Len(s) = n
    BY <2>1, <2>2
  <2>4. Append(s, r) = t
    <3>1. Append(s, r) = [i \in 1 .. n + 1 |-> IF i = n + 1 THEN r ELSE s[i]]
      <4>1. /\ DOMAIN Append(s, r) = 1 .. n + 1 /\ \A i \in 1 .. n : Append(s, r)[i] = s[i]
            /\ Append(s, r)[n + 1] = r
        <5> HIDE DEF s, r
        <5> QED
          BY <2>2, <2>3
      <4>2. Append(s, r) = [i \in 1 .. n + 1 |-> Append(s, r)[i]]
        <5>1. Append(s, r) \in Seq(Record \cup {r})
          <6> HIDE DEF s, r
          <6>1. s \in Seq(Record \cup {r})
            BY <2>2
          <6> QED
            BY <6>1
        <5>2. PICK u : u = Append(s, r)
          OBVIOUS
        <5>3. u \in Seq(Record \cup {r}) /\ DOMAIN u = 1 .. n + 1
          BY <4>1, <5>1, <5>2
        <5>4. u = [i \in DOMAIN u |-> u[i]]
          BY <5>3
        <5> QED
          BY <5>2, <5>3, <5>4
      <4> QED
        BY <4>1, <4>2
    <3>2. \A i \in 1 .. n + 1 : (IF i = n + 1 THEN r ELSE s[i]) = [kind |-> KindAt(i), digest |-> digest]
      BY <1>3, <2>1
    <3> QED
      BY <3>1, <3>2
  <2> QED
    BY <2>4 DEF Appended, Written
<1>4. KindAt(1 + 1) = "meta" /\ \A n \in Nat : n >= 2 => KindAt(n + 1) = "object"
  BY DEF KindAt
<1> QED
  BY <1>1, <1>2, <1>3, <1>4

(* Of some versions there is a newest. *)
LEMMA NewestFacts ==
    ASSUME NEW some \in SUBSET Versions, some # {}
    PROVE  Newest(some) \in some
<1>1. \E v \in some : \A w \in some : w <= v
  BY PackagesAssumption
<1> QED
  BY <1>1 DEF Newest

(* A finite set in some order. *)
LEMMA InOrder ==
    ASSUME NEW S, IsFiniteSet(S)
    PROVE  /\ SetToSeq(S) \in Seq(S) /\ Range(SetToSeq(S)) = S
           /\ S # {} => SetToSeq(S) # <<>>
<1> DEFINE n == Cardinality(S)
           f == SetToSeq(S)
<1>1. n \in Nat /\ ExistsBijection(1 .. n, S)
  BY FS_CardinalityType
<1>2. \E g \in [1 .. n -> S] : IsInjective(g)
  <2>1. PICK g \in Bijection(1 .. n, S) : TRUE
    BY <1>1 DEF ExistsBijection
  <2> QED
    BY <2>1 DEF Bijection, Injection
<1>3. f \in [1 .. n -> S] /\ IsInjective(f)
  BY <1>2 DEF SetToSeq
<1>4. f \in Seq(S) /\ Len(f) = n /\ DOMAIN f = 1 .. n
  BY <1>1, <1>3
<1>5. Range(f) = S
  <2>1. f \in Injection(1 .. n, S)
    BY <1>3 DEF Injection, IsInjective
  <2>2. Cardinality(1 .. n) = Cardinality(S)
    <3>1. Cardinality(1 .. n) = IF 1 > n THEN 0 ELSE n - 1 + 1
      <4>1. 1 \in Int /\ n \in Int
        BY <1>1
      <4> QED
        BY <4>1, FS_Interval, Zenon
    <3> QED
      BY <1>1, <3>1
  <2>3. f \in Surjection(1 .. n, S)
    <3> HIDE DEF f, n
    <3> QED
      BY <2>1, <2>2, FS_Injection
  <2> QED
    BY <2>3 DEF Surjection, Range
<1>6. S # {} => f # <<>>
  <2>1. S # {} => n # 0
    BY FS_EmptySet
  <2> QED
    BY <1>1, <1>4, <2>1
<1> QED
  BY <1>4, <1>5, <1>6

(* What no step touches of an entry. *)
LEMMA EntryKept ==
    ASSUME NEW key, EntryInv(key), key \notin torn' => key \notin torn, cache'[key] = cache[key],
           \A claim \in claims' : claim.key = key => claim \in claims,
           \A c \in DepCommands : Writes(c, key)' <=> Writes(c, key),
           \A c \in DepCommands : Writes(c, key) => command'[c] = command[c]
    PROVE  EntryInv(key)'
<1> SUFFICES ASSUME key \notin torn' PROVE EntryInv(key)'
  BY DEF EntryInv
<1>1. /\ \A c, d \in DepCommands : Writes(c, key) /\ Writes(d, key) => c = d
      /\ \A c \in DepCommands : Writes(c, key) => Underway(c, cache[key])
      /\ (\A c \in DepCommands : ~Writes(c, key)) =>
            ~cache[key].file \/ \E digest \in Nat : Written(cache[key], Objects + 2, digest)
      /\ \A claim \in claims : claim.key = key =>
            /\ \A c \in DepCommands : ~Writes(c, key)
            /\ Written(cache[key], Objects + 2, claim.digest)
            /\ claim.least <= claim.digest
  BY DEF EntryInv
<1>2. \A c \in DepCommands : Writes(c, key)' => Underway(c, cache[key])'
  BY <1>1 DEF Underway
<1>3. /\ \A c, d \in DepCommands : Writes(c, key)' /\ Writes(d, key)' => c = d
      /\ (\A c \in DepCommands : ~Writes(c, key)') =>
            ~cache'[key].file \/ \E digest \in Nat : Written(cache'[key], Objects + 2, digest)
      /\ \A claim \in claims' : claim.key = key =>
            /\ \A c \in DepCommands : ~Writes(c, key)'
            /\ Written(cache'[key], Objects + 2, claim.digest)
            /\ claim.least <= claim.digest
  BY <1>1
<1> QED
  BY <1>2, <1>3 DEF EntryInv, Written

(* A step of one command, at one entry. *)
LEMMA OneStep ==
    ASSUME CacheInv, NEW c \in DepCommands, NEW m \in Command, NEW key \in Keys,
           command' = [command EXCEPT ![c] = m], registry' = registry,
           command[c].step \in Storing => command[c].key = key,
           m.step \in Storing => m.key = key,
           cache' \in [Keys -> Entry], torn' \in SUBSET Keys, claims' \in SUBSET Claim,
           depends' \in SUBSET Dependencies, IsFiniteSet(depends'),
           \A k \in Keys \ {key} : /\ cache'[k] = cache[k]
                                   /\ k \in torn' <=> k \in torn
                                   /\ \A claim \in claims' : claim.key = k => claim \in claims,
           EntryInv(key)', CommandInv(c)'
    PROVE  CacheInv'
<1>1. CacheTypes'
  BY DEF CacheInv, CacheTypes
<1>2. \A d \in DepCommands \ {c} : command'[d] = command[d]
  BY DEF CacheInv, CacheTypes
<1>3. command'[c] = m
  BY DEF CacheInv, CacheTypes
<1>4. ASSUME NEW k \in Keys, k # key PROVE EntryInv(k)'
  <2>1. ~Writes(c, k) /\ ~Writes(c, k)'
    BY <1>3, <1>4 DEF Writes
  <2>2. \A d \in DepCommands : /\ Writes(d, k)' <=> Writes(d, k)
                               /\ Writes(d, k) => command'[d] = command[d]
    BY <1>2, <2>1 DEF Writes
  <2>3. EntryInv(k)
    BY DEF CacheInv
  <2> QED
    BY <1>4, <2>2, <2>3, EntryKept
<1>5. ASSUME NEW d \in DepCommands, d # c PROVE CommandInv(d)'
  <2>1. command'[d] = command[d] /\ CommandInv(d)
    BY <1>2, <1>5 DEF CacheInv
  <2> QED
    BY <2>1 DEF CommandInv
<1> QED
  BY <1>1, <1>4, <1>5 DEF CacheInv

(* A step of a command that writes no entry, before or after. *)
LEMMA QuietStep ==
    ASSUME CacheInv, NEW c \in DepCommands, NEW m \in Command,
           command' = [command EXCEPT ![c] = m],
           command[c].step \notin Storing, m.step \notin Storing,
           UNCHANGED <<registry, cache, torn, claims>>,
           depends' \in SUBSET Dependencies, IsFiniteSet(depends'),
           CommandInv(c)'
    PROVE  CacheInv'
<1>1. CacheTypes'
  BY DEF CacheInv, CacheTypes
<1>2. \A d \in DepCommands \ {c} : command'[d] = command[d]
  BY DEF CacheInv, CacheTypes
<1>3. command'[c] = m
  BY DEF CacheInv, CacheTypes
<1>4. ASSUME NEW k \in Keys PROVE EntryInv(k)'
  <2>1. ~Writes(c, k) /\ ~Writes(c, k)'
    BY <1>3 DEF Writes
  <2>2. \A d \in DepCommands : /\ Writes(d, k)' <=> Writes(d, k)
                               /\ Writes(d, k) => command'[d] = command[d]
    BY <1>2, <2>1 DEF Writes
  <2>3. EntryInv(k)
    BY DEF CacheInv
  <2> QED
    BY <2>2, <2>3, EntryKept
<1>5. ASSUME NEW d \in DepCommands, d # c PROVE CommandInv(d)'
  <2>1. command'[d] = command[d] /\ CommandInv(d)
    BY <1>2, <1>5 DEF CacheInv
  <2> QED
    BY <2>1 DEF CommandInv
<1> QED
  BY <1>1, <1>4, <1>5 DEF CacheInv

(* A command's record. *)
LEMMA CommandFacts ==
    ASSUME CacheInv, NEW c \in DepCommands
    PROVE  /\ command[c] \in Command /\ CommandInv(c)
           /\ Idle \in Command
           /\ \A step \in Steps : /\ [command[c] EXCEPT !.step = step] \in Command
                                  /\ [Idle EXCEPT !.step = step] \in Command
<1>1. command[c] \in Command /\ CommandInv(c)
  BY DEF CacheInv, CacheTypes
<1>2. <<>> \in Seq(Dependencies) /\ {} \in FiniteDeps
  BY FS_EmptySet DEF FiniteDeps
<1>3. Idle \in Command
  BY <1>2 DEF Idle, Command, Steps
<1>4. \A step \in Steps : [command[c] EXCEPT !.step = step] \in Command
  BY <1>1 DEF Command
<1>5. \A step \in Steps : [Idle EXCEPT !.step = step] \in Command
  BY <1>3 DEF Command
<1> QED
  BY <1>1, <1>3, <1>4, <1>5

(* A command that ends, or fails, writing nothing. *)
LEMMA StopStep ==
    ASSUME CacheInv, NEW c \in DepCommands, NEW step \in {"ended", "failed"}, Stop(c, step),
           command[c].step \notin Storing, UNCHANGED <<registry, cache, torn, claims>>,
           depends' \in SUBSET Dependencies, IsFiniteSet(depends')
    PROVE  CacheInv'
<1>1. command' = [command EXCEPT ![c] = [Idle EXCEPT !.step = step]] /\ [Idle EXCEPT !.step = step] \in Command
  BY CommandFacts DEF Stop, Steps
<1>2. [Idle EXCEPT !.step = step].step = step
  BY DEF Idle
<1>3. command'[c].step = step
  BY <1>1, <1>2 DEF CacheInv, CacheTypes
<1>4. CommandInv(c)'
  BY <1>3 DEF CommandInv, Adding, Storing
<1> QED
  BY <1>1, <1>2, <1>4, QuietStep DEF Storing

-----------------------------------------------------------------------------
(* The steps of a command *)

(* A command begins, with the cache to be emptied or packages to be added. *)
LEMMA RunInv ==
    ASSUME CacheInv, NEW c \in DepCommands, RunDep(c)
    PROVE  CacheInv'
<1>1. /\ UNCHANGED <<registry, cache, torn, claims, depends>> /\ command[c].step = "idle"
      /\ depends \in SUBSET Dependencies /\ IsFiniteSet(depends)
  BY DEF RunDep, cacheVars, CacheInv, CacheTypes
<1>2. command[c].step \notin Storing
  BY <1>1 DEF Storing
<1>3. CASE Step(c, "cleaning")
  <2>1. [command[c] EXCEPT !.step = "cleaning"] \in Command
    BY CommandFacts DEF Steps
  <2>2. command' = [command EXCEPT ![c] = [command[c] EXCEPT !.step = "cleaning"]]
    BY <1>3 DEF Step
  <2>3. command'[c].step = "cleaning"
    BY <2>1, <2>2 DEF CacheInv, CacheTypes, Command
  <2>4. CommandInv(c)'
    BY <2>3 DEF CommandInv, Adding, Storing
  <2>5. [command[c] EXCEPT !.step = "cleaning"].step \notin Storing
    BY <2>2, <2>3 DEF CacheInv, CacheTypes, Storing
  <2> QED
    BY <1>1, <1>2, <2>1, <2>2, <2>4, <2>5, QuietStep
<1>4. CASE ~Step(c, "cleaning")
  <2> DEFINE asked == IF Wanted[c] # {} THEN Wanted[c] ELSE depends
             m == [command[c] EXCEPT !.step = "resolve", !.given = depends, !.todo = SetToSeq(asked)]
  <2>1. command' = [command EXCEPT ![c] = m]
    BY <1>4 DEF RunDep
  <2>2. asked \in SUBSET Dependencies /\ IsFiniteSet(asked)
    BY <1>1, ServerAssumption
  <2>3. SetToSeq(asked) \in Seq(Dependencies) /\ (asked # {} => SetToSeq(asked) # <<>>)
    <3> HIDE DEF asked
    <3>1. SetToSeq(asked) \in Seq(asked) /\ (asked # {} => SetToSeq(asked) # <<>>)
      BY <2>2, InOrder
    <3> QED
      BY <2>2, <3>1
  <2>4. m \in Command /\ m.step = "resolve" /\ m.todo = SetToSeq(asked)
    <3>1. command[c] \in Command /\ depends \in FiniteDeps
      BY <1>1, CommandFacts DEF FiniteDeps
    <3>2. PICK todo \in Seq(Dependencies) : todo = SetToSeq(asked)
      BY <2>3
    <3>3. m = [command[c] EXCEPT !.step = "resolve", !.given = depends, !.todo = todo]
      BY <3>2
    <3> QED
      BY <1>1, <3>1, <3>2, <3>3 DEF Command, Steps
  <2>5. command'[c] = m
    BY <2>1 DEF CacheInv, CacheTypes
  <2>6. CommandInv(c)'
    BY <2>3, <2>4, <2>5 DEF CommandInv, Adding, Storing
  <2> HIDE DEF m
  <2> QED
    BY <1>1, <1>2, <2>1, <2>4, <2>6, QuietStep DEF Storing
<1> QED
  BY <1>3, <1>4

(* The cache is emptied, entry by entry. *)
LEMMA CleanCacheInv ==
    ASSUME CacheInv, NEW c \in DepCommands, CleanCache(c)
    PROVE  CacheInv'
<1>1. UNCHANGED <<registry, depends>> /\ command[c].step = "cleaning" /\ CacheTypes
  BY DEF CleanCache, CacheInv
<1>2. CASE \E key \in Keys :
            /\ cache' = [cache EXCEPT ![key] = NoEntry]
            /\ claims' = Unclaimed(key)
            /\ torn' = IF WritersBut(c, key) # {} THEN torn \cup {key} ELSE torn \ {key}
            /\ UNCHANGED command
  <2>1. PICK key \in Keys :
            /\ cache' = [cache EXCEPT ![key] = NoEntry]
            /\ claims' = Unclaimed(key)
            /\ torn' = IF WritersBut(c, key) # {} THEN torn \cup {key} ELSE torn \ {key}
            /\ UNCHANGED command
    BY <1>2
  <2>2. NoEntry \in Entry /\ NoEntry.file = FALSE
    <3>1. <<>> \in Seq(Record)
      OBVIOUS
    <3> QED
      BY <3>1 DEF NoEntry, Entry
  <2>3. CacheTypes'
    BY <1>1, <2>1, <2>2 DEF CacheTypes, Unclaimed
  <2>4. \A d \in DepCommands, k \in Keys : Writes(d, k)' <=> Writes(d, k)
    BY <2>1 DEF Writes
  <2>5. EntryInv(key)'
    <3> SUFFICES ASSUME key \notin torn' PROVE EntryInv(key)'
      BY DEF EntryInv
    <3>1. WritersBut(c, key) = {}
      BY <2>1
    <3>2. \A d \in DepCommands : ~Writes(d, key)
      BY <1>1, <3>1 DEF WritersBut, Writes, Storing
    <3>3. /\ \A d \in DepCommands : ~Writes(d, key)'
          /\ \A claim \in claims' : claim.key # key
          /\ ~cache'[key].file
      BY <1>1, <2>1, <2>2, <2>4, <3>2 DEF Unclaimed, CacheTypes
    <3> QED
      BY <3>3 DEF EntryInv
  <2>6. ASSUME NEW k \in Keys, k # key PROVE EntryInv(k)'
    <3>1. /\ k \notin torn' => k \notin torn
          /\ cache'[k] = cache[k] /\ \A claim \in claims' : claim \in claims
      BY <1>1, <2>1, <2>6 DEF Unclaimed, CacheTypes
    <3>2. EntryInv(k)
      BY DEF CacheInv
    <3> QED
      BY <2>1, <2>4, <3>1, <3>2, EntryKept
  <2>7. ASSUME NEW d \in DepCommands PROVE CommandInv(d)'
    BY <1>1, <2>1 DEF CacheInv, CommandInv
  <2> QED
    BY <2>3, <2>5, <2>6, <2>7 DEF CacheInv
<1>3. CASE Stop(c, "ended") /\ UNCHANGED cacheVars
  BY <1>1, <1>3, StopStep DEF cacheVars, CacheTypes, Storing
<1> QED
  BY <1>2, <1>3 DEF CleanCache

(* The newest tag is a key, and its digest the least the command takes. *)
LEMMA ResolveInv ==
    ASSUME CacheInv, NEW c \in DepCommands, ResolveTag(c)
    PROVE  CacheInv'
<1> DEFINE d == Head(command[c].todo)
           tags == Tags(registry, d)
           key == <<d.pkg, Newest(tags)>>
           m == [command[c] EXCEPT !.step = "get", !.key = key, !.least = registry[key]]
<1>1. /\ UNCHANGED <<registry, cache, torn, claims, depends>> /\ command[c].step = "resolve" /\ command[c].todo # <<>>
      /\ depends \in SUBSET Dependencies /\ IsFiniteSet(depends) /\ CacheTypes
  BY DEF ResolveTag, cacheVars, CacheInv, CacheTypes
<1>2. CASE tags = {}
  <2>1. Stop(c, "failed")
    BY <1>2 DEF ResolveTag
  <2> QED
    BY <1>1, <2>1, StopStep DEF Storing
<1>3. CASE tags # {}
  <2>1. command' = [command EXCEPT ![c] = m]
    BY <1>3 DEF ResolveTag
  <2>2. command[c] \in Command
    BY CommandFacts
  <2>3. d \in Dependencies
    BY <1>1, <2>2 DEF Command
  <2>4. Newest(tags) \in tags /\ tags \subseteq Versions
    <3>1. tags \in SUBSET Versions
      BY <2>3 DEF Tags, Dependencies
    <3> HIDE DEF tags
    <3> QED
      BY <1>3, <3>1, NewestFacts
  <2>5. key \in Keys
    BY <2>3, <2>4 DEF Keys, Dependencies
  <2>6. registry[key] \in Nat
    BY <1>1, <2>5 DEF CacheTypes
  <2> HIDE DEF key
  <2>7. /\ m \in Command /\ m.step = "get" /\ m.key = key /\ m.todo = command[c].todo /\ m.least = registry[key]
    BY <2>2, <2>5, <2>6 DEF Command, Steps
  <2>8. command'[c] = m
    BY <1>1, <2>1 DEF CacheTypes
  <2>9. registry[key] <= registry[key]
    BY <2>6
  <2> HIDE DEF m
  <2>10. CommandInv(c)'
    BY <1>1, <2>5, <2>7, <2>8, <2>9 DEF CommandInv, Adding, Storing
  <2> QED
    BY <1>1, <2>1, <2>7, <2>10, QuietStep DEF Storing
<1> QED
  BY <1>2, <1>3

(* The image of the tag is no older than when it was resolved. *)
LEMMA FetchInv ==
    ASSUME CacheInv, NEW c \in DepCommands, FetchImage(c)
    PROVE  CacheInv'
<1>1. /\ UNCHANGED <<registry, cache, torn, claims, depends>> /\ command[c].step = "fetch"
      /\ depends \in SUBSET Dependencies /\ IsFiniteSet(depends) /\ CacheTypes
  BY DEF FetchImage, cacheVars, CacheInv, CacheTypes
<1>2. CASE Stop(c, "failed")
  BY <1>1, <1>2, StopStep DEF Storing
<1>3. CASE ~Stop(c, "failed")
  <2> DEFINE m == [command[c] EXCEPT !.step = "clean", !.digest = registry[command[c].key]]
  <2>1. command' = [command EXCEPT ![c] = m]
    BY <1>3 DEF FetchImage
  <2>2. command[c] \in Command /\ CommandInv(c)
    BY CommandFacts
  <2>3. /\ command[c].key \in Keys /\ command[c].todo # <<>>
        /\ command[c].least <= registry[command[c].key] /\ registry[command[c].key] \in Nat
    BY <1>1, <2>2 DEF CommandInv, Adding, Storing, CacheTypes
  <2>4. /\ m \in Command /\ m.step = "clean" /\ m.key = command[c].key /\ m.todo = command[c].todo
        /\ m.least = command[c].least /\ m.digest = registry[command[c].key]
    BY <2>2, <2>3 DEF Command, Steps
  <2>5. command'[c] = m
    BY <1>1, <2>1 DEF CacheTypes
  <2> HIDE DEF m
  <2>6. CommandInv(c)'
    BY <2>3, <2>4, <2>5 DEF CommandInv, Adding, Storing
  <2> QED
    BY <1>1, <2>1, <2>4, <2>6, QuietStep DEF Storing
<1> QED
  BY <1>2, <1>3

(* The package is there: the command goes on with what it depends on, and *)
(* the claim is of an image no older than the one it asked for.           *)
LEMMA AddedFacts ==
    ASSUME CacheInv, NEW c \in DepCommands, command[c].step \in Adding,
           NEW digest \in Nat, command[c].least <= digest, Added(c, digest, torn)
    PROVE  /\ \E m \in Command : command' = [command EXCEPT ![c] = m] /\ m.step = "resolve"
           /\ CommandInv(c)'
           /\ \A claim \in claims' :
                 \/ claim \in claims /\ claim.key # command[c].key
                 \/ /\ claim \in Claim /\ claim.key = command[c].key /\ claim.key \notin torn
                    /\ WritersBut(c, command[c].key) = {}
                    /\ claim.digest = digest /\ claim.least <= digest
           /\ claims' \in SUBSET Claim
<1> DEFINE key == command[c].key
           todo == PackageDeps[key] \o Tail(command[c].todo)
           first == IF command[c].first = NoKey THEN key ELSE command[c].first
           m == [command[c] EXCEPT !.step = "resolve", !.key = NoKey, !.digest = 0, !.least = 0,
                                   !.todo = todo, !.first = first]
<1>1. command[c] \in Command /\ key \in Keys /\ command[c].todo # <<>> /\ command \in [DepCommands -> Command]
      /\ claims \in SUBSET Claim
  BY CommandFacts DEF CommandInv, CacheInv, CacheTypes
<1>2. command' = [command EXCEPT ![c] = m]
  BY Zenon DEF Added
<1>3. todo \in Seq(Dependencies)
  <2>1. Tail(command[c].todo) \in Seq(Dependencies) /\ PackageDeps[key] \in Seq(Dependencies)
    BY <1>1, PackagesAssumption DEF Command
  <2> QED
    BY <2>1
<1>4. first \in Keys
  BY <1>1 DEF Command
<1> HIDE DEF todo, first
<1>5. m \in Command /\ m.step = "resolve" /\ m.first = first
  BY <1>1, <1>3, <1>4 DEF Command, Steps
<1>6. command'[c] = m
  BY <1>1, <1>2
<1> HIDE DEF m
<1>7. CommandInv(c)'
  BY <1>4, <1>5, <1>6 DEF CommandInv, Adding, Storing
<1>8. \A claim \in claims' :
         \/ claim \in claims /\ claim.key # key
         \/ key \notin torn /\ WritersBut(c, key) = {} /\ claim = [key |-> key, digest |-> digest, least |-> command[c].least]
  BY DEF Added, Unclaimed
<1>9. [key |-> key, digest |-> digest, least |-> command[c].least] \in Claim
  BY <1>1 DEF Claim, Command
<1>10. claims' \in SUBSET Claim
  BY <1>1, <1>8, <1>9
<1>11. \A claim \in claims' :
         \/ claim \in claims /\ claim.key # key
         \/ /\ claim \in Claim /\ claim.key = key /\ claim.key \notin torn /\ WritersBut(c, key) = {}
            /\ claim.digest = digest /\ claim.least <= digest
  BY <1>8, <1>9
<1> QED
  BY <1>2, <1>5, <1>7, <1>10, <1>11

(* What is cached, and current, needs no writing. *)
LEMMA GetInv ==
    ASSUME CacheInv, NEW c \in DepCommands, GetPackage(c)
    PROVE  CacheInv'
<1>a. PICK key : key = command[c].key
  OBVIOUS
<1>b. PICK entry : entry = cache[key]
  OBVIOUS
<1>0. key = command[c].key /\ entry = cache[key]
  BY <1>a, <1>b
<1>1. /\ UNCHANGED <<registry, cache, torn, depends>> /\ command[c].step = "get"
      /\ depends \in SUBSET Dependencies /\ IsFiniteSet(depends) /\ CacheTypes
  BY DEF GetPackage, CacheInv, CacheTypes
<1>2. command[c] \in Command /\ CommandInv(c)
  BY CommandFacts
<1>3. key \in Keys /\ command[c].todo # <<>> /\ command[c].least <= registry[key] /\ registry[key] \in Nat
  BY <1>0, <1>1, <1>2 DEF CommandInv, Adding, Storing, CacheTypes
<1>4. CASE Step(c, "fetch") /\ UNCHANGED claims
  <2> DEFINE m == [command[c] EXCEPT !.step = "fetch"]
  <2>1. command' = [command EXCEPT ![c] = m]
    BY <1>4 DEF Step
  <2>2. /\ m \in Command /\ m.step = "fetch" /\ m.key = key /\ m.todo = command[c].todo /\ m.least = command[c].least
    BY <1>0, <1>2 DEF Command, Steps
  <2>3. command'[c] = m
    BY <1>1, <2>1 DEF CacheTypes
  <2> HIDE DEF m
  <2>4. CommandInv(c)'
    BY <1>0, <1>1, <1>3, <2>2, <2>3 DEF CommandInv, Adding, Storing
  <2> QED
    BY <1>1, <1>4, <2>1, <2>2, <2>4, QuietStep DEF Storing
<1>5. CASE Stop(c, "failed") /\ UNCHANGED claims
  BY <1>1, <1>5, StopStep DEF Storing
<1>6. CASE /\ entry.file /\ Parses(entry) /\ ImageDigest(entry) = registry[key]
           /\ Added(c, ImageDigest(entry), torn)
  <2>1. Added(c, registry[key], torn)
    BY <1>6
  <2>2. /\ CommandInv(c)' /\ claims' \in SUBSET Claim
        /\ \E m \in Command : command' = [command EXCEPT ![c] = m] /\ m.step = "resolve"
        /\ \A claim \in claims' :
              \/ claim \in claims /\ claim.key # key
              \/ /\ claim \in Claim /\ claim.key = key /\ claim.key \notin torn /\ WritersBut(c, key) = {}
                 /\ claim.digest = registry[key] /\ claim.least <= registry[key]
    <3>1. PICK digest \in Nat : digest = registry[key]
      BY <1>3
    <3>2. command[c].step \in Adding /\ command[c].least <= digest /\ Added(c, digest, torn)
      BY <1>1, <1>3, <2>1, <3>1 DEF Adding
    <3> QED
      BY <1>0, <3>1, <3>2, AddedFacts, SMTT(30)
  <2>3. PICK m \in Command : command' = [command EXCEPT ![c] = m] /\ m.step = "resolve"
    BY <2>2
  <2>4. \A d \in DepCommands : Writes(d, key)' <=> Writes(d, key)
    <3>1. command'[c].step = "resolve" /\ \A d \in DepCommands \ {c} : command'[d] = command[d]
      BY <1>1, <2>3 DEF CacheTypes
    <3> QED
      BY <1>1, <3>1 DEF Writes, Storing
  <2>5. EntryInv(key)'
    <3> SUFFICES ASSUME key \notin torn PROVE EntryInv(key)'
      BY <1>1 DEF EntryInv
    <3>1. EntryInv(key)
      BY <1>3 DEF CacheInv
    <3>2. CASE \A claim \in claims' : claim.key = key => claim \in claims
      <4>1. \A d \in DepCommands : Writes(d, key) => command'[d] = command[d]
        <5>1. \A d \in DepCommands \ {c} : command'[d] = command[d]
          BY <1>1, <2>3 DEF CacheTypes
        <5> QED
          BY <1>1, <5>1 DEF Writes, Storing
      <4> QED
        BY <1>1, <2>4, <3>1, <3>2, <4>1, EntryKept
    <3>3. CASE ~\A claim \in claims' : claim.key = key => claim \in claims
      <4>1. WritersBut(c, key) = {}
        BY <2>2, <3>3
      <4>2. \A d \in DepCommands : ~Writes(d, key)
        BY <1>1, <4>1 DEF WritersBut, Writes, Storing
      <4>3. PICK digest \in Nat : Written(entry, Objects + 2, digest)
        BY <1>0, <1>6, <3>1, <4>2 DEF EntryInv
      <4>4. digest = registry[key]
        <5>1. Objects + 2 \in Nat /\ Objects + 2 >= 2
          BY PackagesAssumption
        <5>2. ImageDigest(entry) = digest
          BY <4>3, <5>1, WrittenFacts
        <5> QED
          BY <1>6, <5>2
      <4>5. /\ \A d \in DepCommands : ~Writes(d, key)'
            /\ Written(cache'[key], Objects + 2, registry[key])
        BY <1>0, <1>1, <2>4, <4>2, <4>3, <4>4
      <4>6. \A claim \in claims' : claim.key = key => claim.digest = registry[key] /\ claim.least <= claim.digest
        BY <2>2
      <4> QED
        BY <1>3, <4>5, <4>6 DEF EntryInv, Written
    <3> QED
      BY <3>2, <3>3
  <2>6. \A k \in Keys \ {key} : \A claim \in claims' : claim.key = k => claim \in claims
    BY <2>2
  <2>7. m.step \notin Storing /\ command[c].step \notin Storing
    BY <1>1, <2>3 DEF Storing
  <2>8. cache' \in [Keys -> Entry] /\ torn' \in SUBSET Keys
    BY <1>1 DEF CacheTypes
  <2> QED
    <3>1. \A k \in Keys \ {key} : /\ cache'[k] = cache[k] /\ (k \in torn' <=> k \in torn)
                                  /\ \A claim \in claims' : claim.key = k => claim \in claims
      BY <1>1, <2>6
    <3>2. registry' = registry /\ depends' \in SUBSET Dependencies /\ IsFiniteSet(depends')
      BY <1>1
    <3> QED
      BY <1>3, <2>2, <2>3, <2>5, <2>7, <2>8, <3>1, <3>2, OneStep
<1> QED
  BY <1>0, <1>4, <1>5, <1>6 DEF GetPackage

(* A command that has stopped, in the middle of an entry or not. *)
LEMMA StopFacts ==
    ASSUME CacheInv, NEW c \in DepCommands, NEW step \in {"ended", "failed"}, Stop(c, step)
    PROVE  /\ \E m \in Command : command' = [command EXCEPT ![c] = m] /\ m.step = step
           /\ CommandInv(c)' /\ command'[c].step \notin Storing
           /\ \A d \in DepCommands \ {c} : command'[d] = command[d]
<1> DEFINE m == [Idle EXCEPT !.step = step]
<1>1. command' = [command EXCEPT ![c] = m] /\ m \in Command /\ m.step = step /\ command \in [DepCommands -> Command]
  BY CommandFacts DEF Stop, Steps, Idle, CacheInv, CacheTypes
<1>2. command'[c] = m /\ \A d \in DepCommands \ {c} : command'[d] = command[d]
  BY <1>1
<1> HIDE DEF m
<1>3. CommandInv(c)'
  BY <1>1, <1>2 DEF CommandInv, Adding, Storing
<1> QED
  BY <1>1, <1>2, <1>3 DEF Storing

(* The entry is emptied, and becomes the command's unless another writes it. *)
LEMMA CleanEntryInv ==
    ASSUME CacheInv, NEW c \in DepCommands, CleanEntry(c)
    PROVE  CacheInv'
<1>0. PICK key : key = command[c].key
  OBVIOUS
<1>1. /\ UNCHANGED <<registry, depends>> /\ command[c].step = "clean"
      /\ depends \in SUBSET Dependencies /\ IsFiniteSet(depends) /\ CacheTypes
  BY DEF CleanEntry, CacheInv, CacheTypes
<1>2. command[c] \in Command /\ CommandInv(c)
  BY CommandFacts
<1>3. key \in Keys /\ command[c].todo # <<>> /\ command[c].least <= command[c].digest
  BY <1>0, <1>1, <1>2 DEF CommandInv, Adding, Storing
<1>4. CASE Stop(c, "failed") /\ UNCHANGED cacheVars
  BY <1>1, <1>4, StopStep DEF cacheVars, Storing
<1>5. CASE /\ Step(c, "create")
           /\ cache' = [cache EXCEPT ![key] = [Cleaned(cache[key]) EXCEPT !.dir = TRUE]]
           /\ claims' = Unclaimed(key)
           /\ torn' = IF WritersBut(c, key) # {} THEN torn \cup {key} ELSE torn \ {key}
  <2> DEFINE m == [command[c] EXCEPT !.step = "create"]
  <2>1. command' = [command EXCEPT ![c] = m]
    BY <1>5 DEF Step
  <2>2. m \in Command /\ m.step = "create" /\ m.key = key /\ m.todo = command[c].todo /\ m.least = command[c].least
        /\ m.digest = command[c].digest
    BY <1>0, <1>2 DEF Command, Steps
  <2>3. command'[c] = m /\ \A d \in DepCommands \ {c} : command'[d] = command[d]
    BY <1>1, <2>1 DEF CacheTypes
  <2> HIDE DEF m
  <2>4. CommandInv(c)'
    BY <1>3, <2>2, <2>3 DEF CommandInv, Adding, Storing
  <2>5. [Cleaned(cache[key]) EXCEPT !.dir = TRUE] \in Entry /\ [Cleaned(cache[key]) EXCEPT !.dir = TRUE].dir
    <3>1. cache[key] \in Entry /\ <<>> \in Seq(Record)
      BY <1>1, <1>3 DEF CacheTypes
    <3> QED
      BY <3>1 DEF Entry, Cleaned
  <2>6. /\ cache' \in [Keys -> Entry] /\ cache'[key].dir /\ torn' \in SUBSET Keys /\ claims' \in SUBSET Claim
        /\ \A k \in Keys \ {key} : cache'[k] = cache[k] /\ (k \in torn' <=> k \in torn)
        /\ \A claim \in claims' : claim \in claims /\ claim.key # key
    BY <1>1, <1>3, <1>5, <2>5 DEF CacheTypes, Unclaimed
  <2>7. EntryInv(key)'
    <3> SUFFICES ASSUME key \notin torn' PROVE EntryInv(key)'
      BY DEF EntryInv
    <3>1. WritersBut(c, key) = {}
      BY <1>5
    <3>2. \A d \in DepCommands : Writes(d, key)' <=> d = c
      BY <2>2, <2>3, <3>1 DEF WritersBut, Writes, Storing
    <3>3. Underway(c, cache[key])'
      <4>1. command'[c].step = "create"
        BY <2>2, <2>3
      <4> QED
        BY <2>6, <4>1 DEF Underway
    <3> QED
      BY <2>6, <3>2, <3>3 DEF EntryInv
  <2>8. command[c].step \notin Storing
    BY <1>1 DEF Storing
  <2>9. \A k \in Keys \ {key} : \A claim \in claims' : claim.key = k => claim \in claims
    BY <2>6
  <2> QED
    BY <1>1, <1>3, <2>1, <2>2, <2>4, <2>6, <2>7, <2>8, <2>9, OneStep
<1> QED
  BY <1>0, <1>4, <1>5 DEF CleanEntry

(* The next records of the entry; the directory is there unless the entry is *)
(* torn.                                                                     *)
LEMMA FlushInv ==
    ASSUME CacheInv, NEW c \in DepCommands, NEW from \in Storing, NEW to \in Storing, NEW entry, Flush(c, from, to, entry),
           cache[command[c].key] \in Entry => entry \in Entry,
           LET key == command[c].key IN key \notin torn /\ Underway(c, cache[key]) =>
               /\ entry.dir
               /\ to = "meta" => Written(entry, 1, command[c].digest)
               /\ to = "objects" => \E n \in 2 .. Objects + 1 : Written(entry, n, command[c].digest)
               /\ to = "mark" => Written(entry, Objects + 2, command[c].digest)
    PROVE  CacheInv'
<1>0. PICK key : key = command[c].key
  OBVIOUS
<1>1. /\ UNCHANGED <<registry, depends, torn, claims>> /\ command[c].step = from
      /\ depends \in SUBSET Dependencies /\ IsFiniteSet(depends) /\ CacheTypes
  BY DEF Flush, CacheInv, CacheTypes
<1>2. command[c] \in Command /\ CommandInv(c)
  BY CommandFacts
<1>3. key \in Keys /\ command[c].todo # <<>> /\ command[c].least <= command[c].digest /\ EntryInv(key) /\ cache[key] \in Entry
  BY <1>0, <1>1, <1>2 DEF CommandInv, Adding, Storing, CacheInv, CacheTypes
<1>4. Writes(c, key)
  BY <1>0, <1>1 DEF Writes
<1>5. key \notin torn => \A d \in DepCommands : Writes(d, key) => d = c
  BY <1>3, <1>4 DEF EntryInv
<1>6. key \notin torn => Underway(c, cache[key]) /\ cache[key].dir /\ \A claim \in claims : claim.key # key
  <2>1. key \notin torn => Underway(c, cache[key]) /\ \A claim \in claims : claim.key # key
    BY <1>3, <1>4 DEF EntryInv
  <2> QED
    BY <2>1 DEF Underway
<1>7. CASE cache[key].dir
  <2> DEFINE m == [command[c] EXCEPT !.step = to]
  <2>1. command' = [command EXCEPT ![c] = m] /\ cache' = [cache EXCEPT ![key] = entry]
    BY <1>0, <1>7 DEF Flush, Step
  <2>2. m \in Command /\ m.step = to /\ m.key = key /\ m.todo = command[c].todo /\ m.least = command[c].least
        /\ m.digest = command[c].digest
    BY <1>0, <1>2 DEF Command, Steps, Storing
  <2>3. command'[c] = m /\ \A d \in DepCommands \ {c} : command'[d] = command[d]
    BY <1>1, <2>1 DEF CacheTypes
  <2> HIDE DEF m
  <2>4. CommandInv(c)'
    BY <1>3, <2>2, <2>3 DEF CommandInv, Adding, Storing
  <2>5. /\ cache' \in [Keys -> Entry] /\ cache'[key] = entry
        /\ \A k \in Keys \ {key} : cache'[k] = cache[k]
    BY <1>0, <1>1, <1>3, <2>1 DEF CacheTypes
  <2>6. EntryInv(key)'
    <3> SUFFICES ASSUME key \notin torn PROVE EntryInv(key)'
      BY <1>1 DEF EntryInv
    <3>1. \A d \in DepCommands : Writes(d, key)' <=> d = c
      BY <1>5, <2>2, <2>3 DEF Writes
    <3>2. Underway(c, cache[key])'
      <4>1. command'[c].step = to /\ command'[c].digest = command[c].digest /\ cache'[key] = entry
        BY <2>2, <2>3, <2>5
      <4>2. /\ entry.dir
            /\ to = "meta" => Written(entry, 1, command[c].digest)
            /\ to = "objects" => \E n \in 2 .. Objects + 1 : Written(entry, n, command[c].digest)
            /\ to = "mark" => Written(entry, Objects + 2, command[c].digest)
        BY <1>0, <1>6
      <4>3. /\ cache'[key].dir
            /\ command'[c].step = "meta" => Written(cache'[key], 1, command'[c].digest)
            /\ command'[c].step = "objects" => \E n \in 2 .. Objects + 1 : Written(cache'[key], n, command'[c].digest)
            /\ command'[c].step = "mark" => Written(cache'[key], Objects + 2, command'[c].digest)
        BY <4>1, <4>2
      <4> QED
        BY <4>3 DEF Underway, Written
    <3> QED
      BY <1>1, <1>6, <3>1, <3>2 DEF EntryInv
  <2>7. torn' \in SUBSET Keys /\ claims' \in SUBSET Claim
    BY <1>1 DEF CacheTypes
  <2>8. \A k \in Keys \ {key} : /\ cache'[k] = cache[k] /\ (k \in torn' <=> k \in torn)
                                /\ \A claim \in claims' : claim.key = k => claim \in claims
    BY <1>1, <2>5
  <2> QED
    BY <1>0, <1>1, <1>3, <2>1, <2>2, <2>4, <2>5, <2>6, <2>7, <2>8, OneStep
<1>8. CASE ~cache[key].dir
  <2>1. Stop(c, "failed") /\ UNCHANGED cache
    BY <1>0, <1>8 DEF Flush
  <2>2. /\ \E m \in Command : command' = [command EXCEPT ![c] = m] /\ m.step = "failed"
        /\ CommandInv(c)'
    BY <2>1, StopFacts
  <2>3. PICK m \in Command : command' = [command EXCEPT ![c] = m] /\ m.step = "failed"
    BY <2>2
  <2>4. EntryInv(key)'
    BY <1>1, <1>6, <1>8 DEF EntryInv
  <2>5. m.step \notin Storing
    BY <2>3 DEF Storing
  <2>6. cache' \in [Keys -> Entry] /\ torn' \in SUBSET Keys /\ claims' \in SUBSET Claim
    BY <1>1, <2>1 DEF CacheTypes
  <2>7. \A k \in Keys \ {key} : /\ cache'[k] = cache[k] /\ (k \in torn' <=> k \in torn)
                                /\ \A claim \in claims' : claim.key = k => claim \in claims
    BY <1>1, <2>1
  <2> QED
    BY <1>0, <1>1, <1>3, <2>2, <2>3, <2>4, <2>5, <2>6, <2>7, OneStep
<1> QED
  BY <1>7, <1>8

(* The records, one after the other. *)
LEMMA WritingInv ==
    ASSUME CacheInv, NEW c \in DepCommands, WriteImageMeta(c) \/ WriteMeta(c) \/ WriteObject(c)
    PROVE  CacheInv'
<1> DEFINE digest == command[c].digest
<1>1. command[c] \in Command /\ digest \in Nat /\ Objects \in Nat /\ Objects >= 1
  BY CommandFacts, PackagesAssumption DEF Command
<1>2. CASE WriteImageMeta(c)
  <2>1. Flush(c, "create", "meta", Created(digest))
    BY <1>2 DEF WriteImageMeta
  <2>2. \A e \in Entry : Created(digest) \in Entry /\ Written(Created(digest), 1, digest)
    BY <1>1, AppendFacts
  <2>3. cache[command[c].key] \in Entry => Created(digest) \in Entry /\ Written(Created(digest), 1, digest)
    BY <2>2
  <2>4. Created(digest).dir
    BY DEF Created
  <2>5. \E e \in Entry : TRUE
    <3>1. <<>> \in Seq(Record)
      OBVIOUS
    <3>2. NoEntry \in Entry
      BY <3>1 DEF NoEntry, Entry
    <3> QED
      BY <3>2
  <2>6. Created(digest) \in Entry /\ Written(Created(digest), 1, digest)
    BY <2>2, <2>5
  <2> QED
    BY <2>1, <2>4, <2>6, FlushInv DEF Storing
<1>3. CASE WriteMeta(c)
  <2> DEFINE e == Appended(cache[command[c].key], "meta", digest)
  <2>1. Flush(c, "meta", "objects", e) /\ command[c].step = "meta"
    BY <1>3 DEF WriteMeta, Flush
  <2>2. cache[command[c].key] \in Entry => e \in Entry
    BY <1>1, AppendFacts
  <2>3. e.dir
    BY DEF Appended
  <2>4. command[c].key \in Keys
    <3>1. CommandInv(c)
      BY CommandFacts
    <3> QED
      BY <2>1, <3>1 DEF CommandInv, Adding, Storing
  <2>5. cache[command[c].key] \in Entry
    BY <2>4 DEF CacheInv, CacheTypes
  <2>6. Underway(c, cache[command[c].key]) => \E n \in 2 .. Objects + 1 : Written(e, n, digest)
    <3>1. Underway(c, cache[command[c].key]) => Written(e, 2, digest)
      BY <1>1, <2>1, <2>5, AppendFacts DEF Underway
    <3>2. 2 \in 2 .. Objects + 1
      BY <1>1
    <3> QED
      BY <3>1, <3>2
  <2> HIDE DEF e
  <2> QED
    BY <2>1, <2>2, <2>3, <2>6, FlushInv DEF Storing
<1>4. CASE WriteObject(c)
  <2> DEFINE e == Appended(cache[command[c].key], "object", digest)
             last == Count(cache[command[c].key], "object") + 1 >= Objects
             to == IF last THEN "mark" ELSE "objects"
  <2>1. Flush(c, "objects", to, e) /\ command[c].step = "objects"
    BY <1>4 DEF WriteObject
  <2>2. cache[command[c].key] \in Entry => e \in Entry
    BY <1>1, AppendFacts
  <2>3. e.dir
    BY DEF Appended
  <2>4. command[c].key \in Keys
    <3>1. CommandInv(c)
      BY CommandFacts
    <3> QED
      BY <2>1, <3>1 DEF CommandInv, Adding, Storing
  <2>5. cache[command[c].key] \in Entry
    BY <2>4 DEF CacheInv, CacheTypes
  <2>6. ASSUME Underway(c, cache[command[c].key])
        PROVE  IF last THEN Written(e, Objects + 2, digest)
               ELSE \E n \in 2 .. Objects + 1 : Written(e, n, digest)
    <3>1. PICK n \in 2 .. Objects + 1 : Written(cache[command[c].key], n, digest)
      BY <2>1, <2>6 DEF Underway
    <3>2. n \in Nat /\ n >= 2 /\ n <= Objects + 1
      BY <1>1, <3>1
    <3>3. Written(e, n + 1, digest)
      BY <1>1, <2>5, <3>1, <3>2, AppendFacts
    <3>4. Count(cache[command[c].key], "object") = n - 2
      BY <1>1, <3>1, <3>2, WrittenFacts
    <3> HIDE DEF e
    <3>5. CASE last
      <4>1. n + 1 = Objects + 2
        BY <1>1, <3>2, <3>4, <3>5
      <4> QED
        BY <3>3, <3>5, <4>1
    <3>6. CASE ~last
      <4>1. n + 1 \in 2 .. Objects + 1
        BY <1>1, <3>2, <3>4, <3>6
      <4> QED
        BY <3>3, <3>6, <4>1
    <3> QED
      BY <3>5, <3>6
  <2> HIDE DEF e, last
  <2> QED
    BY <2>1, <2>2, <2>3, <2>6, FlushInv DEF Storing
<1> QED
  BY <1>2, <1>3, <1>4

(* The entry is whole, and the command goes on. *)
LEMMA WriteDigestInv ==
    ASSUME CacheInv, NEW c \in DepCommands, WriteDigest(c)
    PROVE  CacheInv'
<1>0. PICK key : key = command[c].key
  OBVIOUS
<1>1. /\ UNCHANGED <<registry, depends, torn, cache>> /\ command[c].step = "mark"
      /\ depends \in SUBSET Dependencies /\ IsFiniteSet(depends) /\ CacheTypes
  BY DEF WriteDigest, CacheInv, CacheTypes
<1>2. command[c] \in Command /\ CommandInv(c)
  BY CommandFacts
<1>3. key \in Keys /\ command[c].todo # <<>> /\ command[c].least <= command[c].digest /\ EntryInv(key)
      /\ command[c].digest \in Nat
  BY <1>0, <1>1, <1>2 DEF CommandInv, Adding, Storing, CacheInv, Command
<1>4. Writes(c, key)
  BY <1>0, <1>1 DEF Writes, Storing
<1>5. key \notin torn => /\ Underway(c, cache[key]) /\ \A claim \in claims : claim.key # key
                         /\ \A d \in DepCommands : Writes(d, key) => d = c
  BY <1>3, <1>4 DEF EntryInv
<1>6. key \notin torn => cache[key].dir /\ Written(cache[key], Objects + 2, command[c].digest)
  BY <1>1, <1>5 DEF Underway
<1>7. cache' \in [Keys -> Entry] /\ torn' \in SUBSET Keys
  BY <1>1 DEF CacheTypes
<1>8. CASE Added(c, command[c].digest, torn)
  <2>1. /\ CommandInv(c)' /\ claims' \in SUBSET Claim
        /\ \E m \in Command : command' = [command EXCEPT ![c] = m] /\ m.step = "resolve"
        /\ \A claim \in claims' :
              \/ claim \in claims /\ claim.key # key
              \/ /\ claim \in Claim /\ claim.key = key /\ claim.key \notin torn /\ WritersBut(c, key) = {}
                 /\ claim.digest = command[c].digest /\ claim.least <= command[c].digest
    BY <1>0, <1>1, <1>3, <1>8, AddedFacts DEF Adding, Storing
  <2>2. PICK m \in Command : command' = [command EXCEPT ![c] = m] /\ m.step = "resolve"
    BY <2>1
  <2>3. command'[c] = m /\ \A d \in DepCommands \ {c} : command'[d] = command[d]
    BY <1>1, <2>2 DEF CacheTypes
  <2>4. EntryInv(key)'
    <3> SUFFICES ASSUME key \notin torn PROVE EntryInv(key)'
      BY <1>1 DEF EntryInv
    <3>1. \A d \in DepCommands : ~Writes(d, key)'
      BY <1>5, <2>2, <2>3 DEF Writes, Storing
    <3>2. Written(cache'[key], Objects + 2, command[c].digest)
      BY <1>1, <1>6
    <3>3. \A claim \in claims' : claim.key = key => claim.digest = command[c].digest /\ claim.least <= claim.digest
      BY <2>1
    <3> QED
      BY <1>3, <3>1, <3>2, <3>3 DEF EntryInv, Written
  <2>5. m.step \notin Storing
    BY <2>2 DEF Storing
  <2>6. \A k \in Keys \ {key} : /\ cache'[k] = cache[k] /\ (k \in torn' <=> k \in torn)
                                /\ \A claim \in claims' : claim.key = k => claim \in claims
    BY <1>1, <2>1
  <2> QED
    BY <1>0, <1>1, <1>3, <1>7, <2>1, <2>2, <2>4, <2>5, <2>6, OneStep
<1>9. CASE ~cache[key].dir /\ Stop(c, "failed") /\ UNCHANGED claims
  <2>1. /\ \E m \in Command : command' = [command EXCEPT ![c] = m] /\ m.step = "failed"
        /\ CommandInv(c)'
    BY <1>9, StopFacts
  <2>2. PICK m \in Command : command' = [command EXCEPT ![c] = m] /\ m.step = "failed"
    BY <2>1
  <2>3. EntryInv(key)'
    BY <1>1, <1>6, <1>9 DEF EntryInv
  <2>4. m.step \notin Storing
    BY <2>2 DEF Storing
  <2>5. claims' \in SUBSET Claim
    BY <1>1, <1>9 DEF CacheTypes
  <2>6. \A k \in Keys \ {key} : /\ cache'[k] = cache[k] /\ (k \in torn' <=> k \in torn)
                                /\ \A claim \in claims' : claim.key = k => claim \in claims
    BY <1>1, <1>9
  <2> QED
    BY <1>0, <1>1, <1>3, <1>7, <2>1, <2>2, <2>3, <2>4, <2>5, <2>6, OneStep
<1> QED
  BY <1>0, <1>8, <1>9 DEF WriteDigest

(* A command ends; it may have made the package it was given a dependency. *)
LEMMA EndDepInv ==
    ASSUME CacheInv, NEW c \in DepCommands, EndDep(c)
    PROVE  CacheInv' /\ depends' \in SUBSET Dependencies
<1>1. /\ UNCHANGED <<registry, cache, torn, claims>> /\ command[c].step = "resolve" /\ command[c].todo = <<>>
      /\ Stop(c, "ended")
      /\ depends \in SUBSET Dependencies /\ IsFiniteSet(depends) /\ CacheTypes
  BY DEF EndDep, cacheVars, CacheInv, CacheTypes
<1>2. command[c] \in Command /\ CommandInv(c)
  BY CommandFacts
<1>3. depends' \in SUBSET Dependencies /\ IsFiniteSet(depends')
  <2>1. CASE Wanted[c] = {}
    BY <1>1, <2>1 DEF EndDep
  <2>2. CASE Wanted[c] # {}
    <3> DEFINE first == command[c].first
               d == [pkg |-> first[1], allowed |-> {first[2]}]
    <3>1. depends' = Upserted(command[c].given, d)
      BY <2>2 DEF EndDep
    <3>2. first \in Keys
      BY <1>1, <1>2, <2>2 DEF CommandInv
    <3>3. d \in Dependencies
      BY <3>2 DEF Keys, Dependencies
    <3>4. command[c].given \in SUBSET Dependencies /\ IsFiniteSet(command[c].given)
      BY <1>1, <1>2 DEF Command, FiniteDeps
    <3> HIDE DEF d
    <3>5. depends' = {e \in command[c].given : e.pkg # d.pkg} \cup {d}
      BY <3>1 DEF Upserted
    <3>6. IsFiniteSet({e \in command[c].given : e.pkg # d.pkg})
      BY <3>4, FS_Subset
    <3> QED
      BY <3>3, <3>4, <3>5, <3>6, FS_AddElement
  <2> QED
    BY <2>1, <2>2
<1>4. command[c].step \notin Storing
  BY <1>1 DEF Storing
<1> QED
  BY <1>1, <1>3, <1>4, StopStep

(* A command that is killed leaves its entry torn. *)
LEMMA KillInv ==
    ASSUME CacheInv, NEW c \in DepCommands, KillDep(c)
    PROVE  CacheInv'
<1>0. PICK key : key = command[c].key
  OBVIOUS
<1>1. /\ UNCHANGED <<registry, cache, claims, depends>> /\ torn' = torn \cup {key} /\ Stop(c, "failed")
      /\ command[c].step \in Storing
      /\ depends \in SUBSET Dependencies /\ IsFiniteSet(depends) /\ CacheTypes
  BY <1>0 DEF KillDep, CacheInv, CacheTypes
<1>2. CommandInv(c)
  BY CommandFacts
<1>3. key \in Keys
  BY <1>0, <1>1, <1>2 DEF CommandInv, Adding
<1>4. /\ \E m \in Command : command' = [command EXCEPT ![c] = m] /\ m.step = "failed"
      /\ CommandInv(c)'
  BY <1>1, StopFacts
<1>5. PICK m \in Command : command' = [command EXCEPT ![c] = m] /\ m.step = "failed"
  BY <1>4
<1>6. EntryInv(key)'
  BY <1>1 DEF EntryInv
<1>7. m.step \notin Storing
  BY <1>5 DEF Storing
<1>8. cache' \in [Keys -> Entry] /\ torn' \in SUBSET Keys /\ claims' \in SUBSET Claim
  BY <1>1, <1>3 DEF CacheTypes
<1>9. \A k \in Keys \ {key} : /\ cache'[k] = cache[k] /\ (k \in torn' <=> k \in torn)
                              /\ \A claim \in claims' : claim.key = k => claim \in claims
  BY <1>1
<1> QED
  BY <1>0, <1>1, <1>3, <1>4, <1>5, <1>6, <1>7, <1>8, <1>9, OneStep

(* Whatever leaves the cache and the commands alone, and takes no tag back. *)
LEMMA CacheKept ==
    ASSUME CacheInv, UNCHANGED <<cache, torn, claims, command, depends>>,
           registry' \in [Keys -> Nat], \A key \in Keys : registry[key] <= registry'[key]
    PROVE  CacheInv'
<1>1. CacheTypes'
  BY DEF CacheInv, CacheTypes
<1>2. ASSUME NEW key \in Keys PROVE EntryInv(key)'
  <2>1. \A c \in DepCommands : Writes(c, key)' <=> Writes(c, key)
    BY DEF Writes
  <2>2. EntryInv(key)
    BY DEF CacheInv
  <2> QED
    BY <2>1, <2>2, EntryKept
<1>3. ASSUME NEW c \in DepCommands PROVE CommandInv(c)'
  <2>1. command[c] \in Command /\ CommandInv(c)
    BY CommandFacts
  <2>2. PICK m : m = command[c]
    OBVIOUS
  <2>3. /\ m.step \in Adding => m.key \in Keys /\ m.todo # <<>>
        /\ m.step \in {"get", "fetch"} => m.least <= registry[m.key]
        /\ m.step \in {"clean"} \cup Storing => m.least <= m.digest
        /\ m.step = "resolve" /\ m.todo = <<>> /\ Wanted[c] # {} => m.first \in Keys
    BY <2>1, <2>2 DEF CommandInv
  <2>4. m.step \in {"get", "fetch"} => m.least <= registry'[m.key]
    <3>1. m.step \in {"get", "fetch"} => m.key \in Keys /\ m.least \in Nat
      BY <2>1, <2>2, <2>3 DEF Adding, Command
    <3>2. registry \in [Keys -> Nat]
      BY DEF CacheInv, CacheTypes
    <3>3. ASSUME m.step \in {"get", "fetch"} PROVE m.least <= registry'[m.key]
      <4>1. m.key \in Keys /\ m.least \in Nat /\ m.least <= registry[m.key]
        BY <2>3, <3>1, <3>3
      <4>2. registry[m.key] \in Nat /\ registry'[m.key] \in Nat /\ registry[m.key] <= registry'[m.key]
        BY <3>2, <4>1
      <4> QED
        BY <4>1, <4>2
    <3> QED
      BY <3>3
  <2> QED
    BY <2>2, <2>3, <2>4 DEF CommandInv
<1> QED
  BY <1>1, <1>2, <1>3 DEF CacheInv

(* A push takes no tag back. *)
LEMMA PushInv ==
    ASSUME CacheInv, Push
    PROVE  CacheInv'
<1>1. registry \in [Keys -> Nat] /\ UNCHANGED <<cache, torn, claims, command, depends>>
  BY DEF CacheInv, CacheTypes, Push, cacheVars
<1>2. PICK key \in Pushed : registry' = [registry EXCEPT ![key] = registry[key] + 1]
  BY DEF Push
<1>3. registry' \in [Keys -> Nat] /\ \A k \in Keys : registry[k] <= registry'[k]
  BY <1>1, <1>2, ServerAssumption
<1> QED
  BY <1>1, <1>3, CacheKept

(* No server and no editor writes to the cache. *)
LEMMA ServeKeepsCache ==
    ASSUME Serve \/ Editor
    PROVE  UNCHANGED <<registry, cache, torn, claims, command, depends>>
BY DEF Serve, Editor, Initialize, ViewPackage, EndBuild, BuildEndsFor, Validate, Publish, StartWatching,
       CheckMetaFile, Poll, WatchSnapshot,
       DidOpen, UpdateContent, ReParseFile, DidSave, DidChangeWatchedFiles, EditDocument, SaveDocument, cacheVars

(* At first nothing is cached and no command runs. *)
LEMMA CacheInit ==
    ASSUME PackageInit
    PROVE  CacheInv
<1>1. <<>> \in Seq(Record) /\ <<>> \in Seq(Dependencies) /\ {} \in FiniteDeps
  BY FS_EmptySet DEF FiniteDeps
<1>2. NoEntry \in Entry /\ NoEntry.file = FALSE
  BY <1>1 DEF NoEntry, Entry
<1>3. Idle \in Command /\ Idle.step = "idle"
  BY <1>1 DEF Idle, Command, Steps
<1>4. CacheTypes
  BY <1>2, <1>3, ServerAssumption DEF PackageInit, CacheTypes
<1>5. ASSUME NEW c \in DepCommands PROVE command[c].step = "idle" /\ CommandInv(c)
  <2>1. command[c].step = "idle"
    BY <1>3 DEF PackageInit
  <2> QED
    BY <2>1 DEF CommandInv, Adding, Storing
<1>6. ASSUME NEW key \in Keys PROVE EntryInv(key)
  <2>1. \A c \in DepCommands : ~Writes(c, key)
    BY <1>5 DEF Writes, Storing
  <2>2. ~cache[key].file /\ claims = {}
    BY <1>2 DEF PackageInit
  <2> QED
    BY <2>1, <2>2 DEF EntryInv
<1> QED
  BY <1>4, <1>5, <1>6 DEF CacheInv

(* Every step of a command, the registry, the server or the editor. *)
LEMMA CacheNext ==
    ASSUME CacheInv, PackageNext
    PROVE  CacheInv'
<1>1. ASSUME NEW c \in DepCommands, Dep(c) PROVE CacheInv'
  <2>1. CASE EndDep(c)
    BY <2>1, EndDepInv
  <2>2. CASE RunDep(c) \/ CleanCache(c) \/ ResolveTag(c) \/ GetPackage(c)
    BY <2>2, RunInv, CleanCacheInv, ResolveInv, GetInv
  <2>3. CASE FetchImage(c) \/ CleanEntry(c) \/ WriteDigest(c) \/ KillDep(c)
    BY <2>3, FetchInv, CleanEntryInv, WriteDigestInv, KillInv
  <2>4. CASE WriteImageMeta(c) \/ WriteMeta(c) \/ WriteObject(c)
    BY <2>4, WritingInv
  <2> QED
    BY <1>1, <2>1, <2>2, <2>3, <2>4 DEF Dep
<1>2. CASE Push
  BY <1>2, PushInv
<1>3. CASE Serve \/ Editor
  <2>1. registry \in [Keys -> Nat] /\ UNCHANGED <<registry, cache, torn, claims, command, depends>>
    BY <1>3, ServeKeepsCache DEF CacheInv, CacheTypes
  <2>2. \A key \in Keys : registry[key] <= registry[key]
    BY <2>1
  <2> QED
    BY <2>1, <2>2, CacheKept
<1> QED
  BY <1>1, <1>2, <1>3 DEF PackageNext

(* The invariant of the cache is inductive. *)
LEMMA CacheStays ==
    ASSUME CacheInv, [PackageNext]_packageVars
    PROVE  CacheInv'
<1>1. CASE UNCHANGED packageVars
  <2>1. registry \in [Keys -> Nat] /\ UNCHANGED <<registry, cache, torn, claims, command, depends>>
    BY <1>1 DEF CacheInv, CacheTypes, packageVars
  <2>2. \A key \in Keys : registry[key] <= registry[key]
    BY <2>1
  <2> QED
    BY <2>1, <2>2, CacheKept
<1> QED
  BY <1>1, CacheNext

(* What a command has added stays whole, of one image no older than the one *)
(* it asked for, until someone cleans, replaces or tears the entry.         *)
THEOREM AddedStaysWhole == PackageSpec => []AddedIsCached
<1>1. ASSUME CacheInv PROVE AddedIsCached
  <2> SUFFICES ASSUME NEW claim \in claims, claim.key \notin torn
               PROVE  /\ WholeEntry(cache[claim.key])
                      /\ ImageDigest(cache[claim.key]) = claim.digest
                      /\ claim.digest >= claim.least
    BY DEF AddedIsCached
  <2>1. claim \in Claim /\ EntryInv(claim.key)
    BY <1>1 DEF CacheInv, CacheTypes, Claim
  <2>2. Written(cache[claim.key], Objects + 2, claim.digest) /\ claim.least <= claim.digest
    BY <2>1 DEF EntryInv
  <2>3. claim.digest \in Nat /\ claim.least \in Nat
    BY <2>1 DEF Claim
  <2>4. Objects \in Nat /\ Objects + 2 \in Nat /\ Objects + 2 >= 2 /\ Objects + 2 - 2 = Objects
    BY PackagesAssumption
  <2>5. PICK entry : entry = cache[claim.key]
    OBVIOUS
  <2>6. /\ Parses(entry) /\ Count(entry, "object") = Objects /\ ImageDigest(entry) = claim.digest
        /\ \A i \in DOMAIN entry.json : entry.json[i].digest = claim.digest
    BY <2>2, <2>3, <2>4, <2>5, WrittenFacts
  <2> QED
    BY <2>2, <2>3, <2>5, <2>6 DEF WholeEntry
<1> QED
  BY <1>1, CacheInit, CacheStays, PTL DEF PackageSpec

-----------------------------------------------------------------------------
(* The server: its state, and the messages of the editor *)

Messages == {"open", "change", "save", "files"}
Builders == {"none", "init", "watch", "save", "files"}
Document == [editor : Nat, disk : SUBSET Nat, messages : Seq(Messages), parsing : BOOLEAN, changes : Nat]

Publication(p) == DOMAIN p = {"by", "file", "diags", "old"} /\ p.file \in WorkspaceFiles /\ p.old \in BOOLEAN

ServerTypes ==
    /\ server \in [state : {"off", "initializing", "running", "panicked"}, by : Builders,
                   waiting : {0, 1}, unchecked : BOOLEAN, unpublished : BOOLEAN]
    /\ DOMAIN build = {"by", "text", "deps", "roots", "todo", "packages"}
    /\ build.by \in Builders
    /\ build.roots \in Seq(Dependencies) /\ build.todo \in Seq(Dependencies)
    /\ DOMAIN snapshot = {"text", "nodes", "deps", "packages"}
    /\ DOMAIN loaded = Packages
    /\ poll \in [watching : BOOLEAN, dirty : BOOLEAN, missed : BOOLEAN]
    /\ document \in Document
    /\ DOMAIN shown = {"meta", "document", "old", "due", "coming"}
    /\ \A due \in shown.due : due = <<due[1], due[2]>> /\ due[2] \in WorkspaceFiles
    /\ \A p \in shown.coming : Publication(p)

HasFiles(messages) == \E i \in DOMAIN messages : messages[i] = "files"
\* The last thing the editor told of is a file, if it told of anything.
Settled(messages) ==
    messages \in {<<>>, <<"open">>} \/ (messages # <<>> /\ messages[Len(messages)] = "files")

(* A message less: what it leaves, and what the last one says. *)
LEMMA TailFacts ==
    ASSUME NEW m \in Seq(Messages), m # <<>>
    PROVE  /\ Tail(m) \in Seq(Messages)
           /\ Head(m) # "files" => (HasFiles(Tail(m)) <=> HasFiles(m))
           /\ Settled(m) => Settled(Tail(m))
           /\ Head(m) = "change" /\ Settled(m) => HasFiles(m)
           /\ Head(m) = "files" => HasFiles(m)
<1>1. /\ Len(m) \in Nat /\ Len(m) >= 1 /\ DOMAIN m = 1 .. Len(m) /\ Head(m) = m[1]
      /\ Tail(m) \in Seq(Messages) /\ Len(Tail(m)) = Len(m) - 1 /\ DOMAIN Tail(m) = 1 .. Len(m) - 1
      /\ \A i \in 1 .. Len(m) - 1 : Tail(m)[i] = m[i + 1]
  OBVIOUS
<1>2. PICK t : t = Tail(m)
  OBVIOUS
<1>3. PICK n : n = Len(m)
  OBVIOUS
<1>4. Head(m) # "files" => (HasFiles(t) <=> HasFiles(m))
  <2>1. HasFiles(t) => HasFiles(m)
    <3>1. \A i \in 1 .. n - 1 : i + 1 \in 1 .. n /\ t[i] = m[i + 1]
      BY <1>1, <1>2, <1>3
    <3> QED
      BY <1>1, <1>2, <1>3, <3>1 DEF HasFiles
  <2>2. ASSUME Head(m) # "files", NEW i \in DOMAIN m, m[i] = "files" PROVE HasFiles(t)
    <3>1. i - 1 \in 1 .. n - 1 /\ (i - 1) + 1 = i
      BY <1>1, <1>3, <2>2
    <3>2. t[i - 1] = "files" /\ i - 1 \in DOMAIN t
      BY <1>1, <1>2, <1>3, <2>2, <3>1
    <3> QED
      BY <3>2 DEF HasFiles
  <2> QED
    BY <2>1, <2>2 DEF HasFiles
<1>5. Settled(m) => Settled(t)
  <2>1. CASE n = 1
    <3>1. t = <<>>
      BY <1>1, <1>2, <1>3, <2>1
    <3> QED
      BY <3>1 DEF Settled
  <2>2. CASE n > 1
    <3>1. m # <<"open">> /\ m # <<>>
      BY <1>3, <2>2
    <3>2. Len(t) = n - 1 /\ n - 1 \in 1 .. n - 1 /\ t[n - 1] = m[(n - 1) + 1] /\ (n - 1) + 1 = n
      BY <1>1, <1>2, <1>3, <2>2
    <3>3. t # <<>>
      BY <2>2, <3>2, <1>1, <1>3
    <3>4. Settled(m) => m[n] = "files"
      BY <1>3, <3>1 DEF Settled
    <3> QED
      BY <3>2, <3>3, <3>4 DEF Settled
  <2> QED
    BY <1>1, <1>3, <2>1, <2>2
<1>6. Head(m) = "change" /\ Settled(m) => HasFiles(m)
  <2>1. Head(m) = "change" => m \notin {<<>>, <<"open">>}
    BY <1>1
  <2>2. Len(m) \in DOMAIN m
    BY <1>1
  <2> QED
    BY <2>1, <2>2 DEF Settled, HasFiles
<1>7. 1 \in DOMAIN m
  BY <1>1
<1> QED
  BY <1>1, <1>2, <1>4, <1>5, <1>6, <1>7 DEF HasFiles

(* Messages more: an edit, a file that changed, or a save, which changes one. *)
LEMMA MoreFacts ==
    ASSUME NEW m \in Seq(Messages), NEW s \in {<<"change">>, <<"files">>, <<"save", "files">>}
    PROVE  /\ m \o s \in Seq(Messages)
           /\ HasFiles(m \o s) <=> HasFiles(m) \/ s # <<"change">>
           /\ m # <<>> => m \o s # <<>> /\ Head(m \o s) = Head(m)
           /\ s # <<"change">> => Settled(m \o s)
<1>1. /\ s \in Seq(Messages) /\ Len(s) \in {1, 2} /\ (s # <<"change">> => s[Len(s)] = "files")
      /\ s = <<"change">> => \A i \in DOMAIN s : s[i] # "files"
  <2>1. CASE s = <<"change">>
    BY <2>1 DEF Messages
  <2>2. CASE s = <<"files">>
    BY <2>2 DEF Messages
  <2>3. CASE s = <<"save", "files">>
    BY <2>3 DEF Messages
  <2> QED
    BY <2>1, <2>2, <2>3
<1>2. PICK n : n = Len(m)
  OBVIOUS
<1>3. PICK k : k = Len(s)
  OBVIOUS
<1>4. PICK u : u = m \o s
  OBVIOUS
<1>5. /\ n \in Nat /\ k \in {1, 2} /\ DOMAIN m = 1 .. n /\ DOMAIN s = 1 .. k
      /\ u \in Seq(Messages) /\ Len(u) = n + k /\ DOMAIN u = 1 .. n + k
      /\ \A i \in 1 .. n : u[i] = m[i]
      /\ \A i \in 1 .. k : u[n + i] = s[i]
      /\ \A i \in n + 1 .. n + k : u[i] = s[i - n]
  BY <1>1, <1>2, <1>3, <1>4
<1>6. s # <<"change">> => u[n + k] = "files" /\ n + k \in DOMAIN u /\ u # <<>>
  BY <1>1, <1>3, <1>5
<1>7. HasFiles(u) <=> HasFiles(m) \/ s # <<"change">>
  <2>1. HasFiles(m) => HasFiles(u)
    <3>1. \A i \in 1 .. n : i \in 1 .. n + k
      BY <1>5
    <3> QED
      BY <1>5, <3>1 DEF HasFiles
  <2>2. ASSUME NEW i \in DOMAIN u, u[i] = "files", s = <<"change">> PROVE HasFiles(m)
    <3>1. CASE i \in 1 .. n
      BY <1>5, <2>2, <3>1 DEF HasFiles
    <3>2. CASE i \in n + 1 .. n + k
      <4>1. i - n \in 1 .. k
        BY <1>5, <3>2
      <4> QED
        BY <1>1, <1>5, <2>2, <3>2, <4>1
    <3> QED
      BY <1>5, <2>2, <3>1, <3>2
  <2> QED
    BY <1>6, <2>1, <2>2 DEF HasFiles
<1>8. m # <<>> => u # <<>> /\ Head(u) = Head(m)
  BY <1>2, <1>5
<1> QED
  BY <1>4, <1>5, <1>6, <1>7, <1>8 DEF Settled

-----------------------------------------------------------------------------
(* What the workspace needs of the cache *)

(* The keys dependencies find are keys. *)
LEMMA LocalFacts ==
    ASSUME NEW d \in Dependencies, CachedVersions(cache, d) # {}
    PROVE  LocalKey(d) \in Keys /\ PackageDeps[LocalKey(d)] \in Seq(Dependencies) /\ d.pkg \in Packages
<1>1. CachedVersions(cache, d) \in SUBSET Versions
  BY DEF CachedVersions, Dependencies
<1>2. Newest(CachedVersions(cache, d)) \in Versions
  BY <1>1, NewestFacts
<1>3. LocalKey(d) \in Keys
  BY <1>2 DEF LocalKey, Keys, Dependencies
<1> QED
  BY <1>3, PackagesAssumption DEF Dependencies

(* What is needed is closed, and no more than any closed set has. *)
LEMMA NeededFacts ==
    ASSUME depends \in SUBSET Dependencies
    PROVE  /\ NeededDeps \in SUBSET Dependencies /\ depends \subseteq NeededDeps
           /\ \A d \in NeededDeps : Readable(d) => Range(PackageDeps[LocalKey(d)]) \subseteq NeededDeps
           /\ \A deps \in SUBSET Dependencies : Closed(deps) => NeededDeps \subseteq deps
<1>1. NeededDeps \in SUBSET Dependencies /\ depends \subseteq NeededDeps
  BY DEF NeededDeps, Closed
<1>2. \A deps \in SUBSET Dependencies : Closed(deps) => NeededDeps \subseteq deps
  BY DEF NeededDeps
<1>3. ASSUME NEW d \in NeededDeps, Readable(d), NEW e \in Range(PackageDeps[LocalKey(d)])
      PROVE  e \in NeededDeps
  <2>1. d \in Dependencies /\ CachedVersions(cache, d) # {}
    BY <1>1, <1>3 DEF Readable, InCache
  <2>2. PackageDeps[LocalKey(d)] \in Seq(Dependencies)
    BY <2>1, LocalFacts
  <2>3. e \in Dependencies
    BY <1>3, <2>2 DEF Range
  <2>4. \A deps \in SUBSET Dependencies : Closed(deps) => e \in deps
    BY <1>2, <1>3 DEF Closed
  <2> QED
    BY <2>3, <2>4 DEF NeededDeps
<1> QED
  BY <1>1, <1>2, <1>3

(* What dependencies find depends on the cache and crossplane.yaml alone. *)
LEMMA ViewKept ==
    ASSUME UNCHANGED <<cache, depends>>
    PROVE  /\ NeededDeps' = NeededDeps
           /\ \A d \in Dependencies : /\ LocalKey(d)' = LocalKey(d)
                                      /\ Readable(d)' <=> Readable(d)
                                      /\ Broken(d)' <=> Broken(d)
           /\ \A key : CachedPackage(key)' = CachedPackage(key)
<1>1. \A d \in Dependencies : /\ LocalKey(d)' = LocalKey(d)
                              /\ Readable(d)' <=> Readable(d)
                              /\ Broken(d)' <=> Broken(d)
  BY DEF LocalKey, Readable, Broken, InCache
<1>2. \A deps \in SUBSET Dependencies : Closed(deps)' <=> Closed(deps)
  BY <1>1 DEF Closed
<1>3. NeededDeps' = NeededDeps
  BY <1>2 DEF NeededDeps
<1>4. \A key : CachedPackage(key)' = CachedPackage(key)
  BY DEF CachedPackage
<1> QED
  BY <1>1, <1>3, <1>4

-----------------------------------------------------------------------------
(* The invariant of the server *)

\* The server runs, and no change is under way to it.
Pending == poll.dirty \/ poll.missed \/ server.waiting # 0 \/ HasFiles(document.messages)
Settling == server.state \in {"initializing", "running"} /\ ~Pending

Phases ==
    /\ server.state \in {"off", "initializing"} =>
          /\ ~poll.watching /\ ~poll.dirty /\ server.waiting = 0
          /\ document.messages = <<"open">> /\ document.disk = {} /\ document.editor = 0 /\ ~document.parsing
    /\ server.state = "running" => poll.watching /\ build.by # "init"
    /\ server.state = "initializing" => build.by \in {"none", "init"}
    /\ server.state \in {"off", "panicked"} => build.by = "none"
    /\ build.by = "files" => server.unpublished

MessagesInv ==
    /\ \E k \in 0 .. document.editor : document.disk = 1 .. k
    /\ document.disk = 1 .. document.editor => Settled(document.messages)
    /\ document.parsing => document.messages # <<>> /\ Head(document.messages) = "change"

\* viewed: what View has read so far.
ViewInv ==
    /\ Range(build.roots) \cup Range(build.todo) \subseteq NeededDeps
    /\ (\A d \in NeededDeps : Readable(d)) =>
        \E viewed \in SUBSET NeededDeps :
            /\ depends \subseteq viewed \cup Range(build.roots)
            /\ \A d \in viewed : /\ Range(PackageDeps[LocalKey(d)]) \subseteq viewed \cup Range(build.todo)
                                 /\ \E e \in viewed : e.pkg = d.pkg /\ loaded[d.pkg] = CachedPackage(LocalKey(e))
            /\ build.todo = <<>> /\ viewed # {} => build.packages = loaded

BuildInv ==
    Settling /\ build.by # "none" => build.text = document.disk /\ build.deps = depends /\ ViewInv

PackagesCurrent ==
    (\A d \in NeededDeps : Readable(d)) => \A d \in NeededDeps : \E e \in NeededDeps :
        e.pkg = d.pkg /\ snapshot.packages[d.pkg] = CachedPackage(LocalKey(e))
TextCurrent ==
    document.disk = 1 .. document.editor /\ (\A d \in NeededDeps : ~Broken(d)) =>
        snapshot.text = document.disk /\ snapshot.nodes = {document.disk}

SnapshotInv == Settling /\ build.by = "none" => PackagesCurrent /\ TextCurrent

\* The last validation of a file is still to come, or found what the snapshot
\* shows now; and its publication is still to come, or came last, or too early.
Told(file) ==
    \/ \E due \in shown.due : due[2] = file
    \/ /\ \A p \in shown.coming : p.file = file /\ ~p.old => p.diags = Diagnostics(file)
       /\ \/ \E p \in shown.coming : p.file = file /\ ~p.old
          \/ file \in shown.old
          \/ shown[file] = Diagnostics(file)

DepsInv ==
    Settling /\ build.by \in {"none", "save"} /\ ~server.unpublished =>
        /\ snapshot.deps = depends
        /\ server.state = "running" /\ ~server.unchecked => Told("meta")

ShownInv ==
    server.state = "running" =>
        \/ server.unpublished
        \/ document.messages # <<>> /\ Head(document.messages) = "open"
        \/ Told("document")

ServerInv ==
    /\ ServerTypes /\ Phases /\ MessagesInv
    /\ BuildInv /\ SnapshotInv /\ DepsInv /\ ShownInv

(* What is told of the files stays told while the snapshot shows the same. *)
LEMMA ToldKept ==
    ASSUME shown' = shown, snapshot'.nodes = snapshot.nodes, snapshot'.packages = snapshot.packages
    PROVE  /\ Told("document") => Told("document")'
           /\ cache' = cache /\ snapshot'.deps = snapshot.deps => (Told("meta") => Told("meta")')
<1>1. Diagnostics("document")' = Diagnostics("document")
  BY DEF Diagnostics, DocumentDiagnostics
<1>2. cache' = cache /\ snapshot'.deps = snapshot.deps => Diagnostics("meta")' = Diagnostics("meta")
  BY DEF Diagnostics, MetaDiagnostics
<1> QED
  BY <1>1, <1>2 DEF Told

(* So it does when more validations are due. *)
LEMMA ToldDue ==
    ASSUME ServerTypes, NEW due, shown' = [shown EXCEPT !.due = shown.due \cup due],
           \A d \in due : d = <<d[1], d[2]>> /\ d[2] \in WorkspaceFiles
    PROVE  /\ DOMAIN shown' = {"meta", "document", "old", "due", "coming"}
           /\ \A d \in shown'.due : d = <<d[1], d[2]>> /\ d[2] \in WorkspaceFiles
           /\ \A p \in shown'.coming : Publication(p)
           /\ \A file \in WorkspaceFiles : (\E d \in due : d[2] = file) => Told(file)'
           /\ \A file \in WorkspaceFiles : Told(file) /\ Diagnostics(file)' = Diagnostics(file) => Told(file)'
<1>1. /\ DOMAIN shown = {"meta", "document", "old", "due", "coming"}
      /\ \A d \in shown.due : d = <<d[1], d[2]>> /\ d[2] \in WorkspaceFiles
      /\ \A p \in shown.coming : Publication(p)
  BY DEF ServerTypes
<1>2. /\ DOMAIN shown' = DOMAIN shown /\ shown'.due = shown.due \cup due /\ shown'.coming = shown.coming
      /\ shown'.old = shown.old /\ \A file \in WorkspaceFiles : shown'[file] = shown[file]
  BY <1>1 DEF WorkspaceFiles
<1> QED
  BY <1>1, <1>2 DEF Told

(* A validation tells of its file, and leaves the others as they were told. *)
LEMMA ValidatedTells ==
    ASSUME ServerTypes, NEW by, NEW file \in WorkspaceFiles, shown' = Validated(by, file),
           UNCHANGED <<cache, snapshot>>
    PROVE  /\ DOMAIN shown' = {"meta", "document", "old", "due", "coming"}
           /\ \A d \in shown'.due : d = <<d[1], d[2]>> /\ d[2] \in WorkspaceFiles
           /\ \A p \in shown'.coming : Publication(p)
           /\ Told(file)'
           /\ \A other \in WorkspaceFiles : Told(other) => Told(other)'
<1> DEFINE mine == [by |-> by, file |-> file, diags |-> Diagnostics(file), old |-> FALSE]
           Aged(p) == [p EXCEPT !.old = p.old \/ p.file = file]
<1>1. /\ DOMAIN shown = {"meta", "document", "old", "due", "coming"}
      /\ \A d \in shown.due : d = <<d[1], d[2]>> /\ d[2] \in WorkspaceFiles
      /\ \A p \in shown.coming : Publication(p)
  BY DEF ServerTypes
<1>2. /\ DOMAIN shown' = DOMAIN shown /\ shown'.due = shown.due \ {<<by, file>>}
      /\ shown'.coming = {Aged(p) : p \in shown.coming} \cup {mine}
      /\ shown'.old = shown.old /\ \A f \in WorkspaceFiles : shown'[f] = shown[f]
  BY <1>1 DEF Validated, WorkspaceFiles
<1>3. Publication(mine) /\ mine.file = file /\ ~mine.old /\ mine.diags = Diagnostics(file)
  BY DEF Publication
<1>4. \A p \in shown.coming : /\ Publication(Aged(p)) /\ Aged(p).file = p.file /\ Aged(p).diags = p.diags
                              /\ Aged(p).old <=> p.old \/ p.file = file
  BY <1>1 DEF Publication
<1>5. \A f \in WorkspaceFiles : Diagnostics(f)' = Diagnostics(f)
  BY DEF Diagnostics, MetaDiagnostics
<1>6. Told(file)'
  <2>1. ASSUME NEW p \in shown'.coming, p.file = file, ~p.old
        PROVE  p.diags = Diagnostics(file)'
    <3>1. \A q \in shown.coming : p # Aged(q)
      <4> HIDE DEF Aged
      <4> QED
        BY <1>4, <2>1
    <3>2. p = mine
      BY <1>2, <3>1
    <3> HIDE DEF mine
    <3> QED
      BY <1>3, <1>5, <3>2
  <2>2. mine \in shown'.coming
    BY <1>2
  <2> HIDE DEF mine
  <2> QED
    BY <1>3, <2>1, <2>2 DEF Told
<1>7. ASSUME NEW other \in WorkspaceFiles, other # file, Told(other) PROVE Told(other)'
  <2>1. CASE \E d \in shown.due : d[2] = other
    <3>1. PICK d \in shown.due : d[2] = other
      BY <2>1
    <3>2. d # <<by, file>>
      BY <1>1, <1>7, <3>1
    <3> QED
      BY <1>2, <3>1, <3>2 DEF Told
  <2>2. CASE /\ \A p \in shown.coming : p.file = other /\ ~p.old => p.diags = Diagnostics(other)
             /\ \/ \E p \in shown.coming : p.file = other /\ ~p.old
                \/ other \in shown.old
                \/ shown[other] = Diagnostics(other)
    <3>1. ASSUME NEW p \in shown'.coming, p.file = other, ~p.old
          PROVE  p.diags = Diagnostics(other)'
      <4>1. p # mine
        BY <1>7, <3>1
      <4>2. PICK q \in shown.coming : p = Aged(q)
        BY <1>2, <4>1
      <4>3. q.file = other /\ ~q.old /\ p.diags = q.diags
        <5> HIDE DEF Aged
        <5> QED
          BY <1>4, <3>1, <4>2
      <4> QED
        BY <1>5, <2>2, <4>3
    <3>2. (\E p \in shown.coming : p.file = other /\ ~p.old) => \E p \in shown'.coming : p.file = other /\ ~p.old
      <4> SUFFICES ASSUME NEW p \in shown.coming, p.file = other, ~p.old
                   PROVE  \E q \in shown'.coming : q.file = other /\ ~q.old
        OBVIOUS
      <4>1. Aged(p) \in shown'.coming
        BY <1>2
      <4>2. Aged(p).file = other /\ ~Aged(p).old
        BY <1>4, <1>7
      <4> HIDE DEF Aged
      <4> QED
        BY <4>1, <4>2
    <3> QED
      BY <1>2, <1>5, <2>2, <3>1, <3>2 DEF Told
  <2> QED
    BY <1>7, <2>1, <2>2 DEF Told
<1>8. ASSUME NEW p \in shown'.coming PROVE Publication(p)
  <2>1. p = mine \/ \E q \in shown.coming : p = Aged(q)
    BY <1>2
  <2> HIDE DEF mine, Aged
  <2> QED
    BY <1>3, <1>4, <2>1
<1> QED
  BY <1>1, <1>2, <1>6, <1>7, <1>8

(* A build goes on unharmed while the files it reads stay as they are. *)
LEMMA BuildKept ==
    ASSUME BuildInv, depends \in SUBSET Dependencies,
           Settling' => /\ Settling /\ UNCHANGED <<cache, depends, build, loaded>>
                        /\ document'.disk = document.disk
    PROVE  BuildInv'
<1> SUFFICES ASSUME Settling', build'.by # "none"
             PROVE  build'.text = document'.disk /\ build'.deps = depends' /\ ViewInv'
  BY DEF BuildInv
<1>1. /\ UNCHANGED <<cache, depends, build, loaded>> /\ document'.disk = document.disk
      /\ build.text = document.disk /\ build.deps = depends /\ ViewInv
  BY DEF BuildInv
<1>2. /\ NeededDeps' = NeededDeps /\ NeededDeps \in SUBSET Dependencies
      /\ \A d \in Dependencies : LocalKey(d)' = LocalKey(d) /\ (Readable(d)' <=> Readable(d))
      /\ \A key : CachedPackage(key)' = CachedPackage(key)
  BY <1>1, ViewKept, NeededFacts
<1>3. ViewInv'
  <2>1. Range(build'.roots) \cup Range(build'.todo) \subseteq NeededDeps'
    BY <1>1, <1>2 DEF ViewInv
  <2>2. ASSUME \A d \in NeededDeps' : Readable(d)'
        PROVE  \E viewed \in SUBSET NeededDeps' :
            /\ depends' \subseteq viewed \cup Range(build'.roots)
            /\ \A d \in viewed : /\ Range(PackageDeps[LocalKey(d)']) \subseteq viewed \cup Range(build'.todo)
                                 /\ \E e \in viewed : e.pkg = d.pkg /\ loaded'[d.pkg] = CachedPackage(LocalKey(e))'
            /\ build'.todo = <<>> /\ viewed # {} => build'.packages = loaded'
    <3>1. \A d \in NeededDeps : Readable(d)
      BY <1>2, <2>2
    <3>2. PICK viewed \in SUBSET NeededDeps :
            /\ depends \subseteq viewed \cup Range(build.roots)
            /\ \A d \in viewed : /\ Range(PackageDeps[LocalKey(d)]) \subseteq viewed \cup Range(build.todo)
                                 /\ \E e \in viewed : e.pkg = d.pkg /\ loaded[d.pkg] = CachedPackage(LocalKey(e))
            /\ build.todo = <<>> /\ viewed # {} => build.packages = loaded
      BY <1>1, <3>1 DEF ViewInv
    <3>3. \A d \in viewed : CachedPackage(LocalKey(d))' = CachedPackage(LocalKey(d)) /\ LocalKey(d)' = LocalKey(d)
      BY <1>1, <1>2, <3>2 DEF CachedPackage
    <3> QED
      BY <1>1, <1>2, <3>2, <3>3
  <2> QED
    BY <2>1, <2>2 DEF ViewInv
<1> QED
  BY <1>1, <1>3

(* A snapshot's packages are current while the files are. *)
LEMMA PackagesKept ==
    ASSUME PackagesCurrent, depends \in SUBSET Dependencies, UNCHANGED <<cache, depends>>,
           snapshot'.packages = snapshot.packages
    PROVE  PackagesCurrent'
<1>1. /\ NeededDeps' = NeededDeps /\ NeededDeps \in SUBSET Dependencies
      /\ \A d \in Dependencies : LocalKey(d)' = LocalKey(d) /\ (Readable(d)' <=> Readable(d))
      /\ \A d \in NeededDeps : CachedPackage(LocalKey(d))' = CachedPackage(LocalKey(d))
  <2>1. /\ NeededDeps' = NeededDeps /\ NeededDeps \in SUBSET Dependencies
        /\ \A d \in Dependencies : LocalKey(d)' = LocalKey(d) /\ (Readable(d)' <=> Readable(d))
    BY ViewKept, NeededFacts
  <2> QED
    BY <2>1 DEF CachedPackage
<1> QED
  BY <1>1 DEF PackagesCurrent

(* A snapshot's text is the file's until one of them changes. *)
LEMMA TextKept ==
    ASSUME TextCurrent, depends \in SUBSET Dependencies, UNCHANGED <<cache, depends>>,
           document'.disk = 1 .. document'.editor =>
                document.disk = 1 .. document.editor /\ document'.disk = document.disk
                /\ snapshot'.text = snapshot.text /\ snapshot'.nodes = snapshot.nodes
    PROVE  TextCurrent'
<1>1. /\ NeededDeps' = NeededDeps /\ NeededDeps \in SUBSET Dependencies
      /\ \A d \in Dependencies : Broken(d)' <=> Broken(d)
  BY ViewKept, NeededFacts
<1> QED
  BY <1>1 DEF TextCurrent

-----------------------------------------------------------------------------
(* The steps the server does not make *)

(* What a command or a push does to the server: nothing it sees, a change in *)
(* the cache, or one of crossplane.yaml.                                     *)
LEMMA DepEffects ==
    ASSUME ServerTypes, (\E c \in DepCommands : Dep(c)) \/ Push
    PROVE  /\ UNCHANGED <<server, build, snapshot, loaded, shown>>
           /\ \/ UNCHANGED <<cache, depends, document, poll>>
              \/ CacheChanges /\ UNCHANGED <<depends, document>>
              \/ /\ UNCHANGED cache
                 /\ poll' = [poll EXCEPT !.missed = poll.missed \/ (server.state = "initializing" /\ depends' # depends)]
                 /\ \/ UNCHANGED <<depends, document>>
                    \/ document' = [document EXCEPT !.messages =
                            IF server.state = "running" THEN Append(document.messages, "files") ELSE document.messages]
<1>1. CASE Push
  BY <1>1 DEF Push, serverVars, cacheVars
<1>2. ASSUME NEW c \in DepCommands, Dep(c)
      PROVE  /\ UNCHANGED <<server, build, snapshot, loaded, shown>>
             /\ \/ UNCHANGED <<cache, depends, document, poll>>
                \/ CacheChanges /\ UNCHANGED <<depends, document>>
                \/ /\ UNCHANGED cache
                   /\ poll' = [poll EXCEPT !.missed = poll.missed \/ (server.state = "initializing" /\ depends' # depends)]
                   /\ \/ UNCHANGED <<depends, document>>
                      \/ document' = [document EXCEPT !.messages =
                              IF server.state = "running" THEN Append(document.messages, "files") ELSE document.messages]
  <2>1. CASE RunDep(c) \/ ResolveTag(c) \/ GetPackage(c) \/ FetchImage(c) \/ KillDep(c)
    BY <2>1 DEF RunDep, ResolveTag, GetPackage, FetchImage, KillDep, serverVars, cacheVars
  <2>2. CASE CleanCache(c) \/ CleanEntry(c) \/ WriteDigest(c)
    BY <2>2 DEF CleanCache, CleanEntry, WriteDigest, serverVars, cacheVars
  <2>3. CASE WriteImageMeta(c) \/ WriteMeta(c) \/ WriteObject(c)
    BY <2>3 DEF WriteImageMeta, WriteMeta, WriteObject, Flush, serverVars, cacheVars
  <2>4. CASE EndDep(c)
    BY <2>4 DEF EndDep, serverVars, cacheVars
  <2> QED
    BY <1>2, <2>1, <2>2, <2>3, <2>4 DEF Dep
<1> QED
  BY <1>1, <1>2

(* The commands and the registry: what they change sets the server to work. *)
LEMMA DepKeeps ==
    ASSUME ServerInv, CacheInv, (\E c \in DepCommands : Dep(c)) \/ Push
    PROVE  ServerInv'
<1> USE DEF Builders
<1>0. ServerTypes /\ Phases /\ MessagesInv /\ depends \in SUBSET Dependencies
  BY DEF ServerInv, CacheInv, CacheTypes
<1>1. UNCHANGED <<server, build, snapshot, loaded, shown>>
  BY <1>0, DepEffects
<1>2. /\ ServerTypes' /\ Phases' /\ MessagesInv'
      /\ Settling' => Settling /\ UNCHANGED <<cache, depends, document>>
      /\ document.messages # <<>> => document'.messages # <<>> /\ Head(document'.messages) = Head(document.messages)
  <2>1. CASE UNCHANGED <<cache, depends, document, poll>>
    <3>1. ServerTypes'
      BY <1>0, <1>1, <2>1 DEF ServerTypes
    <3> QED
      BY <1>0, <1>1, <2>1, <3>1 DEF Phases, MessagesInv, Settling, Pending
  <2>2. CASE CacheChanges /\ UNCHANGED <<depends, document>>
    <3>1. /\ poll' = [poll EXCEPT !.dirty = poll.watching, !.missed = poll.missed \/ server.state = "initializing"]
          /\ poll \in [watching : BOOLEAN, dirty : BOOLEAN, missed : BOOLEAN]
      BY <1>0, <2>2 DEF CacheChanges, ServerTypes
    <3>2. /\ poll' \in [watching : BOOLEAN, dirty : BOOLEAN, missed : BOOLEAN]
          /\ poll'.watching = poll.watching /\ poll'.dirty = poll.watching
          /\ poll'.missed = (poll.missed \/ server.state = "initializing")
      BY <3>1
    <3>3. ServerTypes'
      BY <1>0, <1>1, <2>2, <3>2 DEF ServerTypes
    <3>4. Phases' /\ MessagesInv'
      BY <1>0, <1>1, <2>2, <3>2 DEF Phases, MessagesInv
    <3>5. ~Settling'
      BY <1>0, <1>1, <2>2, <3>2 DEF Phases, Settling, Pending
    <3> QED
      BY <2>2, <3>3, <3>4, <3>5
  <2>3. CASE /\ UNCHANGED cache
             /\ poll' = [poll EXCEPT !.missed = poll.missed \/ (server.state = "initializing" /\ depends' # depends)]
             /\ \/ UNCHANGED <<depends, document>>
                \/ document' = [document EXCEPT !.messages =
                        IF server.state = "running" THEN Append(document.messages, "files") ELSE document.messages]
    <3>1. /\ poll' \in [watching : BOOLEAN, dirty : BOOLEAN, missed : BOOLEAN]
          /\ poll'.watching = poll.watching /\ poll'.dirty = poll.dirty
          /\ poll'.missed = (poll.missed \/ (server.state = "initializing" /\ depends' # depends))
      BY <1>0, <2>3 DEF ServerTypes
    <3>2. CASE server.state = "running" /\ document' = [document EXCEPT !.messages = Append(document.messages, "files")]
      <4>1. /\ document.messages \in Seq(Messages)
            /\ Append(document.messages, "files") = document.messages \o <<"files">>
        BY <1>0 DEF ServerTypes, Document
      <4>2. PICK messages : messages = document.messages \o <<"files">>
        OBVIOUS
      <4>3. /\ messages \in Seq(Messages) /\ HasFiles(messages) /\ Settled(messages)
            /\ document.messages # <<>> => messages # <<>> /\ Head(messages) = Head(document.messages)
        BY <4>1, <4>2, MoreFacts
      <4>4. document' = [document EXCEPT !.messages = messages]
        BY <3>2, <4>1, <4>2
      <4>5. /\ document' \in Document /\ document'.messages = messages
            /\ document'.editor = document.editor /\ document'.disk = document.disk /\ document'.parsing = document.parsing
        BY <1>0, <4>3, <4>4 DEF ServerTypes, Document
      <4>6. ServerTypes'
        BY <1>0, <1>1, <3>1, <4>3, <4>5 DEF ServerTypes
      <4>7. Phases' /\ MessagesInv' /\ ~Settling'
        BY <1>0, <1>1, <3>1, <3>2, <4>3, <4>5 DEF Phases, MessagesInv, Settling, Pending
      <4> QED
        BY <4>3, <4>5, <4>6, <4>7
    <3>3. CASE document' = document
      <4>1. ServerTypes'
        BY <1>0, <1>1, <3>1, <3>3 DEF ServerTypes
      <4>2. Phases' /\ MessagesInv'
        BY <1>0, <1>1, <3>1, <3>3 DEF Phases, MessagesInv
      <4>3. Settling' => Settling /\ (depends' = depends \/ server.state = "running")
        BY <1>1, <3>1, <3>3 DEF Settling, Pending
      <4>4. server.state = "running" => depends' = depends \/ HasFiles(document'.messages)
        <5>1. ASSUME server.state = "running", depends' # depends PROVE HasFiles(document'.messages)
          <6>1. document' = [document EXCEPT !.messages = Append(document.messages, "files")]
            BY <2>3, <5>1
          <6>2. document.messages \in Seq(Messages) /\ Append(document.messages, "files") = document.messages \o <<"files">>
            BY <1>0 DEF ServerTypes, Document
          <6>3. HasFiles(document.messages \o <<"files">>)
            BY <6>2, MoreFacts
          <6>4. document'.messages = document.messages \o <<"files">>
            BY <1>0, <6>1, <6>2 DEF ServerTypes, Document
          <6> QED
            BY <6>3, <6>4
        <5> QED
          BY <5>1
      <4>5. Settling' => ~HasFiles(document'.messages)
        BY DEF Settling, Pending
      <4> QED
        BY <2>3, <3>3, <4>1, <4>2, <4>3, <4>4, <4>5
    <3>4. [document EXCEPT !.messages = document.messages] = document
      BY <1>0 DEF ServerTypes, Document
    <3> QED
      BY <2>3, <3>2, <3>3, <3>4
  <2> QED
    BY <1>0, <2>1, <2>2, <2>3, DepEffects
<1>3. BuildInv'
  BY <1>0, <1>1, <1>2, BuildKept DEF ServerInv
<1>4. SnapshotInv'
  <2> SUFFICES ASSUME Settling', build'.by = "none" PROVE PackagesCurrent' /\ TextCurrent'
    BY DEF SnapshotInv
  <2>1. PackagesCurrent /\ TextCurrent
    BY <1>1, <1>2 DEF ServerInv, SnapshotInv
  <2> QED
    BY <1>0, <1>1, <1>2, <2>1, PackagesKept, TextKept
<1>5. DepsInv'
  <2>1. Settling' => UNCHANGED <<cache, depends, server, build, snapshot, shown>>
    BY <1>1, <1>2
  <2>2. Settling' => (Told("meta") => Told("meta")')
    BY <2>1, ToldKept
  <2> QED
    BY <1>2, <2>1, <2>2 DEF ServerInv, DepsInv
<1>6. ShownInv'
  <2>1. Told("document") => Told("document")'
    BY <1>1, ToldKept
  <2> QED
    BY <1>1, <1>2, <2>1 DEF ServerInv, ShownInv
<1> QED
  BY <1>2, <1>3, <1>4, <1>5, <1>6 DEF ServerInv

-----------------------------------------------------------------------------
(* The steps of the server *)

(* A snapshot is begun from the files as they are. *)
LEMMA BeginFacts ==
    ASSUME CacheInv, NEW by \in Builders \ {"none"}, BeginBuild(by),
           UNCHANGED <<cache, depends, loaded>>, document'.disk = document.disk
    PROVE  /\ build.by = "none" /\ build'.by = by
           /\ DOMAIN build' = {"by", "text", "deps", "roots", "todo", "packages"}
           /\ build'.roots \in Seq(Dependencies) /\ build'.todo \in Seq(Dependencies)
           /\ BuildInv'
<1>1. depends \in SUBSET Dependencies /\ IsFiniteSet(depends)
  BY DEF CacheInv, CacheTypes
<1>2. PICK roots : roots = SetToSeq(depends)
  OBVIOUS
<1>3. roots \in Seq(Dependencies) /\ Range(roots) = depends
  <2>1. roots \in Seq(depends) /\ Range(roots) = depends
    BY <1>1, <1>2, InOrder
  <2> QED
    BY <1>1, <2>1
<1>4. /\ build.by = "none" /\ build'.by = by /\ build'.text = document.disk /\ build'.deps = depends
      /\ build'.roots = roots /\ build'.todo = <<>>
      /\ DOMAIN build' = {"by", "text", "deps", "roots", "todo", "packages"}
  BY <1>2 DEF BeginBuild, Unlocked, NoBuild
<1>5. <<>> \in Seq(Dependencies) /\ Range(<<>>) = {}
  BY DEF Range
<1>6. NeededDeps' = NeededDeps /\ depends \subseteq NeededDeps
  BY <1>1, ViewKept, NeededFacts
<1>7. ViewInv'
  <2>1. Range(build'.roots) \cup Range(build'.todo) \subseteq NeededDeps'
    BY <1>3, <1>4, <1>5, <1>6
  <2>2. depends' \subseteq {} \cup Range(build'.roots)
    BY <1>3, <1>4
  <2> QED
    BY <2>1, <2>2 DEF ViewInv
<1>8. BuildInv'
  BY <1>4, <1>7 DEF BuildInv
<1> QED
  BY <1>3, <1>4, <1>5, <1>8

(* Initialize begins the first snapshot, before anything can be missed. *)
LEMMA InitializeKeeps ==
    ASSUME ServerInv, CacheInv, Initialize
    PROVE  ServerInv'
<1>0. ServerTypes /\ Phases /\ MessagesInv
  BY DEF ServerInv
<1>1. /\ server.state = "off" /\ server' = [server EXCEPT !.state = "initializing"] /\ BeginBuild("init")
      /\ UNCHANGED <<cache, depends, snapshot, loaded, document, shown, poll>>
  BY DEF Initialize, cacheVars
<1>2. /\ build'.by = "init" /\ BuildInv'
      /\ DOMAIN build' = {"by", "text", "deps", "roots", "todo", "packages"}
      /\ build'.roots \in Seq(Dependencies) /\ build'.todo \in Seq(Dependencies)
  BY <1>1, BeginFacts DEF Builders
<1>3. server' \in [state : {"off", "initializing", "running", "panicked"}, by : Builders,
                   waiting : {0, 1}, unchecked : BOOLEAN, unpublished : BOOLEAN]
      /\ server'.state = "initializing" /\ server'.waiting = server.waiting
  BY <1>0, <1>1 DEF ServerTypes
<1>4. ServerTypes'
  BY <1>0, <1>1, <1>2, <1>3 DEF ServerTypes, Builders
<1>5. Phases' /\ MessagesInv'
  BY <1>0, <1>1, <1>2, <1>3 DEF Phases, MessagesInv
<1>6. SnapshotInv' /\ DepsInv' /\ ShownInv'
  BY <1>2, <1>3 DEF SnapshotInv, DepsInv, ShownInv
<1> QED
  BY <1>2, <1>4, <1>5, <1>6 DEF ServerInv

(* The watcher's goroutine begins a snapshot of what its event told of. *)
LEMMA WatchKeeps ==
    ASSUME ServerInv, CacheInv, WatchSnapshot
    PROVE  ServerInv'
<1>0. ServerTypes /\ Phases /\ MessagesInv
  BY DEF ServerInv
<1>1. /\ server.state = "running" /\ server' = [server EXCEPT !.waiting = 0] /\ BeginBuild("watch")
      /\ UNCHANGED <<cache, depends, snapshot, loaded, document, shown, poll>>
  BY DEF WatchSnapshot, cacheVars
<1>2. /\ build'.by = "watch" /\ BuildInv'
      /\ DOMAIN build' = {"by", "text", "deps", "roots", "todo", "packages"}
      /\ build'.roots \in Seq(Dependencies) /\ build'.todo \in Seq(Dependencies)
  BY <1>1, BeginFacts DEF Builders
<1>3. server' \in [state : {"off", "initializing", "running", "panicked"}, by : Builders,
                   waiting : {0, 1}, unchecked : BOOLEAN, unpublished : BOOLEAN]
      /\ server'.state = "running" /\ server'.waiting = 0 /\ server'.unpublished = server.unpublished
  BY <1>0, <1>1 DEF ServerTypes
<1>4. ServerTypes'
  BY <1>0, <1>1, <1>2, <1>3 DEF ServerTypes, Builders
<1>5. Phases' /\ MessagesInv'
  BY <1>0, <1>1, <1>2, <1>3 DEF Phases, MessagesInv
<1>6. SnapshotInv' /\ DepsInv'
  BY <1>2 DEF SnapshotInv, DepsInv
<1>7. ShownInv'
  <2>1. Told("document") => Told("document")'
    BY <1>1, ToldKept
  <2> QED
    BY <1>1, <1>3, <2>1 DEF ServerInv, ShownInv
<1> QED
  BY <1>2, <1>4, <1>5, <1>6, <1>7 DEF ServerInv

(* The message at the head is handled; no news of a file is lost but that of *)
(* a file itself.                                                            *)
LEMMA HandledFacts ==
    ASSUME ServerTypes, MessagesInv, document.messages # <<>>,
           document' = [document EXCEPT !.messages = Tail(document.messages)]
                \/ document' = [document EXCEPT !.parsing = FALSE, !.messages = Tail(document.messages)]
                \/ \E edit \in Nat : document' = [document EXCEPT !.changes = edit, !.messages = Tail(document.messages)],
           ~document'.parsing
    PROVE  /\ document' \in Document /\ MessagesInv'
           /\ document'.disk = document.disk /\ document'.editor = document.editor
           /\ Head(document.messages) # "files" =>
                 (HasFiles(document'.messages) <=> HasFiles(document.messages))
           /\ Head(document.messages) = "change" /\ document.disk = 1 .. document.editor => HasFiles(document.messages)
<1>1. PICK messages : messages = Tail(document.messages)
  OBVIOUS
<1>2. document \in Document /\ document.messages \in Seq(Messages)
  BY DEF ServerTypes, Document
<1>3. /\ messages \in Seq(Messages)
      /\ Head(document.messages) # "files" => (HasFiles(messages) <=> HasFiles(document.messages))
      /\ Settled(document.messages) => Settled(messages)
      /\ Head(document.messages) = "change" /\ Settled(document.messages) => HasFiles(document.messages)
  BY <1>1, <1>2, TailFacts
<1>4. /\ document' \in Document /\ document'.messages = messages
      /\ document'.disk = document.disk /\ document'.editor = document.editor
  BY <1>1, <1>2, <1>3 DEF Document
<1>5. MessagesInv'
  BY <1>3, <1>4 DEF MessagesInv
<1> QED
  BY <1>3, <1>4, <1>5 DEF MessagesInv

(* DidSave begins a snapshot while it holds the lock. *)
LEMMA SaveKeeps ==
    ASSUME ServerInv, CacheInv, DidSave
    PROVE  ServerInv'
<1>0. ServerTypes /\ Phases /\ MessagesInv
  BY DEF ServerInv
<1>1. /\ server.state = "running" /\ BeginBuild("save") /\ document.messages # <<>> /\ Head(document.messages) = "save"
      /\ document' = [document EXCEPT !.messages = Tail(document.messages)] /\ ~document.parsing
      /\ UNCHANGED <<cache, depends, server, snapshot, loaded, shown, poll>>
  BY DEF DidSave, Handles, cacheVars
<1>2. ~document'.parsing
  BY <1>0, <1>1 DEF ServerTypes, Document
<1>3. /\ document' \in Document /\ MessagesInv' /\ document'.disk = document.disk
      /\ HasFiles(document'.messages) <=> HasFiles(document.messages)
  BY <1>0, <1>1, <1>2, HandledFacts
<1>4. /\ build'.by = "save" /\ BuildInv' /\ build.by = "none"
      /\ DOMAIN build' = {"by", "text", "deps", "roots", "todo", "packages"}
      /\ build'.roots \in Seq(Dependencies) /\ build'.todo \in Seq(Dependencies)
  BY <1>1, <1>3, BeginFacts DEF Builders
<1>5. ServerTypes'
  BY <1>0, <1>1, <1>3, <1>4 DEF ServerTypes, Builders
<1>6. Phases'
  BY <1>0, <1>1, <1>3, <1>4 DEF Phases
<1>7. SnapshotInv'
  BY <1>4 DEF SnapshotInv
<1>8. Settling' => Settling
  BY <1>1, <1>3 DEF Settling, Pending
<1>9. (Told("meta") => Told("meta")') /\ (Told("document") => Told("document")')
  BY <1>1, ToldKept
<1>10. DepsInv'
  BY <1>1, <1>4, <1>8, <1>9 DEF ServerInv, DepsInv
<1>11. ShownInv'
  BY <1>1, <1>9 DEF ServerInv, ShownInv
<1> QED
  BY <1>3, <1>4, <1>5, <1>6, <1>7, <1>10, <1>11 DEF ServerInv

(* So does DidChangeWatchedFiles, which publishes nothing. *)
LEMMA FilesKeeps ==
    ASSUME ServerInv, CacheInv, DidChangeWatchedFiles
    PROVE  ServerInv'
<1>0. ServerTypes /\ Phases /\ MessagesInv
  BY DEF ServerInv
<1>1. /\ server.state = "running" /\ BeginBuild("files") /\ document.messages # <<>>
      /\ document' = [document EXCEPT !.messages = Tail(document.messages)] /\ ~document.parsing
      /\ server' = [server EXCEPT !.unpublished = TRUE]
      /\ UNCHANGED <<cache, depends, snapshot, loaded, shown, poll>>
  BY DEF DidChangeWatchedFiles, Handles, cacheVars
<1>2. ~document'.parsing
  BY <1>0, <1>1 DEF ServerTypes, Document
<1>3. /\ document' \in Document /\ MessagesInv' /\ document'.disk = document.disk
  BY <1>0, <1>1, <1>2, HandledFacts
<1>4. /\ build'.by = "files" /\ BuildInv' /\ build.by = "none"
      /\ DOMAIN build' = {"by", "text", "deps", "roots", "todo", "packages"}
      /\ build'.roots \in Seq(Dependencies) /\ build'.todo \in Seq(Dependencies)
  BY <1>1, <1>3, BeginFacts DEF Builders
<1>5. server' \in [state : {"off", "initializing", "running", "panicked"}, by : Builders,
                   waiting : {0, 1}, unchecked : BOOLEAN, unpublished : BOOLEAN]
      /\ server'.state = "running" /\ server'.unpublished
  BY <1>0, <1>1 DEF ServerTypes
<1>6. ServerTypes'
  BY <1>0, <1>1, <1>3, <1>4, <1>5 DEF ServerTypes, Builders
<1>7. Phases'
  BY <1>0, <1>1, <1>4, <1>5 DEF Phases
<1>8. SnapshotInv' /\ DepsInv' /\ ShownInv'
  BY <1>4, <1>5 DEF SnapshotInv, DepsInv, ShownInv
<1> QED
  BY <1>3, <1>4, <1>6, <1>7, <1>8 DEF ServerInv

(* A sequence is its head and its tail, *)
LEMMA HeadTail ==
    ASSUME NEW S, NEW s \in Seq(S), s # <<>>
    PROVE  /\ Head(s) \in S /\ Tail(s) \in Seq(S)
           /\ Range(s) = {Head(s)} \cup Range(Tail(s))
<1>1. /\ Len(s) \in Nat /\ Len(s) >= 1 /\ DOMAIN s = 1 .. Len(s) /\ Head(s) = s[1] /\ s[1] \in S
      /\ Tail(s) \in Seq(S) /\ Len(Tail(s)) = Len(s) - 1 /\ DOMAIN Tail(s) = 1 .. Len(s) - 1
      /\ \A i \in 1 .. Len(s) - 1 : Tail(s)[i] = s[i + 1]
  OBVIOUS
<1>2. ASSUME NEW x \in Range(s) PROVE x \in {Head(s)} \cup Range(Tail(s))
  <2>1. PICK i \in 1 .. Len(s) : s[i] = x
    BY <1>1, <1>2 DEF Range
  <2>2. CASE i = 1
    BY <1>1, <2>1, <2>2
  <2>3. CASE i # 1
    <3>1. i - 1 \in 1 .. Len(s) - 1 /\ (i - 1) + 1 = i
      BY <1>1, <2>1, <2>3
    <3>2. Tail(s)[i - 1] = x
      BY <1>1, <2>1, <3>1
    <3> QED
      BY <1>1, <3>1, <3>2 DEF Range
  <2> QED
    BY <2>2, <2>3
<1>3. ASSUME NEW x \in Range(Tail(s)) PROVE x \in Range(s)
  <2>1. PICK i \in 1 .. Len(s) - 1 : Tail(s)[i] = x
    BY <1>1, <1>3 DEF Range
  <2>2. i + 1 \in 1 .. Len(s) /\ s[i + 1] = x
    BY <1>1, <2>1
  <2> QED
    BY <1>1, <2>2 DEF Range
<1>4. Head(s) \in Range(s)
  <2>1. 1 \in 1 .. Len(s)
    BY <1>1
  <2> QED
    BY <1>1, <2>1 DEF Range
<1> QED
  BY <1>1, <1>2, <1>3, <1>4

(* two sequences have what each has, *)
LEMMA BothRanges ==
    ASSUME NEW S, NEW s \in Seq(S), NEW t \in Seq(S)
    PROVE  s \o t \in Seq(S) /\ Range(s \o t) = Range(s) \cup Range(t)
<1>1. PICK u : u = s \o t
  OBVIOUS
<1>2. PICK n \in Nat, k \in Nat : n = Len(s) /\ k = Len(t)
  OBVIOUS
<1>3. /\ DOMAIN s = 1 .. n /\ DOMAIN t = 1 .. k /\ u \in Seq(S) /\ DOMAIN u = 1 .. n + k
      /\ \A i \in 1 .. n : u[i] = s[i]
      /\ \A i \in 1 .. k : u[n + i] = t[i]
      /\ \A i \in n + 1 .. n + k : u[i] = t[i - n]
  BY <1>1, <1>2
<1>4. ASSUME NEW x \in Range(u) PROVE x \in Range(s) \cup Range(t)
  <2>1. PICK i \in 1 .. n + k : u[i] = x
    BY <1>3, <1>4 DEF Range
  <2>2. CASE i \in 1 .. n
    BY <1>3, <2>1, <2>2 DEF Range
  <2>3. CASE i \in n + 1 .. n + k
    <3>1. i - n \in 1 .. k /\ t[i - n] = x
      BY <1>2, <1>3, <2>1, <2>3
    <3> QED
      BY <1>3, <3>1 DEF Range
  <2> QED
    BY <1>2, <2>1, <2>2, <2>3
<1>5. ASSUME NEW x \in Range(s) PROVE x \in Range(u)
  <2>1. PICK i \in 1 .. n : s[i] = x
    BY <1>3, <1>5 DEF Range
  <2>2. i \in 1 .. n + k /\ u[i] = x
    BY <1>2, <1>3, <2>1
  <2> QED
    BY <1>3, <2>2 DEF Range
<1>6. ASSUME NEW x \in Range(t) PROVE x \in Range(u)
  <2>1. PICK i \in 1 .. k : t[i] = x
    BY <1>3, <1>6 DEF Range
  <2>2. n + i \in 1 .. n + k /\ u[n + i] = x
    BY <1>2, <1>3, <2>1
  <2> QED
    BY <1>3, <2>2 DEF Range
<1> QED
  BY <1>1, <1>3, <1>4, <1>5, <1>6

(* and an empty one has nothing. *)
LEMMA EmptyFacts ==
    ASSUME NEW S
    PROVE  <<>> \in Seq(S) /\ Range(<<>>) = {}
BY DEF Range

(* View reads the next dependency: it is needed, and so is what its package *)
(* depends on.                                                              *)
LEMMA ReadKeepsView ==
    ASSUME CacheInv, ServerTypes, ViewInv, UNCHANGED <<cache, depends>>,
           NEW d \in Dependencies, NEW roots \in Seq(Dependencies), NEW rest \in Seq(Dependencies),
           \/ build.todo = <<>> /\ Range(build.roots) = {d} \cup Range(roots) /\ rest = <<>>
           \/ roots = build.roots /\ Range(build.todo) = {d} \cup Range(rest),
           Readable(d),
           loaded' = [loaded EXCEPT ![d.pkg] = CachedPackage(LocalKey(d))],
           build'.roots = roots, build'.todo = PackageDeps[LocalKey(d)] \o rest,
           build'.todo = <<>> => build'.packages = loaded'
    PROVE  ViewInv'
<1>1. depends \in SUBSET Dependencies
  BY DEF CacheInv, CacheTypes
<1>2. /\ NeededDeps' = NeededDeps /\ NeededDeps \in SUBSET Dependencies /\ depends \subseteq NeededDeps
      /\ \A e \in Dependencies : LocalKey(e)' = LocalKey(e) /\ (Readable(e)' <=> Readable(e))
      /\ \A e \in Dependencies : CachedPackage(LocalKey(e))' = CachedPackage(LocalKey(e))
  <2>1. /\ NeededDeps' = NeededDeps /\ NeededDeps \in SUBSET Dependencies /\ depends \subseteq NeededDeps
        /\ \A e \in Dependencies : LocalKey(e)' = LocalKey(e) /\ (Readable(e)' <=> Readable(e))
    BY <1>1, ViewKept, NeededFacts
  <2> QED
    BY <2>1 DEF CachedPackage
<1>3. PICK deps \in Seq(Dependencies) : deps = PackageDeps[LocalKey(d)]
  BY LocalFacts DEF Readable, InCache
<1>4. Range(build'.todo) = Range(deps) \cup Range(rest)
  BY <1>3, BothRanges
<1>5. Range(<<>>) = {}
  BY EmptyFacts
<1>6. d \in NeededDeps
  BY <1>5 DEF ViewInv
<1>7. Range(deps) \subseteq NeededDeps
  BY <1>1, <1>3, <1>6, NeededFacts
<1>8. Range(build'.roots) \cup Range(build'.todo) \subseteq NeededDeps'
  BY <1>2, <1>4, <1>5, <1>7 DEF ViewInv
<1>9. d.pkg \in DOMAIN loaded
  BY LocalFacts DEF ServerTypes, Readable, InCache
<1>10. ASSUME \A e \in NeededDeps : Readable(e)
       PROVE  \E viewed \in SUBSET NeededDeps :
            /\ depends \subseteq viewed \cup Range(build'.roots)
            /\ \A e \in viewed : /\ Range(PackageDeps[LocalKey(e)]) \subseteq viewed \cup Range(build'.todo)
                                 /\ \E f \in viewed : f.pkg = e.pkg /\ loaded'[e.pkg] = CachedPackage(LocalKey(f))
            /\ build'.todo = <<>> /\ viewed # {} => build'.packages = loaded'
  <2>1. PICK before \in SUBSET NeededDeps :
            /\ depends \subseteq before \cup Range(build.roots)
            /\ \A e \in before : /\ Range(PackageDeps[LocalKey(e)]) \subseteq before \cup Range(build.todo)
                                 /\ \E f \in before : f.pkg = e.pkg /\ loaded[e.pkg] = CachedPackage(LocalKey(f))
    BY <1>10 DEF ViewInv
  <2>2. PICK viewed : viewed = before \cup {d}
    OBVIOUS
  <2>3. viewed \in SUBSET NeededDeps /\ depends \subseteq viewed \cup Range(build'.roots)
    BY <1>6, <2>1, <2>2
  <2>4. ASSUME NEW e \in viewed
        PROVE  /\ Range(PackageDeps[LocalKey(e)]) \subseteq viewed \cup Range(build'.todo)
               /\ \E f \in viewed : f.pkg = e.pkg /\ loaded'[e.pkg] = CachedPackage(LocalKey(f))
    <3>1. Range(PackageDeps[LocalKey(e)]) \subseteq viewed \cup Range(build'.todo)
      <4>1. CASE e = d
        BY <1>3, <1>4, <4>1
      <4>2. CASE e \in before
        BY <1>4, <1>5, <2>1, <2>2, <4>2
      <4> QED
        BY <2>2, <2>4, <4>1, <4>2
    <3>2. CASE e.pkg = d.pkg
      BY <1>9, <2>2, <3>1, <3>2
    <3>3. CASE e.pkg # d.pkg
      <4>1. PICK f \in before : f.pkg = e.pkg /\ loaded[e.pkg] = CachedPackage(LocalKey(f))
        BY <2>1, <2>2, <2>4, <3>3
      <4>2. e.pkg \in DOMAIN loaded
        BY <1>2, <2>3, <2>4 DEF ServerTypes, Dependencies
      <4>3. loaded'[e.pkg] = loaded[e.pkg]
        BY <3>3, <4>2
      <4> QED
        BY <2>2, <3>1, <4>1, <4>3
    <3> QED
      BY <3>2, <3>3
  <2> QED
    BY <2>3, <2>4
<1>11. ASSUME \A e \in NeededDeps' : Readable(e)'
       PROVE  \E viewed \in SUBSET NeededDeps' :
            /\ depends' \subseteq viewed \cup Range(build'.roots)
            /\ \A e \in viewed : /\ Range(PackageDeps[LocalKey(e)']) \subseteq viewed \cup Range(build'.todo)
                                 /\ \E f \in viewed : f.pkg = e.pkg /\ loaded'[e.pkg] = CachedPackage(LocalKey(f))'
            /\ build'.todo = <<>> /\ viewed # {} => build'.packages = loaded'
  <2>1. \A e \in NeededDeps : Readable(e)
    BY <1>2, <1>11
  <2>2. PICK viewed \in SUBSET NeededDeps :
            /\ depends \subseteq viewed \cup Range(build'.roots)
            /\ \A e \in viewed : /\ Range(PackageDeps[LocalKey(e)]) \subseteq viewed \cup Range(build'.todo)
                                 /\ \E f \in viewed : f.pkg = e.pkg /\ loaded'[e.pkg] = CachedPackage(LocalKey(f))
            /\ build'.todo = <<>> /\ viewed # {} => build'.packages = loaded'
    BY <1>10, <2>1
  <2>3. \A e \in viewed : LocalKey(e)' = LocalKey(e) /\ CachedPackage(LocalKey(e))' = CachedPackage(LocalKey(e))
    BY <1>2, <2>2
  <2>4. viewed \in SUBSET NeededDeps' /\ depends' \subseteq viewed \cup Range(build'.roots)
    BY <1>2, <2>2
  <2>5. ASSUME NEW e \in viewed
        PROVE  /\ Range(PackageDeps[LocalKey(e)']) \subseteq viewed \cup Range(build'.todo)
               /\ \E f \in viewed : f.pkg = e.pkg /\ loaded'[e.pkg] = CachedPackage(LocalKey(f))'
    <3>1. PICK f \in viewed : f.pkg = e.pkg /\ loaded'[e.pkg] = CachedPackage(LocalKey(f))
      BY <2>2
    <3>2. CachedPackage(LocalKey(f))' = CachedPackage(LocalKey(f))
      BY <2>3
    <3>3. LocalKey(e)' = LocalKey(e) /\ Range(PackageDeps[LocalKey(e)]) \subseteq viewed \cup Range(build'.todo)
      BY <2>2, <2>3
    <3>4. loaded'[e.pkg] = CachedPackage(LocalKey(f))'
      BY <3>1, <3>2
    <3> QED
      BY <3>1, <3>3, <3>4
  <2> QED
    BY <2>2, <2>4, <2>5
<1> QED
  BY <1>8, <1>11 DEF ViewInv

(* The dependency View comes to next, and what is left to read after it. *)
LEMMA ViewEffects ==
    ASSUME ServerTypes, ViewPackage
    PROVE  /\ build.by # "none"
           /\ UNCHANGED <<cache, depends, snapshot, document, shown, poll>>
           /\ \E d \in Dependencies, roots \in Seq(Dependencies), rest \in Seq(Dependencies) :
                /\ \/ build.todo = <<>> /\ Range(build.roots) = {d} \cup Range(roots) /\ rest = <<>>
                   \/ roots = build.roots /\ Range(build.todo) = {d} \cup Range(rest)
                /\ \/ /\ ~Readable(d) /\ UNCHANGED <<loaded, server>>
                      /\ build' = [build EXCEPT !.roots = roots, !.todo = <<>>]
                   \/ Broken(d) /\ BuildFails /\ UNCHANGED loaded
                   \/ /\ Readable(d) /\ UNCHANGED server
                      /\ loaded' = [loaded EXCEPT ![d.pkg] = CachedPackage(LocalKey(d))]
                      /\ build' = [build EXCEPT !.roots = roots, !.todo = PackageDeps[LocalKey(d)] \o rest,
                                    !.packages = IF PackageDeps[LocalKey(d)] \o rest = <<>> THEN loaded' ELSE build.packages]
<1>1. /\ build.by # "none" /\ build.roots \o build.todo # <<>>
      /\ UNCHANGED <<cache, depends, snapshot, document, shown, poll>>
  BY DEF ViewPackage, cacheVars
<1>2. PICK d : d = Head(build.todo \o build.roots)
  OBVIOUS
<1>3. PICK roots : roots = IF build.todo = <<>> THEN Tail(build.roots) ELSE build.roots
  OBVIOUS
<1>4. PICK rest : rest = IF build.todo = <<>> THEN <<>> ELSE Tail(build.todo)
  OBVIOUS
<1>5. build.roots \in Seq(Dependencies) /\ build.todo \in Seq(Dependencies)
  BY DEF ServerTypes
<1>6. /\ d \in Dependencies /\ roots \in Seq(Dependencies) /\ rest \in Seq(Dependencies)
      /\ \/ build.todo = <<>> /\ Range(build.roots) = {d} \cup Range(roots) /\ rest = <<>>
         \/ roots = build.roots /\ Range(build.todo) = {d} \cup Range(rest)
  <2>1. CASE build.todo = <<>>
    <3>1. build.todo \o build.roots = build.roots /\ build.roots # <<>>
      BY <1>1, <1>5, <2>1
    <3>2. d = Head(build.roots) /\ roots = Tail(build.roots) /\ rest = <<>>
      BY <1>2, <1>3, <1>4, <2>1, <3>1
    <3> QED
      BY <1>5, <2>1, <3>1, <3>2, HeadTail, EmptyFacts
  <2>2. CASE build.todo # <<>>
    <3>1. Head(build.todo \o build.roots) = Head(build.todo)
      <4>1. PICK s \in Seq(Dependencies), t \in Seq(Dependencies) : s = build.todo /\ t = build.roots
        BY <1>5
      <4>2. s # <<>> /\ Len(s) \in Nat /\ Len(s) >= 1 /\ Len(s \o t) = Len(s) + Len(t) /\ Len(t) \in Nat
        BY <2>2, <4>1
      <4>4. 1 \in 1 .. Len(s) /\ s \o t \in Seq(Dependencies) /\ s \o t # <<>>
        BY <4>2
      <4>5. (s \o t)[1] = s[1]
        BY <4>2, <4>4
      <4>3. Head(s \o t) = Head(s)
        BY <4>2, <4>4, <4>5
      <4> QED
        BY <4>1, <4>3
    <3>2. d = Head(build.todo) /\ roots = build.roots /\ rest = Tail(build.todo)
      BY <1>2, <1>3, <1>4, <2>2, <3>1
    <3> QED
      BY <1>5, <2>2, <3>2, HeadTail
  <2> QED
    BY <2>1, <2>2
<1>7. \/ /\ ~Readable(d) /\ UNCHANGED <<loaded, server>>
         /\ build' = [build EXCEPT !.roots = roots, !.todo = <<>>]
      \/ Broken(d) /\ BuildFails /\ UNCHANGED loaded
      \/ /\ Readable(d) /\ UNCHANGED server
         /\ loaded' = [loaded EXCEPT ![d.pkg] = CachedPackage(LocalKey(d))]
         /\ build' = [build EXCEPT !.roots = roots, !.todo = PackageDeps[LocalKey(d)] \o rest,
                       !.packages = IF PackageDeps[LocalKey(d)] \o rest = <<>> THEN loaded' ELSE build.packages]
  <2>1. IF CachedVersions(cache, d) = {} \/ ~cache[LocalKey(d)].file
        THEN /\ build' = [build EXCEPT !.roots = roots, !.todo = <<>>]
             /\ UNCHANGED <<loaded, server>>
        ELSE IF ~Parses(cache[LocalKey(d)]) THEN BuildFails /\ UNCHANGED loaded
        ELSE /\ loaded' = [loaded EXCEPT ![d.pkg] = CachedPackage(LocalKey(d))]
             /\ build' = [build EXCEPT !.roots = roots, !.todo = PackageDeps[LocalKey(d)] \o rest,
                                       !.packages = IF PackageDeps[LocalKey(d)] \o rest = <<>> THEN loaded' ELSE build.packages]
             /\ UNCHANGED server
    BY <1>2, <1>3, <1>4 DEF ViewPackage, LocalKey
  <2> QED
    BY <2>1 DEF Readable, Broken, InCache
<1>8. \E x \in Dependencies, y \in Seq(Dependencies), z \in Seq(Dependencies) :
        /\ \/ build.todo = <<>> /\ Range(build.roots) = {x} \cup Range(y) /\ z = <<>>
           \/ y = build.roots /\ Range(build.todo) = {x} \cup Range(z)
        /\ \/ /\ ~Readable(x) /\ UNCHANGED <<loaded, server>>
              /\ build' = [build EXCEPT !.roots = y, !.todo = <<>>]
           \/ Broken(x) /\ BuildFails /\ UNCHANGED loaded
           \/ /\ Readable(x) /\ UNCHANGED server
              /\ loaded' = [loaded EXCEPT ![x.pkg] = CachedPackage(LocalKey(x))]
              /\ build' = [build EXCEPT !.roots = y, !.todo = PackageDeps[LocalKey(x)] \o z,
                            !.packages = IF PackageDeps[LocalKey(x)] \o z = <<>> THEN loaded' ELSE build.packages]
  <2>1. d \in Dependencies /\ roots \in Seq(Dependencies) /\ rest \in Seq(Dependencies)
    BY <1>6
  <2> USE <2>1
  <2> WITNESS d \in Dependencies, roots \in Seq(Dependencies), rest \in Seq(Dependencies)
  <2> QED
    BY <1>6, <1>7
<1> QED
  BY <1>1, <1>8

(* A View that skips, fails or reads. *)
LEMMA ViewKeeps ==
    ASSUME ServerInv, CacheInv, ViewPackage
    PROVE  ServerInv'
<1>0. ServerTypes /\ Phases /\ MessagesInv /\ depends \in SUBSET Dependencies
  BY DEF ServerInv, CacheInv, CacheTypes
<1>1. build.by # "none" /\ UNCHANGED <<cache, depends, snapshot, document, shown, poll>>
  BY <1>0, ViewEffects
<1>2. PICK d \in Dependencies, roots \in Seq(Dependencies), rest \in Seq(Dependencies) :
        /\ \/ build.todo = <<>> /\ Range(build.roots) = {d} \cup Range(roots) /\ rest = <<>>
           \/ roots = build.roots /\ Range(build.todo) = {d} \cup Range(rest)
        /\ \/ /\ ~Readable(d) /\ UNCHANGED <<loaded, server>>
              /\ build' = [build EXCEPT !.roots = roots, !.todo = <<>>]
           \/ Broken(d) /\ BuildFails /\ UNCHANGED loaded
           \/ /\ Readable(d) /\ UNCHANGED server
              /\ loaded' = [loaded EXCEPT ![d.pkg] = CachedPackage(LocalKey(d))]
              /\ build' = [build EXCEPT !.roots = roots, !.todo = PackageDeps[LocalKey(d)] \o rest,
                            !.packages = IF PackageDeps[LocalKey(d)] \o rest = <<>> THEN loaded' ELSE build.packages]
  BY <1>0, ViewEffects
<1>3. MessagesInv'
  BY <1>0, <1>1 DEF MessagesInv
<1>4. (Told("meta") => Told("meta")') /\ (Told("document") => Told("document")')
  BY <1>1, ToldKept
<1>5. <<>> \in Seq(Dependencies) /\ Range(<<>>) = {}
  BY EmptyFacts
<1>6. Settling => d \in NeededDeps /\ ViewInv
  BY <1>1, <1>2, <1>5 DEF ServerInv, BuildInv, ViewInv
<1>7. ASSUME UNCHANGED server, build'.by = build.by, DOMAIN build' = DOMAIN build,
             build'.text = build.text, build'.deps = build.deps,
             build'.roots \in Seq(Dependencies), build'.todo \in Seq(Dependencies), DOMAIN loaded' = DOMAIN loaded,
             Settling => ViewInv'
      PROVE  ServerInv'
  <2>1. ServerTypes'
    BY <1>0, <1>1, <1>7 DEF ServerTypes
  <2>2. Phases'
    BY <1>0, <1>1, <1>7 DEF Phases
  <2>3. Settling' <=> Settling
    BY <1>1, <1>7 DEF Settling, Pending
  <2>4. BuildInv'
    BY <1>1, <1>7, <2>3 DEF ServerInv, BuildInv
  <2>5. SnapshotInv'
    BY <1>1, <1>7 DEF SnapshotInv
  <2>6. DepsInv'
    BY <1>1, <1>4, <1>7, <2>3 DEF ServerInv, DepsInv
  <2>7. ShownInv'
    BY <1>1, <1>4, <1>7 DEF ServerInv, ShownInv
  <2> QED
    BY <1>3, <2>1, <2>2, <2>4, <2>5, <2>6, <2>7 DEF ServerInv
<1>8. CASE ~Readable(d) /\ UNCHANGED <<loaded, server>> /\ build' = [build EXCEPT !.roots = roots, !.todo = <<>>]
  <2>1. /\ build'.by = build.by /\ DOMAIN build' = DOMAIN build /\ build'.text = build.text /\ build'.deps = build.deps
        /\ build'.roots = roots /\ build'.todo = <<>>
    BY <1>0, <1>8 DEF ServerTypes
  <2>2. ASSUME Settling PROVE ViewInv'
    <3>1. d \in NeededDeps /\ ViewInv
      BY <1>6, <2>2
    <3>2. /\ NeededDeps' = NeededDeps
          /\ \A e \in Dependencies : Readable(e)' <=> Readable(e)
      BY <1>1, ViewKept
    <3>3. Range(build'.roots) \cup Range(build'.todo) \subseteq NeededDeps'
      BY <1>2, <1>5, <2>1, <3>1, <3>2 DEF ViewInv
    <3>4. ~\A e \in NeededDeps' : Readable(e)'
      BY <1>8, <3>1, <3>2
    <3> QED
      BY <3>3, <3>4 DEF ViewInv
  <2> QED
    BY <1>5, <1>7, <1>8, <2>1, <2>2
<1>9. CASE Broken(d) /\ BuildFails /\ UNCHANGED loaded
  <2>1. /\ build' = NoBuild /\ build'.by = "none" /\ build'.roots = <<>> /\ build'.todo = <<>>
        /\ DOMAIN build' = {"by", "text", "deps", "roots", "todo", "packages"}
    BY <1>9 DEF BuildFails, NoBuild
  <2>2. /\ server' \in [state : {"off", "initializing", "running", "panicked"}, by : Builders,
                        waiting : {0, 1}, unchecked : BOOLEAN, unpublished : BOOLEAN]
        /\ server'.waiting = server.waiting
        /\ IF build.by \in {"init", "watch"} THEN server'.state = "panicked" ELSE server' = server
    BY <1>0, <1>9 DEF BuildFails, ServerTypes
  <2>3. ServerTypes'
    BY <1>0, <1>1, <1>5, <1>9, <2>1, <2>2 DEF ServerTypes, Builders
  <2>4. Phases'
    BY <1>0, <1>1, <2>1, <2>2 DEF Phases
  <2>5. Settling' => Settling /\ server' = server /\ build.by \notin {"init", "watch"}
    BY <1>1, <2>2 DEF Settling, Pending
  <2>6. BuildInv'
    BY <2>1 DEF BuildInv
  <2>7. SnapshotInv'
    <3> SUFFICES ASSUME Settling' PROVE PackagesCurrent' /\ TextCurrent'
      BY DEF SnapshotInv
    <3>1. d \in NeededDeps
      BY <1>6, <2>5
    <3>2. /\ NeededDeps' = NeededDeps
          /\ \A e \in Dependencies : (Readable(e)' <=> Readable(e)) /\ (Broken(e)' <=> Broken(e))
      BY <1>1, ViewKept
    <3>3. ~Readable(d)' /\ Broken(d)' /\ d \in NeededDeps'
      BY <1>9, <3>1, <3>2 DEF Broken, Readable
    <3> QED
      BY <3>3 DEF PackagesCurrent, TextCurrent
  <2>8. DepsInv'
    <3> SUFFICES ASSUME Settling', ~server'.unpublished PROVE DepsInv'
      BY DEF DepsInv
    <3>1. build.by = "save"
      BY <1>0, <1>1, <2>5 DEF Phases, ServerTypes, Builders
    <3> QED
      BY <1>1, <1>4, <2>5, <3>1 DEF ServerInv, DepsInv
  <2>9. ShownInv'
    BY <1>1, <1>4, <2>2 DEF ServerInv, ShownInv
  <2> QED
    BY <1>3, <2>3, <2>4, <2>6, <2>7, <2>8, <2>9 DEF ServerInv
<1>10. CASE /\ Readable(d) /\ UNCHANGED server
            /\ loaded' = [loaded EXCEPT ![d.pkg] = CachedPackage(LocalKey(d))]
            /\ build' = [build EXCEPT !.roots = roots, !.todo = PackageDeps[LocalKey(d)] \o rest,
                          !.packages = IF PackageDeps[LocalKey(d)] \o rest = <<>> THEN loaded' ELSE build.packages]
  <2>1. PICK todo : todo = PackageDeps[LocalKey(d)] \o rest
    OBVIOUS
  <2>2. todo \in Seq(Dependencies)
    <3>1. PackageDeps[LocalKey(d)] \in Seq(Dependencies)
      BY <1>10, LocalFacts DEF Readable, InCache
    <3> QED
      BY <1>2, <2>1, <3>1, BothRanges
  <2>3. /\ build'.by = build.by /\ DOMAIN build' = DOMAIN build /\ build'.text = build.text /\ build'.deps = build.deps
        /\ build'.roots = roots /\ build'.todo = todo /\ (todo = <<>> => build'.packages = loaded')
        /\ DOMAIN loaded' = DOMAIN loaded
    BY <1>0, <1>10, <2>1 DEF ServerTypes
  <2>4. ASSUME Settling PROVE ViewInv'
    BY <1>0, <1>1, <1>2, <1>6, <1>10, <2>1, <2>3, <2>4, ReadKeepsView
  <2> QED
    BY <1>2, <1>7, <1>10, <2>2, <2>3, <2>4
<1> QED
  BY <1>2, <1>8, <1>9, <1>10

(* View has read all there is to read: the packages that are needed. *)
LEMMA ViewedAll ==
    ASSUME CacheInv, ServerTypes, ViewInv, build.roots \o build.todo = <<>>, \A d \in NeededDeps : Readable(d)
    PROVE  \A d \in NeededDeps : \E e \in NeededDeps :
              e.pkg = d.pkg /\ build.packages[d.pkg] = CachedPackage(LocalKey(e))
<1>1. depends \in SUBSET Dependencies
  BY DEF CacheInv, CacheTypes
<1>2. build.roots = <<>> /\ build.todo = <<>> /\ Range(<<>>) = {}
  <2>1. build.roots \in Seq(Dependencies) /\ build.todo \in Seq(Dependencies)
    BY DEF ServerTypes
  <2>2. PICK s \in Seq(Dependencies), t \in Seq(Dependencies) : s = build.roots /\ t = build.todo
    BY <2>1
  <2>3. Len(s \o t) = Len(s) + Len(t) /\ Len(s) \in Nat /\ Len(t) \in Nat /\ Len(s \o t) = 0
    <3>1. Len(s \o t) = Len(s) + Len(t) /\ Len(s) \in Nat /\ Len(t) \in Nat
      OBVIOUS
    <3>2. s \o t = <<>> /\ Len(<<>>) = 0
      BY <2>2
    <3> QED
      BY <3>1, <3>2
  <2>4. Len(s) = 0 /\ Len(t) = 0
    BY <2>3
  <2> QED
    BY <2>2, <2>4, EmptyFacts
<1>3. PICK viewed \in SUBSET NeededDeps :
        /\ depends \subseteq viewed \cup Range(build.roots)
        /\ \A d \in viewed : /\ Range(PackageDeps[LocalKey(d)]) \subseteq viewed \cup Range(build.todo)
                             /\ \E e \in viewed : e.pkg = d.pkg /\ loaded[d.pkg] = CachedPackage(LocalKey(e))
        /\ build.todo = <<>> /\ viewed # {} => build.packages = loaded
  BY DEF ViewInv
<1>4. NeededDeps \in SUBSET Dependencies
  BY <1>1, NeededFacts
<1>5. Closed(viewed)
  BY <1>2, <1>3 DEF Closed
<1>6. viewed = NeededDeps
  BY <1>1, <1>3, <1>4, <1>5, NeededFacts
<1> QED
  BY <1>2, <1>3, <1>6

(* A snapshot that is done is of the files as they still are, or news of a *)
(* change is under way.                                                    *)
LEMMA EndKeeps ==
    ASSUME ServerInv, CacheInv, EndBuild
    PROVE  ServerInv'
<1>0. ServerTypes /\ Phases /\ MessagesInv /\ depends \in SUBSET Dependencies
  BY DEF ServerInv, CacheInv, CacheTypes
<1>1. /\ build.by # "none" /\ build.roots \o build.todo = <<>>
      /\ build' = NoBuild
      /\ snapshot' = [text |-> build.text, nodes |-> {build.text}, deps |-> build.deps, packages |-> build.packages]
      /\ server' = [server EXCEPT !.unpublished = server.unpublished /\ build.by # "watch"]
      /\ UNCHANGED <<cache, depends, loaded, document, poll>>
  BY DEF EndBuild, BuildEndsFor, Parsed, cacheVars
<1>2. /\ build'.by = "none" /\ build'.roots = <<>> /\ build'.todo = <<>>
      /\ DOMAIN build' = {"by", "text", "deps", "roots", "todo", "packages"}
      /\ <<>> \in Seq(Dependencies)
  BY <1>1, EmptyFacts DEF NoBuild
<1>3. /\ snapshot'.text = build.text /\ snapshot'.nodes = {build.text} /\ snapshot'.deps = build.deps
      /\ snapshot'.packages = build.packages
      /\ DOMAIN snapshot' = {"text", "nodes", "deps", "packages"}
  BY <1>1
<1>4. /\ server' \in [state : {"off", "initializing", "running", "panicked"}, by : Builders,
                      waiting : {0, 1}, unchecked : BOOLEAN, unpublished : BOOLEAN]
      /\ server'.state = server.state /\ server'.waiting = server.waiting /\ server'.unchecked = server.unchecked
      /\ server'.unpublished <=> server.unpublished /\ build.by # "watch"
  BY <1>0, <1>1 DEF ServerTypes
<1>5. /\ DOMAIN shown' = {"meta", "document", "old", "due", "coming"}
      /\ \A d \in shown'.due : d = <<d[1], d[2]>> /\ d[2] \in WorkspaceFiles
      /\ \A p \in shown'.coming : Publication(p)
      /\ build.by = "watch" => Told("meta")' /\ Told("document")'
      /\ build.by = "save" => /\ Told("document")'
                              /\ Told("meta") /\ Diagnostics("meta")' = Diagnostics("meta") => Told("meta")'
  <2>1. PICK files : /\ BuildEndsFor(files)
                     /\ files = IF build.by = "watch" THEN WorkspaceFiles ELSE IF build.by = "save" THEN {"document"} ELSE {}
    BY DEF EndBuild
  <2>7. /\ shown' = [shown EXCEPT !.due = shown.due \cup {build.by} \X files]
        /\ files \in SUBSET WorkspaceFiles
        /\ build.by = "watch" => files = WorkspaceFiles
        /\ build.by = "save" => files = {"document"}
    BY <2>1 DEF BuildEndsFor, WorkspaceFiles
  <2>2. PICK due : due = {build.by} \X files
    OBVIOUS
  <2>3. \A d \in due : d = <<d[1], d[2]>> /\ d[2] \in WorkspaceFiles
    BY <2>2, <2>7
  <2>4. \A file \in files : <<build.by, file>> \in due /\ <<build.by, file>>[2] = file
    BY <2>2
  <2>5. shown' = [shown EXCEPT !.due = shown.due \cup due]
    BY <2>2, <2>7
  <2>6. \A file \in files : \E d \in due : d[2] = file
    BY <2>4
  <2> QED
    BY <1>0, <2>3, <2>5, <2>6, <2>7, ToldDue DEF WorkspaceFiles
<1>6. build.by = "init" <=> server.state = "initializing"
  BY <1>0, <1>1 DEF Phases, ServerTypes, Builders
<1>7. server.state \in {"initializing", "running"}
  BY <1>0, <1>1 DEF Phases, ServerTypes
<1>8. ServerTypes'
  BY <1>0, <1>1, <1>2, <1>3, <1>4, <1>5 DEF ServerTypes, Builders
<1>9. Phases' /\ MessagesInv'
  BY <1>0, <1>1, <1>2, <1>4, <1>6 DEF Phases, MessagesInv
<1>10. BuildInv'
  BY <1>2 DEF BuildInv
<1>11. Settling' => Settling /\ build.text = document.disk /\ build.deps = depends /\ ViewInv
  BY <1>1, <1>4 DEF Settling, Pending, ServerInv, BuildInv
<1>12. SnapshotInv'
  <2> SUFFICES ASSUME Settling' PROVE PackagesCurrent' /\ TextCurrent'
    BY DEF SnapshotInv
  <2>1. TextCurrent'
    BY <1>1, <1>3, <1>11 DEF TextCurrent
  <2>2. /\ NeededDeps' = NeededDeps /\ NeededDeps \in SUBSET Dependencies
        /\ \A d \in Dependencies : (Readable(d)' <=> Readable(d)) /\ LocalKey(d)' = LocalKey(d)
    BY <1>0, <1>1, ViewKept, NeededFacts
  <2>3. \A d \in NeededDeps : CachedPackage(LocalKey(d))' = CachedPackage(LocalKey(d))
    BY <1>1, <2>2 DEF CachedPackage
  <2>4. (\A d \in NeededDeps : Readable(d)) =>
            \A d \in NeededDeps : \E e \in NeededDeps :
                e.pkg = d.pkg /\ build.packages[d.pkg] = CachedPackage(LocalKey(e))
    BY <1>0, <1>1, <1>11, ViewedAll
  <2>5. PackagesCurrent'
    BY <1>3, <2>2, <2>3, <2>4 DEF PackagesCurrent
  <2> QED
    BY <2>1, <2>5
<1>13. DepsInv'
  <2> SUFFICES ASSUME Settling', ~server'.unpublished
               PROVE  /\ snapshot'.deps = depends'
                      /\ server'.state = "running" /\ ~server'.unchecked => Told("meta")'
    BY DEF DepsInv
  <2>1. snapshot'.deps = depends'
    BY <1>1, <1>3, <1>11
  <2>2. CASE build.by = "watch"
    BY <1>5, <2>1, <2>2
  <2>3. CASE build.by = "save"
    <3>1. /\ snapshot.deps = depends
          /\ server.state = "running" /\ ~server.unchecked => Told("meta")
      BY <1>4, <1>11, <2>3 DEF ServerInv, DepsInv
    <3>2. Diagnostics("meta")' = Diagnostics("meta")
      BY <1>1, <2>1, <3>1 DEF Diagnostics, MetaDiagnostics
    <3> QED
      BY <1>4, <1>5, <2>1, <2>3, <3>1, <3>2
  <2>4. CASE build.by \notin {"watch", "save"}
    <3>1. build.by # "files"
      BY <1>0, <1>4, <2>4 DEF Phases
    <3>2. build.by = "init"
      BY <1>0, <1>1, <2>4, <3>1 DEF ServerTypes, Builders
    <3> QED
      BY <1>4, <1>6, <2>1, <3>2
  <2> QED
    BY <2>2, <2>3, <2>4
<1>14. ShownInv'
  <2> SUFFICES ASSUME server'.state = "running", ~server'.unpublished PROVE Told("document")'
    BY DEF ShownInv
  <2>1. build.by \in {"watch", "save"}
    BY <1>0, <1>1, <1>4, <1>6 DEF Phases, ServerTypes, Builders
  <2> QED
    BY <1>5, <2>1
<1> QED
  BY <1>8, <1>9, <1>10, <1>12, <1>13, <1>14 DEF ServerInv

(* The server runs: what changed before has been missed, or seen. *)
LEMMA StartKeeps ==
    ASSUME ServerInv, CacheInv, StartWatching
    PROVE  ServerInv'
<1>0. ServerTypes /\ Phases /\ MessagesInv /\ depends \in SUBSET Dependencies
  BY DEF ServerInv, CacheInv, CacheTypes
<1>1. /\ server.state = "initializing" /\ build.by = "none"
      /\ server' = [server EXCEPT !.state = "running", !.unchecked = TRUE]
      /\ poll' = [poll EXCEPT !.watching = TRUE]
      /\ UNCHANGED <<cache, depends, build, snapshot, loaded, document, shown>>
  BY DEF StartWatching, cacheVars
<1>2. /\ server' \in [state : {"off", "initializing", "running", "panicked"}, by : Builders,
                      waiting : {0, 1}, unchecked : BOOLEAN, unpublished : BOOLEAN]
      /\ server'.state = "running" /\ server'.waiting = server.waiting /\ server'.unchecked
      /\ server'.unpublished = server.unpublished
      /\ poll' \in [watching : BOOLEAN, dirty : BOOLEAN, missed : BOOLEAN]
      /\ poll'.watching /\ poll'.dirty = poll.dirty /\ poll'.missed = poll.missed
  BY <1>0, <1>1 DEF ServerTypes
<1>3. ServerTypes'
  BY <1>0, <1>1, <1>2 DEF ServerTypes
<1>4. Phases' /\ MessagesInv'
  BY <1>0, <1>1, <1>2 DEF Phases, MessagesInv
<1>5. Settling' => Settling
  BY <1>1, <1>2 DEF Settling, Pending
<1>6. BuildInv'
  BY <1>1 DEF BuildInv
<1>7. SnapshotInv'
  <2> SUFFICES ASSUME Settling' PROVE PackagesCurrent' /\ TextCurrent'
    BY DEF SnapshotInv
  <2>1. PackagesCurrent /\ TextCurrent
    BY <1>1, <1>5 DEF ServerInv, SnapshotInv
  <2> QED
    BY <1>0, <1>1, <2>1, PackagesKept, TextKept
<1>8. DepsInv'
  BY <1>1, <1>2, <1>5 DEF ServerInv, DepsInv
<1>9. ShownInv'
  <2>1. document'.messages = <<"open">>
    BY <1>0, <1>1 DEF Phases
  <2>2. <<"open">> # <<>> /\ Head(<<"open">>) = "open"
    OBVIOUS
  <2> QED
    BY <2>1, <2>2 DEF ShownInv
<1> QED
  BY <1>3, <1>4, <1>6, <1>7, <1>8, <1>9 DEF ServerInv

(* Steps that only publish, or prepare to. *)
LEMMA PublishingKeeps ==
    ASSUME ServerInv, CacheInv,
           UNCHANGED <<cache, depends, server, build, snapshot, loaded, document, poll>>,
           DOMAIN shown' = {"meta", "document", "old", "due", "coming"},
           \A d \in shown'.due : d = <<d[1], d[2]>> /\ d[2] \in WorkspaceFiles,
           \A p \in shown'.coming : Publication(p),
           \A file \in WorkspaceFiles : Told(file) => Told(file)'
    PROVE  ServerInv'
<1>0. ServerTypes /\ Phases /\ MessagesInv /\ depends \in SUBSET Dependencies
  BY DEF ServerInv, CacheInv, CacheTypes
<1>1. ServerTypes' /\ Phases' /\ MessagesInv'
  BY <1>0 DEF ServerTypes, Phases, MessagesInv
<1>2. Settling' <=> Settling
  BY DEF Settling, Pending
<1>3. BuildInv'
  BY <1>0, <1>2, BuildKept DEF ServerInv
<1>4. SnapshotInv'
  BY <1>0, <1>2, PackagesKept, TextKept DEF ServerInv, SnapshotInv
<1>5. DepsInv' /\ ShownInv'
  BY <1>2 DEF ServerInv, DepsInv, ShownInv, WorkspaceFiles
<1> QED
  BY <1>1, <1>3, <1>4, <1>5 DEF ServerInv

(* checkMetaFile shows what crossplane.yaml lacks now. *)
LEMMA CheckKeeps ==
    ASSUME ServerInv, CacheInv, CheckMetaFile
    PROVE  ServerInv'
<1>0. ServerTypes /\ Phases /\ MessagesInv /\ depends \in SUBSET Dependencies
  BY DEF ServerInv, CacheInv, CacheTypes
<1>1. /\ server' = [server EXCEPT !.unchecked = FALSE]
      /\ shown' = Validated("check", "meta")
      /\ UNCHANGED <<cache, depends, build, snapshot, loaded, document, poll>>
  BY DEF CheckMetaFile, cacheVars
<1>2. /\ server' \in [state : {"off", "initializing", "running", "panicked"}, by : Builders,
                      waiting : {0, 1}, unchecked : BOOLEAN, unpublished : BOOLEAN]
      /\ server'.state = server.state /\ server'.waiting = server.waiting
      /\ server'.unpublished = server.unpublished
  BY <1>0, <1>1 DEF ServerTypes
<1>8. /\ DOMAIN shown' = {"meta", "document", "old", "due", "coming"}
      /\ \A d \in shown'.due : d = <<d[1], d[2]>> /\ d[2] \in WorkspaceFiles
      /\ \A p \in shown'.coming : Publication(p)
      /\ Told("meta")' /\ (Told("document") => Told("document")')
  BY <1>0, <1>1, ValidatedTells DEF WorkspaceFiles
<1>3. ServerTypes'
  BY <1>0, <1>1, <1>2, <1>8 DEF ServerTypes
<1>4. Phases' /\ MessagesInv'
  BY <1>0, <1>1, <1>2 DEF Phases, MessagesInv
<1>5. Settling' => Settling
  BY <1>1, <1>2 DEF Settling, Pending
<1>6. BuildInv'
  BY <1>0, <1>1, <1>5, BuildKept DEF ServerInv
<1>7. SnapshotInv'
  <2> SUFFICES ASSUME Settling', build'.by = "none" PROVE PackagesCurrent' /\ TextCurrent'
    BY DEF SnapshotInv
  <2>1. PackagesCurrent /\ TextCurrent
    BY <1>1, <1>5 DEF ServerInv, SnapshotInv
  <2> QED
    BY <1>0, <1>1, <2>1, PackagesKept, TextKept
<1>9. DepsInv'
  BY <1>1, <1>2, <1>5, <1>8 DEF ServerInv, DepsInv
<1>10. ShownInv'
  BY <1>1, <1>2, <1>8 DEF ServerInv, ShownInv
<1> QED
  BY <1>3, <1>4, <1>6, <1>7, <1>9, <1>10 DEF ServerInv

(* A validation that was due tells of its file. *)
LEMMA ValidateKeeps ==
    ASSUME ServerInv, CacheInv, Validate
    PROVE  ServerInv'
<1>0. ServerTypes /\ Phases /\ MessagesInv /\ depends \in SUBSET Dependencies
  BY DEF ServerInv, CacheInv, CacheTypes
<1>1. UNCHANGED <<cache, depends, server, build, snapshot, loaded, document, poll>>
  BY DEF Validate, cacheVars
<1>2. PICK by, file : file \in WorkspaceFiles /\ shown' = Validated(by, file)
  <2>1. PICK due \in shown.due : shown' = Validated(due[1], due[2])
    BY DEF Validate
  <2> QED
    BY <1>0, <2>1 DEF ServerTypes
<1>3. /\ DOMAIN shown' = {"meta", "document", "old", "due", "coming"}
      /\ \A d \in shown'.due : d = <<d[1], d[2]>> /\ d[2] \in WorkspaceFiles
      /\ \A p \in shown'.coming : Publication(p)
      /\ \A f \in WorkspaceFiles : Told(f) => Told(f)'
  BY <1>0, <1>1, <1>2, ValidatedTells
<1> QED
  BY <1>0, <1>1, <1>3, PublishingKeeps

(* A publication that is old is known to be, and one that is not is current. *)
LEMMA PublishKeeps ==
    ASSUME ServerInv, CacheInv, Publish
    PROVE  ServerInv'
<1>0. ServerTypes
  BY DEF ServerInv
<1>1. UNCHANGED <<cache, depends, server, build, snapshot, loaded, document, poll>>
  BY DEF Publish, cacheVars
<1>2. PICK p \in shown.coming :
        shown' = [shown EXCEPT ![p.file] = p.diags, !.coming = shown.coming \ {p},
                               !.old = IF p.old THEN shown.old \cup {p.file} ELSE shown.old \ {p.file}]
  BY DEF Publish
<1>3. /\ Publication(p) /\ p.file \in WorkspaceFiles
      /\ DOMAIN shown = {"meta", "document", "old", "due", "coming"}
      /\ \A d \in shown.due : d = <<d[1], d[2]>> /\ d[2] \in WorkspaceFiles
      /\ \A q \in shown.coming : Publication(q)
  BY <1>0 DEF ServerTypes, Publication
<1>4. /\ DOMAIN shown' = {"meta", "document", "old", "due", "coming"}
      /\ shown'.due = shown.due /\ shown'.coming = shown.coming \ {p}
      /\ p.old => shown'.old = shown.old \cup {p.file}
      /\ ~p.old => shown'.old = shown.old \ {p.file}
      /\ shown'[p.file] = p.diags
      /\ \A f \in WorkspaceFiles \ {p.file} : shown'[f] = shown[f]
  BY <1>2, <1>3 DEF WorkspaceFiles
<1>5. \A f \in WorkspaceFiles : Diagnostics(f)' = Diagnostics(f)
  BY <1>1 DEF Diagnostics, MetaDiagnostics
<1>6. ASSUME NEW f \in WorkspaceFiles, Told(f) PROVE Told(f)'
  <2>1. CASE \E due \in shown.due : due[2] = f
    BY <1>4, <2>1 DEF Told
  <2>2. CASE f = p.file
    BY <1>4, <1>5, <1>6, <2>2 DEF Told
  <2>3. CASE f # p.file /\ ~(\E due \in shown.due : due[2] = f)
    <3>1. /\ \A q \in shown.coming : q.file = f /\ ~q.old => q.diags = Diagnostics(f)
          /\ \/ \E q \in shown.coming : q.file = f /\ ~q.old
             \/ f \in shown.old
             \/ shown[f] = Diagnostics(f)
      BY <1>6, <2>3 DEF Told
    <3>2. (\E q \in shown.coming : q.file = f /\ ~q.old) => \E q \in shown'.coming : q.file = f /\ ~q.old
      BY <1>4, <2>3
    <3> QED
      BY <1>4, <1>5, <2>3, <3>1, <3>2 DEF Told
  <2> QED
    BY <2>1, <2>2, <2>3
<1> QED
  BY <1>1, <1>3, <1>4, <1>6, PublishingKeeps

(* A poll hands its news to a goroutine. *)
LEMMA PollKeeps ==
    ASSUME ServerInv, CacheInv, Poll
    PROVE  ServerInv'
<1>0. ServerTypes /\ Phases /\ MessagesInv
  BY DEF ServerInv
<1>1. /\ server.state = "running"
      /\ server' = [server EXCEPT !.waiting = 1]
      /\ poll' = [poll EXCEPT !.dirty = FALSE]
      /\ UNCHANGED <<cache, depends, build, snapshot, loaded, document, shown>>
  BY DEF Poll, cacheVars
<1>2. /\ server' \in [state : {"off", "initializing", "running", "panicked"}, by : Builders,
                      waiting : {0, 1}, unchecked : BOOLEAN, unpublished : BOOLEAN]
      /\ server'.state = server.state /\ server'.waiting = 1 /\ server'.unpublished = server.unpublished
      /\ poll' \in [watching : BOOLEAN, dirty : BOOLEAN, missed : BOOLEAN] /\ poll'.watching = poll.watching
  BY <1>0, <1>1 DEF ServerTypes
<1>3. ServerTypes'
  BY <1>0, <1>1, <1>2 DEF ServerTypes
<1>4. Phases' /\ MessagesInv'
  BY <1>0, <1>1, <1>2 DEF Phases, MessagesInv
<1>5. ~Settling'
  BY <1>2 DEF Settling, Pending
<1>6. BuildInv' /\ SnapshotInv' /\ DepsInv'
  BY <1>5 DEF BuildInv, SnapshotInv, DepsInv
<1>7. Told("document") => Told("document")'
  BY <1>1, ToldKept
<1>8. ShownInv'
  BY <1>1, <1>2, <1>7 DEF ServerInv, ShownInv
<1> QED
  BY <1>3, <1>4, <1>6, <1>8 DEF ServerInv

(* DidOpen shows what the document lacks now. *)
LEMMA OpenKeeps ==
    ASSUME ServerInv, CacheInv, DidOpen
    PROVE  ServerInv'
<1>0. ServerTypes /\ Phases /\ MessagesInv /\ depends \in SUBSET Dependencies
  BY DEF ServerInv, CacheInv, CacheTypes
<1>1. /\ server.state = "running" /\ document.messages # <<>> /\ Head(document.messages) = "open" /\ ~document.parsing
      /\ document' = [document EXCEPT !.messages = Tail(document.messages)]
      /\ shown' = Validated("handler", "document")
      /\ UNCHANGED <<cache, depends, server, build, snapshot, loaded, poll>>
  BY DEF DidOpen, Handles, cacheVars
<1>2. ~document'.parsing
  BY <1>0, <1>1 DEF ServerTypes, Document
<1>3. /\ document' \in Document /\ MessagesInv' /\ document'.disk = document.disk /\ document'.editor = document.editor
      /\ HasFiles(document'.messages) <=> HasFiles(document.messages)
  BY <1>0, <1>1, <1>2, HandledFacts
<1>4. /\ DOMAIN shown' = {"meta", "document", "old", "due", "coming"}
      /\ \A d \in shown'.due : d = <<d[1], d[2]>> /\ d[2] \in WorkspaceFiles
      /\ \A p \in shown'.coming : Publication(p)
      /\ Told("document")' /\ (Told("meta") => Told("meta")')
  BY <1>0, <1>1, ValidatedTells DEF WorkspaceFiles
<1>5. ServerTypes'
  BY <1>0, <1>1, <1>3, <1>4 DEF ServerTypes
<1>6. Phases'
  BY <1>0, <1>1, <1>3 DEF Phases
<1>7. Settling' => Settling
  BY <1>1, <1>3 DEF Settling, Pending
<1>8. BuildInv'
  BY <1>0, <1>1, <1>3, <1>7, BuildKept DEF ServerInv
<1>9. SnapshotInv'
  <2> SUFFICES ASSUME Settling', build'.by = "none" PROVE PackagesCurrent' /\ TextCurrent'
    BY DEF SnapshotInv
  <2>1. PackagesCurrent /\ TextCurrent
    BY <1>1, <1>7 DEF ServerInv, SnapshotInv
  <2> QED
    BY <1>0, <1>1, <1>3, <2>1, PackagesKept, TextKept
<1>11. DepsInv'
  BY <1>1, <1>4, <1>7 DEF ServerInv, DepsInv
<1>12. ShownInv'
  BY <1>4 DEF ShownInv
<1> QED
  BY <1>3, <1>5, <1>6, <1>8, <1>9, <1>11, <1>12 DEF ServerInv

(* An edit is handled while the save that follows it is still to come: then *)
(* the file's text is not the editor's, or news of the file is under way.   *)
LEMMA UpdateKeeps ==
    ASSUME ServerInv, CacheInv, UpdateContent
    PROVE  ServerInv'
<1>0. ServerTypes /\ Phases /\ MessagesInv /\ depends \in SUBSET Dependencies
  BY DEF ServerInv, CacheInv, CacheTypes
<1>1. /\ server.state = "running" /\ document.messages # <<>> /\ Head(document.messages) = "change" /\ ~document.parsing
      /\ UNCHANGED <<cache, depends, server, build, loaded, shown, poll>>
      /\ \E edit, text :
            /\ edit = document.changes + 1
            /\ \/ /\ document' = [document EXCEPT !.changes = edit, !.parsing = TRUE]
                  /\ snapshot' = [snapshot EXCEPT !.text = text]
               \/ /\ document' = [document EXCEPT !.changes = edit, !.messages = Tail(document.messages)]
                  /\ UNCHANGED snapshot
  BY DEF UpdateContent, Handles, cacheVars
<1>2. /\ DOMAIN snapshot' = DOMAIN snapshot /\ snapshot'.nodes = snapshot.nodes /\ snapshot'.deps = snapshot.deps
      /\ snapshot'.packages = snapshot.packages
  BY <1>0, <1>1 DEF ServerTypes
<1>3. /\ document' \in Document /\ MessagesInv' /\ document'.disk = document.disk /\ document'.editor = document.editor
      /\ HasFiles(document'.messages) <=> HasFiles(document.messages)
      /\ document.disk = 1 .. document.editor => HasFiles(document.messages)
  <2>1. document.changes + 1 \in Nat /\ document \in Document /\ document.messages \in Seq(Messages)
    BY <1>0 DEF ServerTypes, Document
  <2>2. document.disk = 1 .. document.editor => HasFiles(document.messages)
    BY <1>0, <1>1, <2>1, TailFacts DEF MessagesInv
  <2>3. CASE document' = [document EXCEPT !.changes = document.changes + 1, !.parsing = TRUE]
    <3>1. /\ document' \in Document /\ document'.disk = document.disk /\ document'.editor = document.editor
          /\ document'.messages = document.messages
      BY <2>1, <2>3 DEF Document
    <3>2. MessagesInv'
      BY <1>0, <1>1, <3>1 DEF MessagesInv
    <3> QED
      BY <2>2, <3>1, <3>2
  <2>4. CASE document' = [document EXCEPT !.changes = document.changes + 1, !.messages = Tail(document.messages)]
    <3>1. ~document'.parsing
      BY <1>1, <2>1, <2>4 DEF Document
    <3> QED
      BY <1>0, <1>1, <2>1, <2>2, <2>4, <3>1, HandledFacts
  <2> QED
    BY <1>1, <2>3, <2>4
<1>4. ServerTypes'
  BY <1>0, <1>1, <1>2, <1>3 DEF ServerTypes
<1>5. Phases'
  BY <1>0, <1>1, <1>3 DEF Phases
<1>6. Settling' => Settling
  BY <1>1, <1>3 DEF Settling, Pending
<1>7. BuildInv'
  BY <1>0, <1>1, <1>3, <1>6, BuildKept DEF ServerInv
<1>8. SnapshotInv'
  <2> SUFFICES ASSUME Settling', build'.by = "none" PROVE PackagesCurrent' /\ TextCurrent'
    BY DEF SnapshotInv
  <2>1. PackagesCurrent /\ TextCurrent
    BY <1>1, <1>6 DEF ServerInv, SnapshotInv
  <2>2. document'.disk # 1 .. document'.editor
    BY <1>3, <1>6 DEF Settling, Pending
  <2> QED
    BY <1>0, <1>1, <1>2, <2>1, <2>2, PackagesKept, TextKept
<1>9. (Told("meta") => Told("meta")') /\ (Told("document") => Told("document")')
  BY <1>1, <1>2, ToldKept
<1>10. DepsInv'
  BY <1>1, <1>2, <1>6, <1>9 DEF ServerInv, DepsInv
<1>11. ShownInv'
  BY <1>0, <1>1, <1>9 DEF ServerInv, ShownInv
<1> QED
  BY <1>3, <1>4, <1>5, <1>7, <1>8, <1>10, <1>11 DEF ServerInv

(* The objects of an edit: the save that follows is still to come. *)
LEMMA ReParseKeeps ==
    ASSUME ServerInv, CacheInv, ReParseFile
    PROVE  ServerInv'
<1>0. ServerTypes /\ Phases /\ MessagesInv /\ depends \in SUBSET Dependencies
  BY DEF ServerInv, CacheInv, CacheTypes
<1>1. /\ server.state = "running" /\ document.messages # <<>> /\ Head(document.messages) = "change"
      /\ document' = [document EXCEPT !.parsing = FALSE, !.messages = Tail(document.messages)]
      /\ UNCHANGED <<cache, depends, server, build, loaded, poll>>
      /\ \E nodes : snapshot' = [snapshot EXCEPT !.nodes = nodes]
      /\ shown' = [shown EXCEPT !.due = shown.due \cup {<<"handler", "document">>}]
  BY <1>0 DEF ReParseFile, MessagesInv, cacheVars
<1>2. ~document'.parsing
  BY <1>0, <1>1 DEF ServerTypes, Document
<1>3. /\ document' \in Document /\ MessagesInv' /\ document'.disk = document.disk /\ document'.editor = document.editor
      /\ HasFiles(document'.messages) <=> HasFiles(document.messages)
      /\ document.disk = 1 .. document.editor => HasFiles(document.messages)
  BY <1>0, <1>1, <1>2, HandledFacts
<1>4. /\ DOMAIN snapshot' = DOMAIN snapshot /\ snapshot'.deps = snapshot.deps /\ snapshot'.packages = snapshot.packages
  BY <1>0, <1>1 DEF ServerTypes
<1>6. /\ DOMAIN shown' = {"meta", "document", "old", "due", "coming"}
      /\ \A d \in shown'.due : d = <<d[1], d[2]>> /\ d[2] \in WorkspaceFiles
      /\ \A p \in shown'.coming : Publication(p)
      /\ Told("document")' /\ (Told("meta") => Told("meta")')
  <2>1. PICK due : due = {<<"handler", "document">>}
    OBVIOUS
  <2>2. /\ \A d \in due : d = <<d[1], d[2]>> /\ d[2] \in WorkspaceFiles
        /\ \E d \in due : d[2] = "document"
    BY <2>1 DEF WorkspaceFiles
  <2>3. Diagnostics("meta")' = Diagnostics("meta")
    BY <1>1, <1>4 DEF Diagnostics, MetaDiagnostics
  <2> QED
    BY <1>0, <1>1, <2>1, <2>2, <2>3, ToldDue DEF WorkspaceFiles
<1>7. ServerTypes'
  BY <1>0, <1>1, <1>3, <1>4, <1>6 DEF ServerTypes
<1>8. Phases'
  BY <1>0, <1>1, <1>3 DEF Phases
<1>9. Settling' => Settling
  BY <1>1, <1>3 DEF Settling, Pending
<1>10. BuildInv'
  BY <1>0, <1>1, <1>3, <1>9, BuildKept DEF ServerInv
<1>11. SnapshotInv'
  <2> SUFFICES ASSUME Settling', build'.by = "none" PROVE PackagesCurrent' /\ TextCurrent'
    BY DEF SnapshotInv
  <2>1. PackagesCurrent /\ TextCurrent
    BY <1>1, <1>9 DEF ServerInv, SnapshotInv
  <2>2. document'.disk # 1 .. document'.editor
    BY <1>3, <1>9 DEF Settling, Pending
  <2> QED
    BY <1>0, <1>1, <1>4, <2>1, <2>2, PackagesKept, TextKept
<1>13. DepsInv'
  BY <1>1, <1>4, <1>6, <1>9 DEF ServerInv, DepsInv
<1>14. ShownInv'
  BY <1>6 DEF ShownInv
<1> QED
  BY <1>3, <1>7, <1>8, <1>10, <1>11, <1>13, <1>14 DEF ServerInv

-----------------------------------------------------------------------------
(* The editor, and all together *)

(* The editor's edits leave the file behind, its saves tell of it. *)
LEMMA EditorKeeps ==
    ASSUME ServerInv, CacheInv, Editor
    PROVE  ServerInv'
<1>0. ServerTypes /\ Phases /\ MessagesInv /\ depends \in SUBSET Dependencies
  BY DEF ServerInv, CacheInv, CacheTypes
<1>1. server.state = "running" /\ UNCHANGED <<cache, depends, server, build, snapshot, loaded, shown, poll>>
  BY DEF Editor, EditDocument, SaveDocument, cacheVars
<1>2. /\ document \in Document /\ document.messages \in Seq(Messages) /\ document.editor \in Nat
      /\ document.editor + 1 \in Nat /\ 1 .. document.editor \in SUBSET Nat
  BY <1>0 DEF ServerTypes, Document
<1>a. Append(document.messages, "change") = document.messages \o <<"change">>
  <2>1. PICK m \in Seq(Messages) : m = document.messages
    BY <1>2
  <2>2. Append(m, "change") = m \o <<"change">>
    BY DEF Messages
  <2> QED
    BY <2>1, <2>2
<1>3. PICK k \in 0 .. document.editor : document.disk = 1 .. k
  BY <1>0 DEF MessagesInv
<1>4. /\ document' \in Document /\ MessagesInv'
      /\ Settling' => Settling /\ document'.disk = document.disk /\ document'.disk # 1 .. document'.editor
      /\ document.messages # <<>> => document'.messages # <<>> /\ Head(document'.messages) = Head(document.messages)
  <2>1. CASE EditDocument
    <3>1. PICK messages : messages = document.messages \o <<"change">>
      OBVIOUS
    <3>2. /\ messages \in Seq(Messages) /\ (HasFiles(messages) <=> HasFiles(document.messages))
          /\ document.messages # <<>> => messages # <<>> /\ Head(messages) = Head(document.messages)
      BY <1>2, <3>1, MoreFacts
    <3>3. document' = [document EXCEPT !.editor = document.editor + 1, !.messages = messages]
      BY <1>a, <2>1, <3>1 DEF EditDocument
    <3>4. /\ document' \in Document /\ document'.editor = document.editor + 1 /\ document'.messages = messages
          /\ document'.disk = document.disk /\ document'.parsing = document.parsing
      BY <1>2, <3>2, <3>3 DEF Document
    <3>5. 1 .. k # 1 .. document.editor + 1 /\ k \in 0 .. document.editor + 1
      <4>1. document.editor + 1 \in 1 .. document.editor + 1 /\ document.editor + 1 \notin 1 .. k
        BY <1>2
      <4>2. k \in 0 .. document.editor + 1
        BY <1>2
      <4> QED
        BY <4>1, <4>2
    <3>6. MessagesInv'
      BY <1>0, <1>3, <3>2, <3>4, <3>5 DEF MessagesInv
    <3>7. Settling' => Settling
      BY <1>1, <3>2, <3>4 DEF Settling, Pending
    <3> QED
      BY <1>3, <3>2, <3>4, <3>5, <3>6, <3>7
  <2>2. CASE SaveDocument
    <3>1. PICK messages : messages = document.messages \o <<"save", "files">>
      OBVIOUS
    <3>2. /\ messages \in Seq(Messages) /\ HasFiles(messages) /\ Settled(messages)
          /\ document.messages # <<>> => messages # <<>> /\ Head(messages) = Head(document.messages)
      <4>1. <<"save", "files">> # <<"change">>
        OBVIOUS
      <4> QED
        BY <1>2, <3>1, <4>1, MoreFacts
    <3>3. document' = [document EXCEPT !.disk = 1 .. document.editor, !.messages = messages]
      BY <2>2, <3>1 DEF SaveDocument
    <3>4. /\ document' \in Document /\ document'.editor = document.editor /\ document'.messages = messages
          /\ document'.disk = 1 .. document.editor /\ document'.parsing = document.parsing
      BY <1>2, <3>2, <3>3 DEF Document
    <3>5. document.editor \in 0 .. document.editor
      BY <1>2
    <3>6. MessagesInv'
      BY <1>0, <3>2, <3>4, <3>5 DEF MessagesInv
    <3>7. ~Settling'
      BY <3>2, <3>4 DEF Settling, Pending
    <3> QED
      BY <3>2, <3>4, <3>6, <3>7
  <2> QED
    BY <2>1, <2>2 DEF Editor
<1>5. ServerTypes'
  BY <1>0, <1>1, <1>4 DEF ServerTypes
<1>6. Phases'
  BY <1>0, <1>1 DEF Phases
<1>7. BuildInv'
  BY <1>0, <1>1, <1>4, BuildKept DEF ServerInv
<1>8. SnapshotInv'
  <2> SUFFICES ASSUME Settling', build'.by = "none" PROVE PackagesCurrent' /\ TextCurrent'
    BY DEF SnapshotInv
  <2>1. PackagesCurrent /\ TextCurrent
    BY <1>1, <1>4 DEF ServerInv, SnapshotInv
  <2> QED
    BY <1>0, <1>1, <1>4, <2>1, PackagesKept, TextKept
<1>9. (Told("meta") => Told("meta")') /\ (Told("document") => Told("document")')
  BY <1>1, ToldKept
<1>10. DepsInv'
  BY <1>1, <1>4, <1>9 DEF ServerInv, DepsInv
<1>11. ShownInv'
  BY <1>1, <1>4, <1>9 DEF ServerInv, ShownInv
<1> QED
  BY <1>4, <1>5, <1>6, <1>7, <1>8, <1>10, <1>11 DEF ServerInv

(* At first the server is off, and everything is to come. *)
LEMMA ServerInit ==
    ASSUME PackageInit
    PROVE  ServerInv
<1>1. /\ server.state = "off" /\ build = NoBuild /\ build.by = "none" /\ build.roots = <<>> /\ build.todo = <<>>
      /\ document.messages = <<"open">> /\ document.disk = {} /\ document.editor = 0 /\ ~document.parsing
  BY DEF PackageInit, NoBuild
<1>2. ServerTypes
  <2>1. /\ server \in [state : {"off", "initializing", "running", "panicked"}, by : Builders,
                       waiting : {0, 1}, unchecked : BOOLEAN, unpublished : BOOLEAN]
        /\ poll \in [watching : BOOLEAN, dirty : BOOLEAN, missed : BOOLEAN]
    BY DEF PackageInit, Builders
  <2>2. document \in Document
    <3>1. <<"open">> \in Seq(Messages)
      BY DEF Messages
    <3> QED
      BY <3>1 DEF PackageInit, Document
  <2>3. <<>> \in Seq(Dependencies)
    OBVIOUS
  <2>4. DOMAIN build = {"by", "text", "deps", "roots", "todo", "packages"} /\ build.by \in Builders
    BY <1>1 DEF NoBuild, Builders
  <2>5. /\ DOMAIN snapshot = {"text", "nodes", "deps", "packages"}
        /\ DOMAIN shown = {"meta", "document", "old", "due", "coming"} /\ shown.due = {} /\ shown.coming = {}
    BY DEF PackageInit
  <2>6. DOMAIN loaded = Packages
    BY DEF PackageInit, NoPackages
  <2> QED
    BY <1>1, <2>1, <2>2, <2>3, <2>4, <2>5, <2>6 DEF ServerTypes
<1>3. Phases
  BY <1>1 DEF PackageInit, Phases
<1>4. MessagesInv
  <2>1. 0 \in 0 .. 0 /\ 1 .. 0 = {}
    OBVIOUS
  <2> QED
    BY <1>1, <2>1 DEF MessagesInv, Settled
<1>5. BuildInv /\ SnapshotInv /\ DepsInv /\ ShownInv
  BY <1>1 DEF BuildInv, SnapshotInv, DepsInv, ShownInv, Settling
<1> QED
  BY <1>2, <1>3, <1>4, <1>5 DEF ServerInv

(* The invariant of the server is inductive, given that of the cache. *)
LEMMA ServerStays ==
    ASSUME ServerInv, CacheInv, [PackageNext]_packageVars
    PROVE  ServerInv'
<1>1. CASE (\E c \in DepCommands : Dep(c)) \/ Push
  BY <1>1, DepKeeps
<1>2. CASE Serve
  BY <1>2, InitializeKeeps, ViewKeeps, EndKeeps, ValidateKeeps, PublishKeeps, StartKeeps, CheckKeeps, PollKeeps, WatchKeeps,
     OpenKeeps, UpdateKeeps, ReParseKeeps, SaveKeeps, FilesKeeps DEF Serve
<1>3. CASE Editor
  BY <1>3, EditorKeeps
<1>4. CASE UNCHANGED packageVars
  <2>1. UNCHANGED <<cache, depends, server, build, snapshot, loaded, poll, document, shown>>
    BY <1>4 DEF packageVars
  <2>2. ServerTypes' /\ Phases' /\ MessagesInv'
    BY <2>1 DEF ServerInv, ServerTypes, Phases, MessagesInv
  <2>3. Settling' <=> Settling
    BY <2>1 DEF Settling, Pending
  <2>4. depends \in SUBSET Dependencies
    BY DEF CacheInv, CacheTypes
  <2>5. BuildInv'
    BY <2>1, <2>3, <2>4, BuildKept DEF ServerInv
  <2>6. SnapshotInv'
    BY <2>1, <2>3, <2>4, PackagesKept, TextKept DEF ServerInv, SnapshotInv
  <2>7. (Told("meta") => Told("meta")') /\ (Told("document") => Told("document")')
    BY <2>1, ToldKept
  <2>8. DepsInv' /\ ShownInv'
    BY <2>1, <2>3, <2>7 DEF ServerInv, DepsInv, ShownInv
  <2> QED
    BY <2>2, <2>5, <2>6, <2>8 DEF ServerInv
<1> QED
  BY <1>1, <1>2, <1>3, <1>4 DEF PackageNext

(* A quiet server has no news under way. *)
LEMMA QuietSettled ==
    ASSUME ServerInv, Quiet, ~poll.missed
    PROVE  Settling /\ build.by = "none" /\ server.state = "running" /\ ~server.unchecked /\ document.messages = <<>>
BY DEF Quiet, Settling, Pending, HasFiles

(* A server with nothing left to do has the packages the workspace needs as  *)
(* the cache has them, if they can be read and nothing changed before its    *)
(* watcher's baseline; for any commands, packages, pushes, kills and edits.  *)
THEOREM QuietServersAreCurrent == PackageSpec => []QuietServerIsCurrent
<1>1. ASSUME ServerInv PROVE QuietServerIsCurrent
  BY <1>1, QuietSettled DEF ServerInv, SnapshotInv, PackagesCurrent, QuietServerIsCurrent
<1>2. PackageInit => CacheInv /\ ServerInv
  BY CacheInit, ServerInit
<1>3. CacheInv /\ ServerInv /\ [PackageNext]_packageVars => CacheInv' /\ ServerInv'
  BY CacheStays, ServerStays
<1> QED
  BY <1>1, <1>2, <1>3, PTL DEF PackageSpec

(* A server with nothing left to do serves a saved document as it was saved, *)
(* whatever edits a rebuild dropped or garbled before the save.              *)
THEOREM SavesAreServed == PackageSpec => []SavedIsServed
<1>1. ASSUME ServerInv PROVE SavedIsServed
  BY <1>1, QuietSettled DEF ServerInv, SnapshotInv, TextCurrent, SavedIsServed
<1>2. PackageInit => CacheInv /\ ServerInv
  BY CacheInit, ServerInit
<1>3. CacheInv /\ ServerInv /\ [PackageNext]_packageVars => CacheInv' /\ ServerInv'
  BY CacheStays, ServerStays
<1> QED
  BY <1>1, <1>2, <1>3, PTL DEF PackageSpec

(* A server with nothing left to do shows what validating its snapshot now   *)
(* would show, except after a rebuild that DidChangeWatchedFiles kept silent *)
(* or where an older publication came after a newer one.                     *)
THEOREM DiagnosticsAreCurrent == PackageSpec => []DiagnosticsCatchUp
<1>1. ASSUME ServerInv PROVE DiagnosticsCatchUp
  <2> SUFFICES ASSUME Quiet, ~poll.missed, ~server.unpublished
               PROVE  \A file \in WorkspaceFiles \ shown.old : shown[file] = Diagnostics(file)
    BY DEF DiagnosticsCatchUp
  <2>1. Told("meta") /\ Told("document")
    BY <1>1, QuietSettled DEF ServerInv, DepsInv, ShownInv
  <2>2. shown.due = {} /\ shown.coming = {}
    BY DEF Quiet
  <2> QED
    BY <2>1, <2>2 DEF Told, WorkspaceFiles
<1>2. PackageInit => CacheInv /\ ServerInv
  BY CacheInit, ServerInit
<1>3. CacheInv /\ ServerInv /\ [PackageNext]_packageVars => CacheInv' /\ ServerInv'
  BY CacheStays, ServerStays
<1> QED
  BY <1>1, <1>2, <1>3, PTL DEF PackageSpec
=============================================================================
