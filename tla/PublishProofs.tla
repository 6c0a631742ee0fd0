--------------------------- MODULE PublishProofs ---------------------------
(***************************************************************************)
(* What xpkg batch publishes, for any services, platforms, limits and      *)
(* number of retries, and what space mirror copies, for any configuration. *)
(***************************************************************************)
EXTENDS BatchPublish, SpaceMirror, FiniteSetTheorems, SequenceTheorems, TLAPS

LEMMA TriesType == Tries \in 0..(PushRetry + 1) /\ (Tries # 0 => Tries = PushRetry + 1)
<1>1. PushRetry + 1 < UintSize \/ PushRetry + 1 = UintSize
  BY FlagsAssumption
<1>2. CASE PushRetry + 1 < UintSize
  BY <1>2, FlagsAssumption DEF Tries
<1>3. CASE PushRetry + 1 = UintSize
  BY <1>3, FlagsAssumption DEF Tries
<1> QED
  BY <1>1, <1>2, <1>3

\* A single image is all of them.
LEMMA OnePlatform ==
  ASSUME TypeOK, ~Multi, NEW p \in platforms
  PROVE  platforms = {p}
<1>1. IsFiniteSet(platforms) /\ Cardinality(platforms) \in Nat
  <2>1. platforms \in SUBSET Platforms
    BY DEF TypeOK
  <2> QED
    BY <2>1, FamilyAssumption, FS_Subset, FS_CardinalityType
<1>2. /\ IsFiniteSet(platforms \ {p})
      /\ Cardinality(platforms \ {p}) = Cardinality(platforms) - 1
  BY <1>1, FS_RemoveElement
<1>3. Cardinality(platforms \ {p}) \in Nat
  BY <1>2, FS_CardinalityType
<1>4. Cardinality(platforms \ {p}) = 0
  BY <1>1, <1>2, <1>3 DEF Multi
<1>5. platforms \ {p} = {}
  BY <1>2, <1>4, FS_EmptySet
<1> QED
  BY <1>5

-----------------------------------------------------------------------------
(* The slots *)

LEMMA WorkingIsFinite == IsFiniteSet(Working) /\ Cardinality(Working) \in Nat
<1>1. Working \in SUBSET Services
  BY DEF Working
<1> QED
  BY <1>1, FamilyAssumption, FS_Subset, FS_CardinalityType

\* A goroutine that only goes on keeps its slot.
LEMMA KeepsSlot ==
  ASSUME TypeOK, NEW s \in Services, NEW there,
         pc[s] \notin {"ready", "done"}, there \notin {"ready", "done"},
         Goto(s, there)
  PROVE  Working' = Working
BY DEF Working, Goto, TypeOK

LEMMA SlotsStep ==
  ASSUME TypeOK, SlotsInv, \A s \in Services : ServiceInv(s), [Next]_vars
  PROVE  SlotsInv'
<1> USE FlagsAssumption
<1> DEFINE Keeps == Working' = Working /\ slots' = slots /\ limit' = limit /\ main # "fetch" /\ main' # "fetch"
<1>1. ASSUME Keeps PROVE SlotsInv'
  BY <1>1 DEF SlotsInv
<1>2. ASSUME NEW s \in Services, Acquire(s) PROVE SlotsInv'
  <2>1. Working' = Working \cup {s} /\ s \notin Working
    BY <1>2 DEF Acquire, At, Goto, Working, TypeOK
  <2>2. IsFiniteSet(Working) /\ Cardinality(Working) \in Nat
    BY WorkingIsFinite
  <2>3. Cardinality(Working') = Cardinality(Working) + 1
    BY <2>1, <2>2, FS_AddElement
  <2>4. /\ main' # "fetch" /\ limit' = limit /\ limit \in Nat
        /\ limit # 0 => slots \in Nat /\ slots' = slots - 1
    BY <1>2 DEF Acquire, At, flags, TypeOK
  <2> QED
    BY <2>2, <2>3, <2>4 DEF SlotsInv
<1>3. ASSUME NEW s \in Services, Build(s) PROVE SlotsInv'
  BY <1>3, <1>1, KeepsSlot DEF Build, At, Return, flags, channels
<1>4. ASSUME NEW s \in Services, Store(s) PROVE SlotsInv'
  BY <1>4, <1>1, KeepsSlot DEF Store, Packed, At, Return, flags, channels
<1>5. ASSUME NEW s \in Services, StartPush(s) PROVE SlotsInv'
  BY <1>5, <1>1, KeepsSlot DEF StartPush, Retry, At, Return, flags, channels
<1>6. ASSUME NEW s \in Services, NEW p \in platforms,
             Annotate(s, p) \/ ImageLands(s, p) \/ ImageFails(s, p)
      PROVE  SlotsInv'
  BY <1>6, <1>1 DEF Annotate, ImageLands, ImageFails, At, Working, flags, channels
<1>7. ASSUME NEW s \in Services, Join(s) PROVE SlotsInv'
  BY <1>7, <1>1, KeepsSlot DEF Join, Retry, At, Return, flags, channels
<1>8. ASSUME NEW s \in Services, WriteIndex(s) PROVE SlotsInv'
  BY <1>8, <1>1, KeepsSlot DEF WriteIndex, Retry, At, Return, flags, channels
<1>9. ASSUME NEW s \in Services, Report(s) PROVE SlotsInv'
  <2>1. CASE limit = 0
    BY <2>1, <1>9 DEF Report, At, flags, SlotsInv
  <2>2. CASE limit # 0
    BY <2>2, <1>9, <1>1, KeepsSlot DEF Report, At, flags
  <2> QED
    BY <2>1, <2>2
<1>10. ASSUME NEW s \in Services, Release(s) PROVE SlotsInv'
  <2>1. CASE open
    <3>1. Working' = Working \ {s} /\ s \in Working
      BY <1>10, <2>1 DEF Release, At, Goto, Working, TypeOK
    <3>2. IsFiniteSet(Working) /\ Cardinality(Working) \in Nat
      BY WorkingIsFinite
    <3>3. Cardinality(Working') = Cardinality(Working) - 1
      BY <3>1, <3>2, FS_RemoveElement
    <3>4. /\ main' # "fetch" /\ limit' = limit /\ limit \in Nat
          /\ slots \in Nat /\ slots' = slots + 1
      BY <1>10, <2>1 DEF Release, At, flags, TypeOK
    <3> QED
      BY <3>2, <3>3, <3>4 DEF SlotsInv
  <2>2. CASE ~open
    BY <1>10, <2>2, <1>1 DEF Release, At, Working, flags
  <2> QED
    BY <2>1, <2>2
<1>11. ASSUME Fetch PROVE SlotsInv'
  <2>1. Working' = {}
    BY <1>11 DEF Fetch, Working, SlotsInv
  <2>2. Cardinality(Working') = 0
    BY <2>1, FS_EmptySet
  <2>3. main' # "fetch" /\ limit' = limit /\ limit \in Nat /\ (slots' = limit \/ slots' = 0)
    BY <1>11 DEF Fetch, flags, TypeOK, SlotsInv
  <2>4. slots' + Cardinality(Working') <= limit'
    BY <2>2, <2>3
  <2> QED
    BY <2>3, <2>4 DEF SlotsInv
<1>12. ASSUME NEW s \in Services, Collect(s) PROVE SlotsInv'
  <2>1. main = "collect" /\ main' = main /\ slots' = slots /\ limit' = limit /\ pc' = pc
    BY <1>12 DEF Collect, flags
  <2> QED
    BY <2>1, <1>1 DEF Working
<1>13. ASSUME Close \/ Exit PROVE SlotsInv'
  BY <1>13, <1>1 DEF Close, Exit, Working, flags, channels
<1>14. ASSUME UNCHANGED vars PROVE SlotsInv'
  <2>1. Working' = Working /\ slots' = slots /\ limit' = limit /\ main' = main /\ pc' = pc
    BY <1>14 DEF vars, flags, channels, Working
  <2> QED
    BY <2>1 DEF SlotsInv
<1> QED
  BY <1>2, <1>3, <1>4, <1>5, <1>6, <1>7, <1>8, <1>9, <1>10, <1>11, <1>12, <1>13, <1>14
     DEF Next, Main, Work

-----------------------------------------------------------------------------
(* Types and services *)

\* TypeOK but for the number of free slots, which SlotsInv bounds.
RestTypeOK ==
  /\ platforms \in SUBSET Platforms /\ platforms # {}
  /\ limit \in Limits /\ buildOnly \in BOOLEAN /\ storing \subseteq Services
  /\ main \in {"fetch", "collect", "exit"} \cup Ended
  /\ open \in BOOLEAN
  /\ pc \in [Services -> {"ready", "build", "store", "push", "images", "index",
                          "report", "release", "done"}]
  /\ err \in [Services -> BOOLEAN]
  /\ attempt \in [Services -> 0..PushRetry + 1]
  /\ image \in [Services -> [Platforms -> {"todo", "writing", "ok", "failed"}]]
  /\ pending \subseteq Services /\ received \subseteq Services
  /\ result \subseteq Services
  /\ archive \in [Services -> {"none", "some", "all"}]
  /\ manifests \subseteq Services \X Platforms
  /\ tag \in [Services -> {"old", "new"}]

LEMMA SetImageType ==
  ASSUME TypeOK, NEW s \in Services, NEW p \in Platforms,
         NEW there \in {"todo", "writing", "ok", "failed"}, SetImage(s, p, there)
  PROVE  image' \in [Services -> [Platforms -> {"todo", "writing", "ok", "failed"}]]
<1> DEFINE row == [image[s] EXCEPT ![p] = there]
<1>1. row \in [Platforms -> {"todo", "writing", "ok", "failed"}]
  BY DEF TypeOK
<1>2. image' = [image EXCEPT ![s] = row]
  BY DEF SetImage
<1> HIDE DEF row
<1> QED
  BY <1>1, <1>2 DEF TypeOK

LEMMA RestTypeStep ==
  ASSUME TypeOK, \A s \in Services : ServiceInv(s), [Next]_vars
  PROVE  RestTypeOK'
<1> USE FlagsAssumption, TriesType DEF flags, channels, pushing, registry
<1>1. ASSUME NEW s \in Services, Acquire(s) PROVE RestTypeOK'
  BY <1>1 DEF Acquire, Goto, TypeOK, RestTypeOK
<1>2. ASSUME NEW s \in Services, Build(s) PROVE RestTypeOK'
  BY <1>2 DEF Build, Return, Goto, TypeOK, RestTypeOK
<1>3. ASSUME NEW s \in Services, Store(s) PROVE RestTypeOK'
  <2>1. /\ archive' \in [Services -> {"none", "some", "all"}]
        /\ err' \in [Services -> BOOLEAN]
        /\ \E there \in {"report", "push"} : Goto(s, there)
    <3>1. CASE s \notin storing /\ Packed(s) /\ UNCHANGED archive
      BY <3>1 DEF Packed, Return, TypeOK
    <3>2. CASE s \in storing /\ Packed(s) /\ archive' = [archive EXCEPT ![s] = "all"]
      BY <3>2 DEF Packed, Return, TypeOK
    <3>3. CASE /\ s \in storing /\ Return(s, TRUE)
               /\ \E a \in {"none", "some"} : archive' = [archive EXCEPT ![s] = a]
      BY <3>3 DEF Return, TypeOK
    <3> QED
      BY <1>3, <3>1, <3>2, <3>3 DEF Store
  <2>2. pc' \in [Services -> {"ready", "build", "store", "push", "images", "index",
                           "report", "release", "done"}]
    BY <2>1 DEF Goto, TypeOK
  <2> QED
    BY <1>3, <2>1, <2>2 DEF Store, TypeOK, RestTypeOK
<1>4. ASSUME NEW s \in Services, StartPush(s) PROVE RestTypeOK'
  <2>1. attempt[s] \in Nat /\ attempt[s] < Tries /\ Tries <= PushRetry + 1
    BY <1>4 DEF StartPush, At, ServiceInv, TypeOK
  <2>2. attempt' \in [Services -> 0..PushRetry + 1]
    BY <1>4, <2>1 DEF StartPush, TypeOK
  <2> QED
    BY <1>4, <2>2 DEF StartPush, Retry, Return, Goto, TypeOK, RestTypeOK
<1>5. ASSUME NEW s \in Services, NEW p \in platforms,
             Annotate(s, p) \/ ImageLands(s, p) \/ ImageFails(s, p)
      PROVE  RestTypeOK'
  <2>0. p \in Platforms
    BY DEF TypeOK
  <2>1. image' \in [Services -> [Platforms -> {"todo", "writing", "ok", "failed"}]]
    BY <1>5, <2>0, SetImageType DEF Annotate, ImageLands, ImageFails
  <2>2. manifests' \subseteq Services \X Platforms /\ tag' \in [Services -> {"old", "new"}]
    BY <1>5, <2>0 DEF Annotate, ImageLands, ImageFails, TypeOK
  <2>3. UNCHANGED <<platforms, limit, buildOnly, storing, main, open, pending, pc, err,
                    attempt, received, result, archive>>
    BY <1>5 DEF Annotate, ImageLands, ImageFails
  <2> QED
    BY <2>1, <2>2, <2>3 DEF TypeOK, RestTypeOK
<1>6. ASSUME NEW s \in Services, Join(s) PROVE RestTypeOK'
  BY <1>6 DEF Join, Retry, Return, Goto, TypeOK, RestTypeOK
<1>7. ASSUME NEW s \in Services, WriteIndex(s) PROVE RestTypeOK'
  BY <1>7 DEF WriteIndex, Retry, Return, Goto, TypeOK, RestTypeOK
<1>8. ASSUME NEW s \in Services, Report(s) PROVE RestTypeOK'
  BY <1>8 DEF Report, Goto, TypeOK, RestTypeOK
<1>9. ASSUME NEW s \in Services, Release(s) PROVE RestTypeOK'
  BY <1>9 DEF Release, Goto, Ended, TypeOK, RestTypeOK
<1>10. ASSUME Fetch \/ Close \/ Exit PROVE RestTypeOK'
  BY <1>10 DEF Fetch, Close, Exit, Ended, TypeOK, RestTypeOK
<1>11. ASSUME NEW s \in Services, Collect(s) PROVE RestTypeOK'
  BY <1>11 DEF Collect, Failures, TypeOK, RestTypeOK
<1>12. ASSUME UNCHANGED vars PROVE RestTypeOK'
  BY <1>12 DEF vars, TypeOK, RestTypeOK
<1> QED
  BY <1>1, <1>2, <1>3, <1>4, <1>5, <1>6, <1>7, <1>8, <1>9, <1>10, <1>11, <1>12
     DEF Next, Main, Work

LEMMA TypeStep ==
  ASSUME TypeOK, SlotsInv, \A s \in Services : ServiceInv(s), [Next]_vars
  PROVE  TypeOK'
<1> USE FlagsAssumption
<1>1. RestTypeOK' /\ SlotsInv'
  BY RestTypeStep, SlotsStep
<1>2. slots \in Nat /\ limit \in Nat /\ limit' = limit /\ (limit = 0 => slots = 0)
  <2>1. slots \in Nat /\ limit \in Nat /\ (limit = 0 => slots = 0)
    BY DEF TypeOK
  <2>2. limit' = limit
    BY DEF Next, Main, Work, Acquire, Build, Store, StartPush, Annotate,
           ImageLands, ImageFails, Join, WriteIndex, Report, Release, Fetch,
           Collect, Close, Exit, vars, flags
  <2> QED
    BY <2>1, <2>2
<1>3. slots' \in Nat /\ (limit = 0 => slots' = 0)
  <2>1. ASSUME NEW s \in Services, Acquire(s) PROVE <1>3!1 /\ <1>3!2
    BY <2>1, <1>2 DEF Acquire
  <2>2. ASSUME NEW s \in Services, Release(s) PROVE <1>3!1 /\ <1>3!2
    BY <2>2, <1>2 DEF Release, At, ServiceInv
  <2>3. ASSUME Fetch PROVE <1>3!1 /\ <1>3!2
    BY <2>3, <1>2 DEF Fetch
  <2>4. CASE slots' = slots
    BY <2>4, <1>2
  <2> QED
    BY <2>1, <2>2, <2>3, <2>4
       DEF Next, Main, Work, Build, Store, StartPush, Annotate, ImageLands,
           ImageFails, Join, WriteIndex, Report, Collect, Close, Exit, vars, channels
<1>4. IsFiniteSet(Working') /\ Cardinality(Working') \in Nat
  <2>1. Working' \in SUBSET Services
    BY DEF Working
  <2> QED
    BY <2>1, FamilyAssumption, FS_Subset, FS_CardinalityType
<1>5. slots' \in 0..limit'
  BY <1>1, <1>2, <1>3, <1>4 DEF SlotsInv
<1> QED
  BY <1>1, <1>5 DEF TypeOK, RestTypeOK

\* All that is said of one service.
OneService(s) ==
  /\ ServiceInv(s)
  /\ tag[s] = "new" => {s} \X platforms \subseteq manifests
  /\ \A p \in Platforms : <<s, p>> \in manifests => Stored(s)

\* What concerns service t is as it was.
Untouched(t) ==
  /\ UNCHANGED <<platforms, limit, buildOnly, storing>>
  /\ pc'[t] = pc[t] /\ err'[t] = err[t] /\ attempt'[t] = attempt[t]
  /\ image'[t] = image[t] /\ archive'[t] = archive[t] /\ tag'[t] = tag[t]
  /\ (t \in pending \cup received) = (t \in pending' \cup received')
  /\ t \in received' /\ err[t] => t \in result'
  /\ \A p \in Platforms : (<<t, p>> \in manifests) = (<<t, p>> \in manifests')

LEMMA UntouchedKeeps ==
  ASSUME TypeOK, NEW t \in Services, OneService(t), Untouched(t)
  PROVE  OneService(t)'
<1>1. platforms \subseteq Platforms /\ platforms' = platforms
  BY DEF Untouched, TypeOK
<1> QED
  BY <1>1 DEF OneService, Untouched, ServiceInv, Finished, Stored, Tries, Multi

LEMMA OtherServices ==
  ASSUME TypeOK, NEW s \in Services, NEW t \in Services, t # s,
         OneService(t), Work(s)
  PROVE  Untouched(t)
<1> USE DEF flags, channels, pushing, registry, Goto, Return
<1>1. CASE Acquire(s) \/ Build(s)
  BY <1>1 DEF Acquire, Build, Untouched, TypeOK, OneService, ServiceInv
<1>2. CASE Store(s)
  BY <1>2 DEF Store, Packed, Untouched, TypeOK, OneService, ServiceInv
<1>3. CASE StartPush(s)
  BY <1>3 DEF StartPush, Retry, Untouched, TypeOK, OneService, ServiceInv
<1>4. ASSUME NEW p \in platforms, Annotate(s, p) \/ ImageLands(s, p) \/ ImageFails(s, p)
      PROVE  Untouched(t)
  BY <1>4 DEF Annotate, ImageLands, ImageFails, SetImage, Untouched, TypeOK,
              OneService, ServiceInv
<1>5. CASE Join(s)
  BY <1>5 DEF Join, Retry, Untouched, TypeOK, OneService, ServiceInv
<1>6. CASE WriteIndex(s)
  BY <1>6 DEF WriteIndex, Retry, Untouched, TypeOK, OneService, ServiceInv
<1>7. CASE Report(s) \/ Release(s)
  BY <1>7 DEF Report, Release, Untouched, TypeOK, OneService, ServiceInv
<1> QED
  BY <1>1, <1>2, <1>3, <1>4, <1>5, <1>6, <1>7 DEF Work

LEMMA OwnService ==
  ASSUME TypeOK, NEW s \in Services, OneService(s), Work(s)
  PROVE  OneService(s)'
<1> USE FlagsAssumption, TriesType
    DEF flags, channels, pushing, registry, Goto, Return, At,
        OneService, ServiceInv, Finished, Stored, TypeOK
<1>0. Tries' = Tries /\ Multi' = Multi
  <2>1. platforms' = platforms
    BY DEF Work, Acquire, Build, Store, StartPush, Annotate, ImageLands,
           ImageFails, Join, WriteIndex, Report, Release
  <2> QED
    BY <2>1 DEF Tries, Multi
<1>1. CASE Acquire(s) \/ Build(s)
  BY <1>0, <1>1 DEF Acquire, Build
<1>2. CASE Store(s)
  BY <1>0, <1>2 DEF Store, Packed
<1>3. CASE StartPush(s)
  BY <1>0, <1>3 DEF StartPush, Retry
<1>4. ASSUME NEW p \in platforms, Annotate(s, p)
      PROVE  OneService(s)'
  BY <1>0, <1>4 DEF Annotate, SetImage
<1>5. ASSUME NEW p \in platforms, ImageLands(s, p)
      PROVE  OneService(s)'
  BY <1>0, <1>5, OnePlatform DEF ImageLands, SetImage
<1>6. ASSUME NEW p \in platforms, ImageFails(s, p)
      PROVE  OneService(s)'
  BY <1>0, <1>6 DEF ImageFails, SetImage
<1>7. CASE Join(s)
  <2>1. CASE Cancelled(s)
    BY <1>0, <1>7, <2>1 DEF Join, Retry
  <2>2. CASE ~Cancelled(s)
    <3>1. \A p \in platforms : image[s][p] = "ok"
      BY <1>7, <2>2 DEF Join, Cancelled
    <3>2. {s} \X platforms \subseteq manifests
      BY <3>1
    <3>3. CASE Multi
      BY <1>0, <1>7, <2>2, <3>2, <3>3 DEF Join
    <3>4. CASE ~Multi
      <4>1. tag[s] = "new"
        <5>0. platforms # {}
          OBVIOUS
        <5>1. \E p \in platforms : TRUE
          BY <5>0, Zenon
        <5> QED
          BY <3>1, <3>4, <5>1
      <4> QED
        BY <1>0, <1>7, <2>2, <3>2, <3>4, <4>1 DEF Join
    <3> QED
      BY <3>3, <3>4
  <2> QED
    BY <2>1, <2>2
<1>8. CASE WriteIndex(s)
  <2>1. {s} \X platforms \subseteq manifests /\ manifests' = manifests
    BY <1>8 DEF WriteIndex
  <2>2. CASE tag' = [tag EXCEPT ![s] = "new"] /\ Return(s, FALSE)
    BY <1>0, <1>8, <2>1, <2>2 DEF WriteIndex
  <2>3. CASE tag' = [tag EXCEPT ![s] = "new"] /\ Retry(s)
    <3>1. CASE attempt[s] = Tries
      BY <1>0, <1>8, <2>1, <2>3, <3>1 DEF WriteIndex, Retry
    <3>2. CASE attempt[s] # Tries
      <4>1. attempt[s] < Tries /\ attempt' = attempt /\ ~err[s] /\ err' = err
        <5>1. attempt[s] \in Nat /\ Tries \in Nat
          OBVIOUS
        <5>2. attempt[s] <= Tries /\ ~err[s] /\ attempt' = attempt
          BY <1>8 DEF WriteIndex
        <5>3. err' = err
          BY <2>3, <3>2, <5>2 DEF Retry
        <5> QED
          BY <3>2, <5>1, <5>2, <5>3
      <4>2. /\ pc'[s] = "push" /\ tag'[s] = "new" /\ ~buildOnly /\ Stored(s)
            /\ UNCHANGED <<flags, image, archive, received, result, pending>>
        BY <1>8, <2>3, <3>2, <4>1 DEF WriteIndex, Retry
      <4>3. s \notin pending \cup received
        BY <1>8 DEF WriteIndex
      <4> QED
        BY <1>0, <2>1, <4>1, <4>2, <4>3
    <3> QED
      BY <3>1, <3>2
  <2>4. CASE tag' = tag /\ Retry(s)
    BY <1>0, <1>8, <2>1, <2>4 DEF WriteIndex, Retry
  <2> QED
    BY <1>8, <2>2, <2>3, <2>4 DEF WriteIndex
<1>9. CASE Report(s) \/ Release(s)
  BY <1>0, <1>9 DEF Report, Release
<1> QED
  BY <1>1, <1>2, <1>3, <1>4, <1>5, <1>6, <1>7, <1>8, <1>9 DEF Work

LEMMA ServiceStep ==
  ASSUME TypeOK, \A s \in Services : OneService(s), [Next]_vars
  PROVE  \A s \in Services : OneService(s)'
<1> SUFFICES ASSUME NEW t \in Services PROVE OneService(t)'
  OBVIOUS
<1>1. ASSUME NEW s \in Services, Work(s) PROVE OneService(t)'
  BY <1>1, OwnService, OtherServices, UntouchedKeeps
<1>2. ASSUME Fetch \/ Close \/ Exit \/ UNCHANGED vars PROVE OneService(t)'
  <2>1. Untouched(t)
    BY <1>2 DEF Fetch, Close, Exit, vars, flags, channels, pushing, registry,
                Untouched, OneService, ServiceInv
  <2> QED
    BY <2>1, UntouchedKeeps
<1>3. ASSUME NEW s \in Services, Collect(s) PROVE OneService(t)'
  <2>1. Untouched(t)
    BY <1>3 DEF Collect, Failures, flags, pushing, registry, Untouched,
                OneService, ServiceInv, TypeOK
  <2> QED
    BY <2>1, UntouchedKeeps
<1> QED
  BY <1>1, <1>2, <1>3 DEF Next, Main

-----------------------------------------------------------------------------
(* The theorems *)

LEMMA InvParts ==
  BatchInv <=> TypeOK /\ SlotsInv /\ \A s \in Services : OneService(s)
BY DEF BatchInv, OneService, TagIsWhole, StoredBeforePushed

LEMMA InitInv == Init => BatchInv
<1> SUFFICES ASSUME Init PROVE BatchInv
  OBVIOUS
<1>1. TypeOK
  <2>1. image \in [Services -> [Platforms -> {"todo", "writing", "ok", "failed"}]]
    BY DEF Init
  <2>2. slots \in 0..limit /\ attempt \in [Services -> 0..PushRetry + 1]
    BY FlagsAssumption DEF Init
  <2> QED
    BY <2>1, <2>2 DEF Init, TypeOK
<1>2. SlotsInv
  <2>1. Working = {}
    BY DEF Init, Working
  <2>2. Cardinality(Working) = 0 /\ limit \in Nat
    BY <2>1, FS_EmptySet, FlagsAssumption DEF Init
  <2> QED
    BY <2>2 DEF Init, SlotsInv
<1>3. \A s \in Services : OneService(s)
  BY DEF Init, OneService, ServiceInv, Finished, Stored
<1> QED
  BY <1>1, <1>2, <1>3, InvParts

LEMMA InvStep == BatchInv /\ [Next]_vars => BatchInv'
<1> SUFFICES ASSUME BatchInv, [Next]_vars PROVE BatchInv'
  OBVIOUS
<1>1. TypeOK /\ SlotsInv /\ \A s \in Services : OneService(s) /\ ServiceInv(s)
  BY InvParts DEF OneService
<1>2. TypeOK'
  BY <1>1, TypeStep
<1>3. SlotsInv'
  BY <1>1, SlotsStep
<1>4. \A s \in Services : OneService(s)'
  BY <1>1, ServiceStep
<1> QED
  BY <1>2, <1>3, <1>4 DEF BatchInv, OneService, TagIsWhole, StoredBeforePushed

\* batch.go: the inductive invariant holds in every state.
THEOREM InvAlways == Spec => []BatchInv
<1>1. Init => BatchInv
  BY InitInv
<1>2. BatchInv /\ [Next]_vars => BatchInv'
  BY InvStep
<1> QED
  BY <1>1, <1>2, PTL DEF Spec

\* batch.go: every variable keeps its type; in particular the slots returned
\* never exceed the capacity of the channel, so that no goroutine blocks there.
THEOREM BatchTypeCorrect == Spec => []TypeOK
<1>1. BatchInv => TypeOK
  BY DEF BatchInv
<1> QED
  BY <1>1, InvAlways, PTL

\* PushImages: no tag ever points at an index whose images are not all there.
THEOREM TagsAreWhole == Spec => []TagIsWhole
<1>1. BatchInv => TagIsWhole
  BY DEF BatchInv
<1> QED
  BY <1>1, InvAlways, PTL

\* processService: what could not be stored is not pushed.
THEOREM StoringComesFirst == Spec => []StoredBeforePushed
<1>1. BatchInv => StoredBeforePushed
  BY DEF BatchInv
<1> QED
  BY <1>1, InvAlways, PTL

\* Run: no more services than --concurrency says are worked on at a time.
THEOREM SlotsLimitWork == Spec => []WithinConcurrency
<1>1. BatchInv => WithinConcurrency
  <2> SUFFICES ASSUME BatchInv, limit # 0 PROVE Cardinality(Working) <= limit
    BY DEF WithinConcurrency
  <2>1. slots \in Nat /\ limit \in Nat /\ slots + Cardinality(Working) <= limit
    BY FlagsAssumption DEF BatchInv, SlotsInv, TypeOK
  <2> QED
    BY <2>1, WorkingIsFinite
<1> QED
  BY <1>1, InvAlways, PTL

\* Run: whom the result does not name has succeeded, as long as the number of
\* attempts does not wrap around to none.
THEOREM ResultsAreHonest ==
  ASSUME PushRetry < UintSize - 1
  PROVE  Spec => []ResultIsHonest
<1>1. Tries # 0
  BY FlagsAssumption DEF Tries
<1>2. BatchInv => ResultIsHonest
  <2> SUFFICES ASSUME BatchInv, NEW s \in received \ result
               PROVE  Stored(s) /\ (~buildOnly => tag[s] = "new")
    BY DEF ResultIsHonest
  <2>1. s \in Services
    BY DEF BatchInv, TypeOK
  <2> QED
    BY <1>1, <2>1 DEF BatchInv, ServiceInv, Finished, TypeOK
<1> QED
  BY <1>2, InvAlways, PTL

\* pushWithRetry: a service gives up after its last attempt and not before,
\* and does not report success without a push, under the same assumption.
THEOREM GivingUpComesLast ==
  ASSUME PushRetry < UintSize - 1
  PROVE  Spec => []GivesUpLast
<1>1. Tries # 0 /\ Tries = PushRetry + 1
  BY FlagsAssumption, TriesType DEF Tries
<1>2. BatchInv => GivesUpLast
  BY <1>1, FlagsAssumption DEF BatchInv, ServiceInv, GivesUpLast, Finished, TypeOK
<1> QED
  BY <1>2, InvAlways, PTL

-----------------------------------------------------------------------------
(***************************************************************************)
(* A mirrored version of Spaces is whole: what it needs and is not due any *)
(* more is there.  Jobs are replaced by the artifacts they turn out to stand *)
(* for, so the invariant follows what a job may become.                    *)
(***************************************************************************)
LEMMA TailRange ==
  ASSUME NEW S, NEW s \in Seq(S), s # <<>>
  PROVE  /\ Head(s) \in S /\ Tail(s) \in Seq(S)
         /\ \A x : x \in Range(s) <=> x = Head(s) \/ x \in Range(Tail(s))
<1>1. /\ Len(s) \in Nat \ {0} /\ Head(s) = s[1] /\ DOMAIN s = 1 .. Len(s)
      /\ Tail(s) \in Seq(S) /\ Len(Tail(s)) = Len(s) - 1
      /\ DOMAIN Tail(s) = 1 .. Len(s) - 1
      /\ \A i \in 1 .. Len(s) - 1 : Tail(s)[i] = s[i + 1]
  OBVIOUS
<1>2. \A x : x \in Range(Tail(s)) => x \in Range(s)
  BY <1>1 DEF Range
<1>3. ASSUME NEW i \in 1 .. Len(s), i # 1
      PROVE  i - 1 \in 1 .. Len(s) - 1 /\ s[i] = Tail(s)[i - 1]
  BY <1>1, <1>3
<1>4. ASSUME NEW x \in Range(s), x # Head(s)
      PROVE  x \in Range(Tail(s))
  <2>1. PICK i \in 1 .. Len(s) : x = s[i]
    BY <1>1 DEF Range
  <2>2. i # 1
    BY <1>1, <1>4, <2>1
  <2>3. i - 1 \in DOMAIN Tail(s) /\ x = Tail(s)[i - 1]
    BY <1>1, <1>3, <2>1, <2>2
  <2> QED  BY <2>3 DEF Range
<1>5. Head(s) \in Range(s)
  <2>1. 1 \in DOMAIN s
    BY <1>1
  <2> QED  BY <1>1, <2>1 DEF Range
<1>6. Head(s) \in S
  BY <1>1
<1> QED
  BY <1>1, <1>2, <1>4, <1>5, <1>6

\* The items of two sequences in a row are those of both.
LEMMA RangeOfBoth ==
  ASSUME NEW S, NEW s \in Seq(S), NEW t \in Seq(S)
  PROVE  s \o t \in Seq(S) /\ Range(s \o t) = Range(s) \union Range(t)
<1>1. /\ s \o t \in Seq(S) /\ Len(s) \in Nat /\ Len(t) \in Nat
      /\ Len(s \o t) = Len(s) + Len(t)
      /\ \A i \in 1 .. Len(s) + Len(t) :
           (s \o t)[i] = IF i <= Len(s) THEN s[i] ELSE t[i - Len(s)]
  BY ConcatProperties, LenProperties
<1>2. /\ DOMAIN s = 1 .. Len(s) /\ DOMAIN t = 1 .. Len(t)
      /\ DOMAIN (s \o t) = 1 .. Len(s) + Len(t)
  BY <1>1, LenProperties
<1>3. ASSUME NEW x \in Range(s \o t)
      PROVE  x \in Range(s) \union Range(t)
  <2>1. PICK i \in 1 .. Len(s) + Len(t) : x = (s \o t)[i]
    BY <1>2 DEF Range
  <2>2. CASE i <= Len(s)
    <3>1. i \in DOMAIN s /\ x = s[i]
      BY <1>1, <1>2, <2>1, <2>2
    <3> QED  BY <3>1 DEF Range
  <2>3. CASE ~(i <= Len(s))
    <3>1. i - Len(s) \in DOMAIN t /\ x = t[i - Len(s)]
      BY <1>1, <1>2, <2>1, <2>3
    <3> QED  BY <3>1 DEF Range
  <2> QED  BY <2>2, <2>3
<1>4. ASSUME NEW i \in DOMAIN s
      PROVE  s[i] \in Range(s \o t)
  <2>1. i \in DOMAIN (s \o t) /\ (s \o t)[i] = s[i]
    BY <1>1, <1>2
  <2> QED  BY <2>1 DEF Range
<1>5. ASSUME NEW i \in DOMAIN t
      PROVE  t[i] \in Range(s \o t)
  <2>1. Len(s) + i \in DOMAIN (s \o t) /\ (s \o t)[Len(s) + i] = t[i]
    BY <1>1, <1>2
  <2> QED  BY <2>1 DEF Range
<1> QED
  BY <1>1, <1>3, <1>4, <1>5 DEF Range

\* A sequence of one function value for each item of a sequence.
LEMMA FunctionIsSeq ==
  ASSUME NEW S, NEW n \in Nat, NEW f \in [1 .. n -> S]
  PROVE  f \in Seq(S)
BY SeqDef

LEMMA RangeOfOne ==
  ASSUME NEW S, NEW x \in S
  PROVE  <<x>> \in Seq(S) /\ Range(<<x>>) = {x}
<1>1. <<x>> \in Seq(S) /\ DOMAIN <<x>> = {1} /\ <<x>>[1] = x
  OBVIOUS
<1> QED
  BY <1>1 DEF Range
-----------------------------------------------------------------------------
(* The work of a command *)

Artifacts == UNION {Needed(v) : v \in SpaceVersions}

Jobs == {Job("mirror", a) : a \in Artifacts}
        \union {Job("values", sub) : sub \in Range(SubResources)}
        \union {Job("image", img) : img \in Range(Images)}

SubNeeds(sub, v) ==
  {Artifact(sub[kind], t) : kind \in {"chart", "image"} \intersect DOMAIN sub, t \in Range(Values[v][sub.path])}

ImageNeeds(img, v) == IF Include(img, v) THEN {Artifact(img.image, TagOf(img, v))} ELSE {}

\* What the rest of the work of a command for version v is for.
Due(jobs, v) ==
  {a \in Artifacts :
     \/ Job("mirror", a) \in jobs
     \/ \E sub \in Range(SubResources) : Job("values", sub) \in jobs /\ a \in SubNeeds(sub, v)
     \/ \E img \in Range(Images) : Job("image", img) \in jobs /\ a \in ImageNeeds(img, v)}

LEMMA JobFacts ==
  ASSUME NEW do, NEW of, NEW do2, NEW of2
  PROVE  /\ Job(do, of).do = do /\ Job(do, of).of = of
         /\ Job(do, of) = Job(do2, of2) => do = do2 /\ of = of2
<1>1. Job(do, of).do = do /\ Job(do, of).of = of
  BY DEF Job
<1>2. Job(do2, of2).do = do2 /\ Job(do2, of2).of = of2
  BY DEF Job
<1> QED
  BY <1>1, <1>2

\* A version needs its chart, what its values name and the images that fit.
LEMMA NeededFacts ==
  ASSUME NEW v \in SpaceVersions
  PROVE  /\ Needed(v) = {Artifact("spaces", v)}
                        \union (UNION {SubNeeds(sub, v) : sub \in Range(SubResources)})
                        \union (UNION {ImageNeeds(img, v) : img \in Range(Images)})
         /\ Needed(v) \subseteq Artifacts
<1>1. \A img \in Range(Images) :
        Include(img, v) <=> ("compatible" \in DOMAIN img => Semver[v].minor \in img.compatible)
  BY DEF Include, Check, CheckPreRelease
<1>2. {Artifact(img.image, TagOf(img, v)) :
          img \in {i \in Range(Images) : "compatible" \in DOMAIN i => Semver[v].minor \in i.compatible}}
      = UNION {ImageNeeds(img, v) : img \in Range(Images)}
  BY <1>1 DEF ImageNeeds
<1>3. Needed(v) = {Artifact("spaces", v)}
                  \union (UNION {SubNeeds(sub, v) : sub \in Range(SubResources)})
                  \union (UNION {ImageNeeds(img, v) : img \in Range(Images)})
  BY <1>2 DEF Needed, SubNeeds
<1> QED
  BY <1>3 DEF Artifacts

\* A command starts with all of it.
LEMMA WorkFacts ==
  ASSUME NEW v \in SpaceVersions
  PROVE  MirrorWork(v) \in Seq(Jobs) /\ Needed(v) \subseteq Due(Range(MirrorWork(v)), v)
<1> DEFINE chart == <<Job("mirror", Artifact("spaces", v))>>
           subs == [n \in DOMAIN SubResources |-> Job("values", SubResources[n])]
           images == [n \in DOMAIN Images |-> Job("image", Images[n])]
<1>1. Artifact("spaces", v) \in Artifacts /\ Job("mirror", Artifact("spaces", v)) \in Jobs
  BY NeededFacts DEF Jobs
<1>2. chart \in Seq(Jobs) /\ Range(chart) = {Job("mirror", Artifact("spaces", v))}
  BY <1>1, RangeOfOne
<1>3. /\ Len(SubResources) \in Nat /\ DOMAIN SubResources = 1 .. Len(SubResources)
      /\ Len(Images) \in Nat /\ DOMAIN Images = 1 .. Len(Images)
  BY MirrorAssumption, LenProperties
<1>4. subs \in Seq(Jobs) /\ Range(subs) = {Job("values", sub) : sub \in Range(SubResources)}
  <2>1. \A n \in DOMAIN SubResources : Job("values", SubResources[n]) \in Jobs
    BY DEF Jobs, Range
  <2>2. subs \in [1 .. Len(SubResources) -> Jobs]
    BY <1>3, <2>1
  <2>3. Range(subs) = {Job("values", x) : x \in Range(SubResources)}
    BY DEF Range
  <2> HIDE DEF subs
  <2> QED  BY <1>3, <2>2, <2>3, FunctionIsSeq
<1>5. images \in Seq(Jobs) /\ Range(images) = {Job("image", img) : img \in Range(Images)}
  <2>1. \A n \in DOMAIN Images : Job("image", Images[n]) \in Jobs
    BY DEF Jobs, Range
  <2>2. images \in [1 .. Len(Images) -> Jobs]
    BY <1>3, <2>1
  <2>3. Range(images) = {Job("image", x) : x \in Range(Images)}
    BY DEF Range
  <2> HIDE DEF images
  <2> QED  BY <1>3, <2>2, <2>3, FunctionIsSeq
<1>6. MirrorWork(v) = (chart \o subs) \o images
  BY DEF MirrorWork
<1> HIDE DEF chart, subs, images
<1>7. /\ MirrorWork(v) \in Seq(Jobs)
      /\ Range(MirrorWork(v)) = Range(chart) \union Range(subs) \union Range(images)
  <2>1. chart \o subs \in Seq(Jobs) /\ Range(chart \o subs) = Range(chart) \union Range(subs)
    BY <1>2, <1>4, RangeOfBoth
  <2>2. PICK first \in Seq(Jobs) : first = chart \o subs
    BY <2>1
  <2>3. first \o images \in Seq(Jobs) /\ Range(first \o images) = Range(first) \union Range(images)
    BY <1>5, RangeOfBoth
  <2> QED  BY <1>6, <2>1, <2>2, <2>3
<1>8. ASSUME NEW a \in Needed(v)
      PROVE  a \in Due(Range(MirrorWork(v)), v)
  <2>1. a \in Artifacts
    BY NeededFacts
  <2>2. CASE a = Artifact("spaces", v)
    BY <1>2, <1>7, <2>1, <2>2 DEF Due
  <2>3. ASSUME NEW sub \in Range(SubResources), a \in SubNeeds(sub, v)
        PROVE  a \in Due(Range(MirrorWork(v)), v)
    BY <1>4, <1>7, <2>1, <2>3 DEF Due
  <2>4. ASSUME NEW img \in Range(Images), a \in ImageNeeds(img, v)
        PROVE  a \in Due(Range(MirrorWork(v)), v)
    BY <1>5, <1>7, <2>1, <2>4 DEF Due
  <2>5. a \in {Artifact("spaces", v)}
             \union (UNION {SubNeeds(sub, v) : sub \in Range(SubResources)})
             \union (UNION {ImageNeeds(img, v) : img \in Range(Images)})
    BY <1>8, NeededFacts
  <2>6. \/ a = Artifact("spaces", v)
        \/ \E sub \in Range(SubResources) : a \in SubNeeds(sub, v)
        \/ \E img \in Range(Images) : a \in ImageNeeds(img, v)
    <3>1. a \in UNION {SubNeeds(sub, v) : sub \in Range(SubResources)}
            => \E sub \in Range(SubResources) : a \in SubNeeds(sub, v)
      OBVIOUS
    <3>2. a \in UNION {ImageNeeds(img, v) : img \in Range(Images)}
            => \E img \in Range(Images) : a \in ImageNeeds(img, v)
      OBVIOUS
    <3> QED  BY <2>5, <3>1, <3>2
  <2> QED  BY <2>2, <2>3, <2>4, <2>6
<1> QED
  BY <1>7, <1>8

LEMMA PairInARow ==
  ASSUME NEW S, NEW x \in S, NEW y \in S
  PROVE  <<x>> \o <<y>> = <<x, y>>
<1>1. <<x>> \in Seq(S) /\ <<y>> \in Seq(S)
  BY RangeOfOne
<1>2. Len(<<x>>) = 1 /\ <<x>>[1] = x /\ Len(<<y>>) = 1 /\ <<y>>[1] = y
  OBVIOUS
<1>3. <<x, y>> \in Seq(S)
  OBVIOUS
<1>4. Len(<<x, y>>) = 2 /\ <<x, y>>[1] = x /\ <<x, y>>[2] = y
  OBVIOUS
<1>5. PICK s \in Seq(S), t \in Seq(S) : s = <<x>> /\ t = <<y>>
  BY <1>1
<1>6. s \o t \in Seq(S) /\ Len(s \o t) = 2 /\ (s \o t)[1] = x /\ (s \o t)[2] = y
  BY <1>2, <1>5
<1>7. PICK both \in Seq(S) : both = <<x, y>>
  BY <1>3
<1>8. s \o t = both
  <2>1. PICK first \in Seq(S) : first = s \o t
    BY <1>6
  <2>2. Len(first) = Len(both) /\ \A i \in 1 .. Len(first) : first[i] = both[i]
    BY <1>4, <1>6, <1>7, <2>1
  <2>3. first = both
    BY <2>2, SeqEqual
  <2> QED  BY <2>1, <2>3
<1> QED
  BY <1>5, <1>7, <1>8

\* A chart, an image or both, under the name that the configuration gives it.
LEMMA NamedFacts ==
  ASSUME NEW sub
  PROVE  LET named == ChartAndImage(sub)
         IN  /\ Len(named) \in 0 .. 2 /\ DOMAIN named = 1 .. Len(named)
             /\ \A k \in 1 .. Len(named) : \E kind \in {"chart", "image"} \intersect DOMAIN sub : named[k] = sub[kind]
             /\ \A kind \in {"chart", "image"} \intersect DOMAIN sub : \E k \in 1 .. Len(named) : named[k] = sub[kind]
<1>1. CASE "chart" \in DOMAIN sub /\ "image" \in DOMAIN sub
  <2>1. ChartAndImage(sub) = <<sub.chart, sub.image>>
    <3> DEFINE x == sub.chart
               y == sub.image
    <3>1. x = sub.chart /\ y = sub.image
      OBVIOUS
    <3> HIDE DEF x, y
    <3>2. PICK S : x \in S /\ y \in S
      <4> WITNESS {x, y}
      <4> QED  OBVIOUS
    <3>4. <<x>> \o <<y>> = <<x, y>>
      BY <3>2, PairInARow
    <3>3. ChartAndImage(sub) = <<x>> \o <<y>>
      BY <1>1, <3>1 DEF ChartAndImage
    <3> QED  BY <3>1, <3>3, <3>4
  <2>2. /\ Len(ChartAndImage(sub)) = 2 /\ DOMAIN ChartAndImage(sub) = 1 .. 2
        /\ ChartAndImage(sub)[1] = sub["chart"] /\ ChartAndImage(sub)[2] = sub["image"]
    BY <2>1
  <2> QED  BY <1>1, <2>2
<1>2. CASE "chart" \in DOMAIN sub /\ ~("image" \in DOMAIN sub)
  <2>1. ChartAndImage(sub) = <<sub.chart>>
    BY <1>2 DEF ChartAndImage
  <2>2. Len(ChartAndImage(sub)) = 1 /\ DOMAIN ChartAndImage(sub) = 1 .. 1 /\ ChartAndImage(sub)[1] = sub["chart"]
    BY <2>1
  <2> QED  BY <1>2, <2>2
<1>3. CASE ~("chart" \in DOMAIN sub) /\ "image" \in DOMAIN sub
  <2>1. ChartAndImage(sub) = <<sub.image>>
    BY <1>3 DEF ChartAndImage
  <2>2. Len(ChartAndImage(sub)) = 1 /\ DOMAIN ChartAndImage(sub) = 1 .. 1 /\ ChartAndImage(sub)[1] = sub["image"]
    BY <2>1
  <2> QED  BY <1>3, <2>2
<1>4. CASE ~("chart" \in DOMAIN sub) /\ ~("image" \in DOMAIN sub)
  <2>1. ChartAndImage(sub) = <<>>
    BY <1>4 DEF ChartAndImage
  <2>2. Len(ChartAndImage(sub)) = 0 /\ DOMAIN ChartAndImage(sub) = 1 .. 0
    BY <2>1
  <2> QED  BY <1>4, <2>2
<1> QED
  BY <1>1, <1>2, <1>3, <1>4

\* Counting m names for each of c versions meets every pair of them.
LEMMA EveryPairIsMet ==
  ASSUME NEW m \in 0 .. 2, NEW c \in Nat
  PROVE  /\ \A n \in 1 .. m * c : 1 + ((n - 1) % m) \in 1 .. m /\ 1 + ((n - 1) \div m) \in 1 .. c
         /\ \A k \in 1 .. m, j \in 1 .. c :
              \E n \in 1 .. m * c : 1 + ((n - 1) % m) = k /\ 1 + ((n - 1) \div m) = j
<1>1. CASE m = 0
  BY <1>1
<1>2. CASE m = 1
  <2>1. \A n \in 1 .. c : (n - 1) % 1 = 0 /\ (n - 1) \div 1 = n - 1
    OBVIOUS
  <2>2. 1 * c = c
    OBVIOUS
  <2> QED  BY <1>2, <2>1, <2>2
<1>3. CASE m = 2
  <2>1. \A n \in 1 .. 2 * c : (n - 1) % 2 \in 0 .. 1 /\ (n - 1) \div 2 \in 0 .. c - 1
    OBVIOUS
  <2>2. ASSUME NEW k \in 1 .. 2, NEW j \in 1 .. c
        PROVE  \E n \in 1 .. 2 * c : 1 + ((n - 1) % 2) = k /\ 1 + ((n - 1) \div 2) = j
    <3>1. PICK n \in Int : n = 2 * (j - 1) + k
      OBVIOUS
    <3>2. n \in 1 .. 2 * c
      BY <3>1
    <3>3. (n - 1) % 2 = k - 1 /\ (n - 1) \div 2 = j - 1
      BY <3>1
    <3> QED  BY <3>2, <3>3
  <2> QED  BY <1>3, <2>1, <2>2
<1> QED
  BY <1>1, <1>2, <1>3

\* Reading its values gives a chart or image the work it needs, and no other.
LEMMA SubArtifactsFacts ==
  ASSUME NEW v \in SpaceVersions, NEW sub \in Range(SubResources)
  PROVE  /\ SubArtifacts(sub, v) \in Seq(Jobs)
         /\ \A a \in SubNeeds(sub, v) : Job("mirror", a) \in Range(SubArtifacts(sub, v))
<1> DEFINE named == ChartAndImage(sub)
           versions == Values[v][sub.path]
           job(k, j) == Job("mirror", Artifact(named[k], versions[j]))
<1>1. PICK m \in 0 .. 2 : m = Len(named)
  BY NamedFacts
<1>2. PICK c \in Nat : c = Len(versions) /\ DOMAIN versions = 1 .. c
  BY MirrorAssumption, LenProperties
<1>3. /\ \A k \in 1 .. m : \E kind \in {"chart", "image"} \intersect DOMAIN sub : named[k] = sub[kind]
      /\ \A kind \in {"chart", "image"} \intersect DOMAIN sub : \E k \in 1 .. m : named[k] = sub[kind]
  BY <1>1, NamedFacts
<1>4. ASSUME NEW k \in 1 .. m, NEW j \in 1 .. c
      PROVE  job(k, j) \in Jobs
  <2>1. PICK kind \in {"chart", "image"} \intersect DOMAIN sub : named[k] = sub[kind]
    BY <1>3
  <2>2. versions[j] \in Range(versions)
    BY <1>2 DEF Range
  <2>3. Artifact(named[k], versions[j]) \in SubNeeds(sub, v)
    BY <2>1, <2>2 DEF SubNeeds
  <2>4. Artifact(named[k], versions[j]) \in Artifacts
    BY <2>3, NeededFacts
  <2> QED  BY <2>4 DEF Jobs
<1>5. SubArtifacts(sub, v) = [n \in 1 .. m * c |-> job(1 + ((n - 1) % m), 1 + ((n - 1) \div m))]
  BY <1>1, <1>2 DEF SubArtifacts
<1>6. ASSUME NEW a \in SubNeeds(sub, v)
      PROVE  \E k \in 1 .. m, j \in 1 .. c : Job("mirror", a) = job(k, j)
  <2>1. PICK kind \in {"chart", "image"} \intersect DOMAIN sub, t \in Range(versions) : a = Artifact(sub[kind], t)
    BY <1>6 DEF SubNeeds
  <2>2. PICK k \in 1 .. m : named[k] = sub[kind]
    BY <1>3
  <2>3. PICK j \in 1 .. c : t = versions[j]
    BY <1>2 DEF Range
  <2> QED  BY <2>1, <2>2, <2>3
<1> HIDE DEF named, versions, job
<1>7. SubArtifacts(sub, v) \in Seq(Jobs)
  <2>1. \A n \in 1 .. m * c : job(1 + ((n - 1) % m), 1 + ((n - 1) \div m)) \in Jobs
    BY <1>4, EveryPairIsMet
  <2>2. m * c \in Nat
    OBVIOUS
  <2>3. SubArtifacts(sub, v) \in [1 .. m * c -> Jobs]
    BY <1>5, <2>1
  <2> QED  BY <2>2, <2>3, FunctionIsSeq
<1>8. ASSUME NEW a \in SubNeeds(sub, v)
      PROVE  Job("mirror", a) \in Range(SubArtifacts(sub, v))
  <2>1. PICK k \in 1 .. m, j \in 1 .. c : Job("mirror", a) = job(k, j)
    BY <1>6, <1>8
  <2>2. \A p \in 1 .. m, q \in 1 .. c :
          \E n \in 1 .. m * c : 1 + ((n - 1) % m) = p /\ 1 + ((n - 1) \div m) = q
    BY EveryPairIsMet
  <2>4. PICK n \in 1 .. m * c : 1 + ((n - 1) % m) = k /\ 1 + ((n - 1) \div m) = j
    BY <2>2
  <2>3. n \in DOMAIN SubArtifacts(sub, v) /\ SubArtifacts(sub, v)[n] = Job("mirror", a)
    BY <1>5, <2>1, <2>4
  <2> QED  BY <2>3 DEF Range
<1> QED
  BY <1>7, <1>8
-----------------------------------------------------------------------------
(* What a step leaves of the work, and what it has done of it *)

Orders == [step : {"checking", "scanning", "mirroring", "failed", "done"}, version : SpaceVersions,
           toDir : BOOLEAN, to : BOOLEAN, dryRun : BOOLEAN, said : SUBSET {"exported", "mirrored"}]

MirrorType ==
  /\ mirror \in [step : {"idle"}] \union Orders
  /\ mirror.step = "mirroring" => todo \in Seq(Jobs)

Held(a) == IF mirror.toDir THEN a \in DOMAIN saved /\ saved[a] = "whole" ELSE a \in mirrored

\* What is needed and not due any more is there; a dry run promises nothing.
DueInv ==
  mirror.step = "mirroring" /\ ~mirror.dryRun =>
    \A a \in Needed(mirror.version) : a \in Due(Range(todo), mirror.version) \/ Held(a)

MirrorInv == MirrorType /\ DueInv /\ SuccessIsWhole

\* What is due of a sequence of jobs is due of its first or of the others.
LEMMA DueSplits ==
  ASSUME NEW v \in SpaceVersions, NEW jobs \in Seq(Jobs), jobs # <<>>
  PROVE  /\ Head(jobs) \in Jobs /\ Tail(jobs) \in Seq(Jobs)
         /\ \A a \in Due(Range(jobs), v) :
              a \in Due(Range(Tail(jobs)), v) \/ a \in Due({Head(jobs)}, v)
<1>1. /\ Head(jobs) \in Jobs /\ Tail(jobs) \in Seq(Jobs)
      /\ \A x : x \in Range(jobs) => x \in {Head(jobs)} \/ x \in Range(Tail(jobs))
  BY TailRange
<1> QED
  BY <1>1 DEF Due

\* More jobs never leave less due.
LEMMA DueGrows ==
  ASSUME NEW v \in SpaceVersions, NEW few, NEW many, few \subseteq many
  PROVE  Due(few, v) \subseteq Due(many, v)
BY DEF Due

\* The kinds of jobs: what each is due for.
LEMMA DueOfOne ==
  ASSUME NEW v \in SpaceVersions, NEW job \in Jobs, NEW a \in Due({job}, v)
  PROVE  /\ job.do = "mirror" => a = job.of
         /\ job.do = "values" => job.of \in Range(SubResources) /\ a \in SubNeeds(job.of, v)
         /\ job.do = "image" => job.of \in Range(Images) /\ a \in ImageNeeds(job.of, v)
<1>1. \/ job = Job("mirror", a)
      \/ \E sub \in Range(SubResources) : job = Job("values", sub) /\ a \in SubNeeds(sub, v)
      \/ \E img \in Range(Images) : job = Job("image", img) /\ a \in ImageNeeds(img, v)
  BY DEF Due
<1>2. CASE job = Job("mirror", a)
  BY <1>2, JobFacts
<1>3. ASSUME NEW sub \in Range(SubResources), job = Job("values", sub), a \in SubNeeds(sub, v)
      PROVE  job.do = "values" /\ job.of = sub
  BY <1>3, JobFacts
<1>4. ASSUME NEW img \in Range(Images), job = Job("image", img), a \in ImageNeeds(img, v)
      PROVE  job.do = "image" /\ job.of = img
  BY <1>4, JobFacts
<1> QED
  BY <1>1, <1>2, <1>3, <1>4
-----------------------------------------------------------------------------
(* The invariant *)

LEMMA MirrorInitInv == SpaceMirrorInit => MirrorInv
BY DEF SpaceMirrorInit, MirrorInv, MirrorType, DueInv, SuccessIsWhole, Said

\* What a command of a step other than "idle" is.
LEMMA OrderFacts ==
  ASSUME MirrorType, mirror.step # "idle"
  PROVE  mirror \in Orders
BY DEF MirrorType

\* A command that ends without a word, or goes on before its work starts.
LEMMA QuietMirror ==
  ASSUME MirrorInv,
         mirror' \in Orders, mirror'.step \notin {"mirroring", "done"}
  PROVE  MirrorInv'
BY DEF MirrorInv, MirrorType, DueInv, SuccessIsWhole, Said

LEMMA BeforeWorkSteps ==
  ASSUME MirrorInv, CheckDirectory \/ (\E v \in SpaceVersions, toDir \in BOOLEAN, to \in BOOLEAN, dryRun \in BOOLEAN : Run(v, toDir, to, dryRun))
  PROVE  MirrorInv'
<1>1. CASE CheckDirectory
  <2>1. mirror \in Orders
    BY <1>1, OrderFacts DEF MirrorInv, CheckDirectory
  <2>2. mirror' \in Orders /\ mirror'.step \notin {"mirroring", "done"}
    BY <1>1, <2>1 DEF CheckDirectory, End, Orders
  <2> QED  BY <2>2, QuietMirror
<1>2. ASSUME NEW v \in SpaceVersions, NEW toDir \in BOOLEAN, NEW to \in BOOLEAN, NEW dryRun \in BOOLEAN,
             Run(v, toDir, to, dryRun)
      PROVE  MirrorInv'
  <2>1. mirror' \in Orders /\ mirror'.step \notin {"mirroring", "done"}
    BY <1>2 DEF Run, Orders
  <2> QED  BY <2>1, QuietMirror
<1> QED
  BY <1>1, <1>2

\* Once the tag of the chart is found, all the work is due.
LEMMA ScanTagsStep ==
  ASSUME MirrorInv, ScanTags
  PROVE  MirrorInv'
<1>1. mirror \in Orders
  BY OrderFacts DEF MirrorInv, ScanTags
<1>2. CASE End("failed", {})
  <2>1. mirror' \in Orders /\ mirror'.step \notin {"mirroring", "done"}
    BY <1>1, <1>2 DEF End, Orders
  <2> QED  BY <2>1, QuietMirror
<1>3. CASE mirror' = [mirror EXCEPT !.step = "mirroring"] /\ todo' = MirrorWork(mirror.version)
  <2>1. mirror.version \in SpaceVersions
    BY <1>1 DEF Orders
  <2>2. mirror' \in Orders /\ mirror'.step = "mirroring" /\ mirror'.version = mirror.version
    BY <1>1, <1>3 DEF Orders
  <2>3. todo' \in Seq(Jobs) /\ Needed(mirror.version) \subseteq Due(Range(todo'), mirror.version)
    BY <1>3, <2>1, WorkFacts
  <2>4. MirrorType'
    BY <2>2, <2>3 DEF MirrorType
  <2>5. DueInv'
    BY <2>2, <2>3 DEF DueInv
  <2>6. SuccessIsWhole'
    BY <2>2 DEF SuccessIsWhole, Said
  <2> QED  BY <2>4, <2>5, <2>6 DEF MirrorInv
<1> QED
  BY <1>2, <1>3 DEF ScanTags

\* A step of the work that goes on: jobs may take the place of the first job,
\* if they are due for all that the first one was, or that is held.
LEMMA WorkGoesOn ==
  ASSUME MirrorInv, mirror.step = "mirroring", todo # <<>>, mirror' = mirror,
         NEW jobs \in Seq(Jobs), todo' = jobs \o Tail(todo),
         \A a \in Artifacts : Held(a) => Held(a)',
         ~mirror.dryRun => \A a \in Due({Head(todo)}, mirror.version) : a \in Due(Range(jobs), mirror.version) \/ Held(a)'
  PROVE  MirrorInv'
<1>1. mirror \in Orders /\ mirror.version \in SpaceVersions /\ todo \in Seq(Jobs)
  <2>1. mirror \in Orders
    BY OrderFacts DEF MirrorInv
  <2> QED  BY <2>1 DEF MirrorInv, MirrorType, Orders
<1>2. PICK v \in SpaceVersions : v = mirror.version
  BY <1>1
<1>3. PICK rest \in Seq(Jobs) : rest = Tail(todo)
  BY <1>1, DueSplits, <1>2
<1>4. todo' \in Seq(Jobs) /\ Range(todo') = Range(jobs) \union Range(rest)
  <2>1. jobs \o rest \in Seq(Jobs) /\ Range(jobs \o rest) = Range(jobs) \union Range(rest)
    <3>1. \A s, t \in Seq(Jobs) : s \o t \in Seq(Jobs) /\ Range(s \o t) = Range(s) \union Range(t)
      BY RangeOfBoth, Zenon
    <3> QED
      BY <3>1, Zenon
  <2>2. todo' = jobs \o rest
    BY <1>3
  <2> QED
    BY <2>1, <2>2, Zenon
<1>5. Due(Range(jobs), v) \subseteq Due(Range(todo'), v) /\ Due(Range(rest), v) \subseteq Due(Range(todo'), v)
  BY <1>4, DueGrows
<1>6. \A a \in Due(Range(todo), v) : a \in Due(Range(rest), v) \/ a \in Due({Head(todo)}, v)
  BY <1>1, <1>3, DueSplits
<1>7. MirrorType'
  BY <1>1, <1>4 DEF MirrorInv, MirrorType
<1>8. DueInv'
  <2>1. SUFFICES ASSUME ~mirror.dryRun, NEW a \in Needed(v)
                 PROVE  a \in Due(Range(todo'), v) \/ Held(a)'
    BY <1>2 DEF DueInv
  <2>2. a \in Artifacts
    BY NeededFacts
  <2>3. a \in Due(Range(todo), v) \/ Held(a)
    BY <1>2, <2>1 DEF MirrorInv, DueInv
  <2> QED  BY <1>2, <1>5, <1>6, <2>1, <2>2, <2>3
<1>9. SuccessIsWhole'
  BY DEF SuccessIsWhole, Said
<1> QED
  BY <1>7, <1>8, <1>9 DEF MirrorInv

\* A failure, where nothing is promised.
LEMMA FailedStep ==
  ASSUME MirrorInv, mirror.step = "mirroring", End("failed", {})
  PROVE  MirrorInv'
<1>1. mirror \in Orders
  BY OrderFacts DEF MirrorInv
<1>2. mirror' \in Orders /\ mirror'.step \notin {"mirroring", "done"}
  BY <1>1 DEF End, Orders
<1> QED  BY <1>2, QuietMirror

\* What the first job of the work is.
LEMMA FirstJob ==
  ASSUME MirrorInv, NEW do \in {"mirror", "values", "image"}, Doing(do)
  PROVE  /\ mirror \in Orders /\ mirror.step = "mirroring" /\ mirror.version \in SpaceVersions
         /\ todo \in Seq(Jobs) /\ todo # <<>> /\ Head(todo) \in Jobs /\ Head(todo).do = do
         /\ do = "mirror" => Head(todo).of \in Artifacts
         /\ do = "values" => Head(todo).of \in Range(SubResources)
         /\ do = "image" => Head(todo).of \in Range(Images)
<1>1. mirror \in Orders /\ mirror.step = "mirroring" /\ todo # <<>> /\ Head(todo).do = do
  BY OrderFacts DEF MirrorInv, Doing
<1>2. mirror.version \in SpaceVersions
  BY <1>1 DEF Orders
<1>3. todo \in Seq(Jobs)
  BY <1>1 DEF MirrorInv, MirrorType
<1>4. PICK job \in Jobs : job = Head(todo)
  BY <1>1, <1>2, <1>3, DueSplits
<1>5. \/ \E a \in Artifacts : job = Job("mirror", a)
      \/ \E sub \in Range(SubResources) : job = Job("values", sub)
      \/ \E img \in Range(Images) : job = Job("image", img)
  BY <1>4 DEF Jobs
<1>6. \/ job.do = "mirror" /\ job.of \in Artifacts
      \/ job.do = "values" /\ job.of \in Range(SubResources)
      \/ job.do = "image" /\ job.of \in Range(Images)
  BY <1>5, JobFacts
<1> QED
  BY <1>1, <1>2, <1>3, <1>4, <1>6

\* The values name all that a chart of the configuration stands for.
LEMMA GetValuesStep ==
  ASSUME MirrorInv, GetValues
  PROVE  MirrorInv'
<1>1. Doing("values")
  BY DEF GetValues
<1>2. CASE End("failed", {})
  BY <1>1, <1>2, FailedStep DEF Doing
<1>3. CASE todo' = SubArtifacts(Head(todo).of, mirror.version) \o Tail(todo) /\ mirror' = mirror
  <2>1. /\ mirror.step = "mirroring" /\ todo # <<>> /\ mirror.version \in SpaceVersions
        /\ Head(todo) \in Jobs /\ Head(todo).do = "values" /\ Head(todo).of \in Range(SubResources)
    BY <1>1, FirstJob
  <2>2. PICK v \in SpaceVersions : v = mirror.version
    BY <2>1
  <2>3. PICK sub \in Range(SubResources) : sub = Head(todo).of
    BY <2>1
  <2>4. PICK jobs \in Seq(Jobs) : jobs = SubArtifacts(sub, v)
    BY SubArtifactsFacts
  <2>5. \A a \in SubNeeds(sub, v) : Job("mirror", a) \in Range(jobs)
    BY <2>4, SubArtifactsFacts
  <2>6. ASSUME NEW a \in Due({Head(todo)}, v)
        PROVE  a \in Due(Range(jobs), v)
    <3>1. a \in SubNeeds(sub, v)
      BY <2>1, <2>3, <2>6, DueOfOne
    <3>2. a \in Artifacts
      BY <2>6 DEF Due
    <3> QED  BY <2>5, <3>1, <3>2 DEF Due
  <2>7. \A a \in Artifacts : Held(a) => Held(a)'
    BY <1>3 DEF GetValues, Held
  <2>8. todo' = jobs \o Tail(todo)
    BY <1>3, <2>2, <2>3, <2>4
  <2> QED  BY <1>3, <2>1, <2>2, <2>6, <2>7, <2>8, WorkGoesOn
<1> QED
  BY <1>2, <1>3 DEF GetValues

\* An image gives a job if it fits the version, and is due for none if not.
LEMMA SelectImageStep ==
  ASSUME MirrorInv, SelectImage
  PROVE  MirrorInv'
<1>1. /\ mirror.step = "mirroring" /\ todo # <<>> /\ todo \in Seq(Jobs) /\ mirror.version \in SpaceVersions
      /\ Head(todo) \in Jobs /\ Head(todo).do = "image" /\ Head(todo).of \in Range(Images)
  BY FirstJob DEF SelectImage
<1>2. PICK v \in SpaceVersions : v = mirror.version
  BY <1>1
<1>3. PICK img \in Range(Images) : img = Head(todo).of
  BY <1>1
<1> DEFINE artifact == Artifact(img.image, TagOf(img, v))
<1>4. \A a \in Due({Head(todo)}, v) : a \in ImageNeeds(img, v)
  BY <1>1, <1>3, DueOfOne
<1>5. mirror' = mirror /\ \A a \in Artifacts : Held(a) => Held(a)'
  BY DEF SelectImage, Held
<1>6. CASE Include(img, v)
  <2>1. ImageNeeds(img, v) = {artifact}
    BY <1>6 DEF ImageNeeds
  <2>2. artifact \in Artifacts
    BY <2>1, NeededFacts
  <2>3. todo' = <<Job("mirror", artifact)>> \o Tail(todo)
    BY <1>2, <1>3, <1>6 DEF SelectImage
  <2> HIDE DEF artifact
  <2>4. Job("mirror", artifact) \in Jobs
    BY <2>2 DEF Jobs
  <2>5. PICK jobs \in Seq(Jobs) : jobs = <<Job("mirror", artifact)>> /\ Range(jobs) = {Job("mirror", artifact)}
    BY <2>4, RangeOfOne
  <2>6. \A a \in Due({Head(todo)}, v) : a \in Due(Range(jobs), v)
    BY <1>4, <2>1, <2>2, <2>5 DEF Due
  <2> QED  BY <1>1, <1>2, <1>5, <2>3, <2>5, <2>6, WorkGoesOn
<1>7. CASE ~Include(img, v)
  <2>1. \A a : a \notin Due({Head(todo)}, v)
    BY <1>4, <1>7 DEF ImageNeeds
  <2>2. Tail(todo) \in Seq(Jobs)
    BY <1>1, DueSplits
  <2>3. todo' = Tail(todo)
    BY <1>2, <1>3, <1>7 DEF SelectImage
  <2>4. PICK jobs \in Seq(Jobs) : jobs = <<>>
    BY EmptySeq
  <2>5. todo' = jobs \o Tail(todo)
    BY <2>2, <2>3, <2>4, ConcatEmptySeq
  <2> QED  BY <1>1, <1>2, <1>5, <2>1, <2>5, WorkGoesOn
<1> QED
  BY <1>6, <1>7

\* An artifact is done when it is held, or if nothing is to be.
LEMMA ArtifactDone ==
  ASSUME MirrorInv, Doing("mirror"), mirror' = mirror, todo' = Tail(todo),
         \A a \in Artifacts : Held(a) => Held(a)',
         NEW artifact, artifact = Head(todo).of, ~mirror.dryRun => Held(artifact)'
  PROVE  MirrorInv'
<1>1. /\ mirror.step = "mirroring" /\ todo # <<>> /\ todo \in Seq(Jobs) /\ mirror.version \in SpaceVersions
      /\ Head(todo) \in Jobs /\ Head(todo).do = "mirror"
  BY FirstJob
<1>2. PICK v \in SpaceVersions : v = mirror.version
  BY <1>1
<1>3. Tail(todo) \in Seq(Jobs)
  BY <1>1, <1>2, DueSplits
<1>4. PICK jobs \in Seq(Jobs) : jobs = <<>>
  BY EmptySeq
<1>5. todo' = jobs \o Tail(todo)
  BY <1>3, <1>4, ConcatEmptySeq
<1>6. \A a \in Due({Head(todo)}, v) : a = artifact
  BY <1>1, DueOfOne
<1>7. ~mirror.dryRun => \A a \in Due({Head(todo)}, v) : a \in Due(Range(jobs), v) \/ Held(a)'
  BY <1>6
<1> QED  BY <1>1, <1>2, <1>5, <1>7, WorkGoesOn

LEMMA ArtifactSteps ==
  ASSUME MirrorInv, Save \/ Copy \/ PrintOnly
  PROVE  MirrorInv'
<1>0. PICK artifact : artifact = Head(todo).of
  OBVIOUS
<1>1. CASE Save
  <2>1. /\ Doing("mirror") /\ mirror' = mirror /\ mirror.toDir /\ todo' = Tail(todo)
        /\ saved' = [b \in DOMAIN saved \union {artifact} |-> IF b = artifact THEN "whole" ELSE saved[b]]
    BY <1>0, <1>1 DEF Save, File
  <2>2. \A a \in Artifacts : Held(a) => Held(a)'
    BY <2>1 DEF Held
  <2>3. Held(artifact)'
    <3>1. mirror'.toDir /\ artifact \in DOMAIN saved' /\ saved'[artifact] = "whole"
      BY <2>1
    <3> QED  BY <3>1 DEF Held
  <2> QED  BY <2>1, <2>2, <2>3, <1>0, ArtifactDone
<1>2. CASE Copy
  <2>1. /\ Doing("mirror") /\ mirror' = mirror /\ ~mirror.toDir /\ todo' = Tail(todo)
        /\ mirrored' = mirrored \union {artifact}
    BY <1>0, <1>2 DEF Copy
  <2>2. (\A a \in Artifacts : Held(a) => Held(a)') /\ Held(artifact)'
    BY <2>1 DEF Held
  <2> QED  BY <2>1, <2>2, <1>0, ArtifactDone
<1>3. CASE PrintOnly
  <2>1. /\ Doing("mirror") /\ mirror' = mirror /\ mirror.dryRun /\ todo' = Tail(todo)
    BY <1>3 DEF PrintOnly
  <2>2. \A a \in Artifacts : Held(a) => Held(a)'
    BY <1>3 DEF PrintOnly, Held
  <2> QED  BY <2>1, <2>2, <1>0, ArtifactDone
<1> QED
  BY <1>1, <1>2, <1>3

\* With no work left nothing is due, so all that is needed is held.
LEMMA SucceedMirrorStep ==
  ASSUME MirrorInv, SucceedMirror
  PROVE  MirrorInv'
<1>1. mirror \in Orders /\ mirror.step = "mirroring" /\ todo = <<>>
  BY OrderFacts DEF MirrorInv, SucceedMirror
<1>2. /\ mirror' = [mirror EXCEPT !.step = "done",
                     !.said = {m \in {"exported", "mirrored"} :
                                 ~mirror.dryRun /\ (IF m = "exported" THEN mirror.toDir ELSE mirror.to)}]
      /\ saved' = saved /\ mirrored' = mirrored
  BY DEF SucceedMirror, End
<1>3. /\ mirror' \in Orders /\ mirror'.step = "done" /\ mirror'.version = mirror.version
      /\ mirror'.toDir = mirror.toDir
      /\ \A m \in mirror'.said : ~mirror.dryRun /\ (IF m = "exported" THEN mirror.toDir ELSE mirror.to)
  BY <1>1, <1>2 DEF Orders
<1>4. \A a : a \notin Due(Range(todo), mirror.version)
  <2>1. Range(todo) = {}
    BY <1>1 DEF Range
  <2> QED  BY <2>1 DEF Due
<1>5. ~mirror.dryRun => \A a \in Needed(mirror.version) : Held(a)
  BY <1>1, <1>4 DEF MirrorInv, DueInv
<1>6. SuccessIsWhole'
  BY <1>2, <1>3, <1>5 DEF SuccessIsWhole, Said, Held
<1>7. MirrorType' /\ DueInv'
  BY <1>3 DEF MirrorType, DueInv
<1> QED
  BY <1>6, <1>7 DEF MirrorInv

LEMMA MirrorNextInv ==
  ASSUME MirrorInv, [SpaceMirrorNext]_mirrorVars
  PROVE  MirrorInv'
<1>1. CASE CheckDirectory \/ (\E v \in SpaceVersions, toDir \in BOOLEAN, to \in BOOLEAN, dryRun \in BOOLEAN : Run(v, toDir, to, dryRun))
  BY <1>1, BeforeWorkSteps
<1>2. CASE ScanTags
  BY <1>2, ScanTagsStep
<1>3. CASE GetValues
  BY <1>3, GetValuesStep
<1>4. CASE SelectImage
  BY <1>4, SelectImageStep
<1>5. CASE Save \/ Copy \/ PrintOnly
  BY <1>5, ArtifactSteps
<1>6. CASE MirrorFails
  BY <1>6, FailedStep DEF MirrorFails, Doing
<1>7. CASE SucceedMirror
  BY <1>7, SucceedMirrorStep
<1>8. CASE UNCHANGED mirrorVars
  BY <1>8 DEF mirrorVars, MirrorInv, MirrorType, DueInv, Held, SuccessIsWhole, Said
<1> QED
  BY <1>1, <1>2, <1>3, <1>4, <1>5, <1>6, <1>7, <1>8 DEF SpaceMirrorNext

(* Whatever configuration of charts and images a version has, and however  *)
(* commands failed before, one that says "Successfully exported" or        *)
(* "Successfully mirrored" leaves every artifact, whole.                   *)
THEOREM MirrorsAreWhole == SpaceMirrorSpec => []SuccessIsWhole
<1>1. SpaceMirrorInit => MirrorInv
  BY MirrorInitInv
<1>2. MirrorInv /\ [SpaceMirrorNext]_mirrorVars => MirrorInv'
  BY MirrorNextInv
<1>3. MirrorInv => SuccessIsWhole
  BY DEF MirrorInv
<1> QED
  BY <1>1, <1>2, <1>3, PTL DEF SpaceMirrorSpec
=============================================================================
