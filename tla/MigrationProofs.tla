-------------------------- MODULE MigrationProofs --------------------------
(***************************************************************************)
(* That an export that succeeded is complete; that an import applies what  *)
(* packages and XRDs define only after them, lets no controller make a     *)
(* second copy, unpauses what acts on the cloud last, and is complete when *)
(* it says so; for any resources, types, changes of the source and runs of *)
(* the import.                                                             *)
(***************************************************************************)
EXTENDS ControlPlaneMigration, TLAPS

ExportSteps == {"idle", "pause", "scan", "types", "archive", "ended"}
ImportSteps == {"idle", "preflight", "read", "base", "rest", "composite", "claim", "managed", "ended"}

TypeInv ==
    /\ source \in [Resources -> Pause] /\ target \in [Resources -> Pause]
    /\ stable \subseteq Resources
    /\ export \in [step : ExportSteps, todo : SUBSET Types, files : SUBSET Files,
                   result : {"none", "exported", "failed"}, closed : BOOLEAN]
    /\ archive \in [files : SUBSET Files, readable : BOOLEAN]
    /\ import \in [step : ImportSteps, fs : [made : BOOLEAN, files : SUBSET Files],
                   todo : SUBSET Resources, unpause : BOOLEAN, overridden : BOOLEAN,
                   result : {"none", "imported", "declined", "failed"}, runs : Nat]

\* What is to be exported of what was there all along.
Wanted == {r \in stable \ Skipped : ShouldExport(TypeOf[r])}

\* Nothing the target makes itself, and no resource without the metadata of
\* its type.
Sound(files) ==
    /\ Skipped \cap files = {}
    /\ \A r \in files \cap Resources : TypeOf[r] \in files \cup NativeTypes

ExportInv ==
    /\ export.step # "ended" =>
          /\ export.result = "none"
          /\ \A r \in stable : source[r] # "absent" /\ TypeOf[r] \notin inflight
    /\ Sound(export.files)
    /\ export.step \in {"types", "archive"} =>
          \A r \in Wanted : TypeOf[r] \in export.todo \/ r \in export.files
    /\ export.step = "archive" => export.todo = {}
    /\ export.result = "exported" /\ export.closed =>
          archive.readable /\ Wanted \subseteq archive.files /\ Sound(archive.files)

Ready(files) == {q \in files \cap Resources : TypeOf[q] \in ReadyTypes}

\* Base resources read are applied or left to do; with all of them applied
\* and the present ones healthy, those of the archive are healthy.
ImportInv ==
    /\ import.step = "base" =>
          /\ import.todo \subseteq ReadResources(import.fs, Base)
          /\ \A q \in ReadResources(import.fs, Base) : q \in import.todo \/ target[q] # "absent"
    /\ import.step = "rest" => Ready(import.fs.files) \subseteq healthy

MigrationInv == TypeInv /\ ExportInv /\ ImportInv
-----------------------------------------------------------------------------
(* The invariant holds at the start. *)
LEMMA MigrationInitInv == MigrationInit => MigrationInv
BY ResourcesAssumption DEF MigrationInit, MigrationInv, TypeInv, ExportInv, ImportInv, Pause, NotRead,
   ExportSteps, ImportSteps, Wanted, Sound, Ready

(* What the import and the target do concerns the export in nothing. *)
LEMMA ExportUntouched ==
    ASSUME ExportInv, UNCHANGED <<source, inflight, stable, export, archive>> PROVE ExportInv'
BY DEF ExportInv, Wanted

(* And what the export does, the import in nothing. *)
LEMMA ImportUntouched == ASSUME ImportInv, UNCHANGED <<target, healthy, import>> PROVE ImportInv'
BY DEF ImportInv
-----------------------------------------------------------------------------
(* What is written for a type is sound, and holds what of it was there. *)
LEMMA ExportOfType ==
    ASSUME TypeInv, ExportInv, NEW t \in Types, export.step = "types", t \notin inflight
    PROVE  /\ ExportOf(t) \in [step : ExportSteps, todo : SUBSET Types, files : SUBSET Files,
                               result : {"none", "exported", "failed"}, closed : BOOLEAN]
           /\ ExportOf(t).step = "types" /\ ExportOf(t).result = "none"
           /\ ExportOf(t).todo = export.todo \ {t} /\ export.files \subseteq ExportOf(t).files
           /\ Sound(ExportOf(t).files)
           /\ \A r \in stable \ Skipped : TypeOf[r] = t => r \in ExportOf(t).files
<1> DEFINE meta == IF t \in NativeTypes THEN {} ELSE {t}
           added == PersistResources(t, meta)
<1>1. ExportOf(t) = [export EXCEPT !.todo = @ \ {t}, !.files = @ \cup added]
  BY DEF ExportOf, ExportNativeResource, ExportCrossplaneResources, ExportResources
<1>2. Fetched(t) = {r \in Resources : source[r] # "absent" /\ TypeOf[r] = t /\ r \notin Skipped}
  BY DEF Fetched, Present, ShouldSkip
<1>3. added \subseteq Files /\ Fetched(t) \subseteq added /\ added \subseteq Fetched(t) \cup meta
      /\ (added # {} => meta \subseteq added)
  BY <1>2 DEF PersistResources, Files
<1> HIDE DEF added
<1>4. /\ ExportOf(t).step = export.step /\ ExportOf(t).result = export.result
      /\ ExportOf(t).todo = export.todo \ {t} /\ ExportOf(t).files = export.files \cup added
      /\ ExportOf(t) \in [step : ExportSteps, todo : SUBSET Types, files : SUBSET Files,
                          result : {"none", "exported", "failed"}, closed : BOOLEAN]
  <2>1. export.todo \ {t} \subseteq Types /\ export.files \cup added \subseteq Files
    BY <1>3 DEF TypeInv
  <2> QED
    BY <1>1, <2>1 DEF TypeInv
<1>5. Sound(export.files \cup added)
  <2>1. t \notin Skipped
    BY ResourcesAssumption
  <2>2. Skipped \cap added = {}
    BY <1>2, <1>3, <2>1
  <2>3. ASSUME NEW r \in added \cap Resources PROVE TypeOf[r] \in added \cup NativeTypes
    <3>1. r \in Fetched(t)
      BY <1>3, <2>3, ResourcesAssumption
    <3>2. TypeOf[r] = t /\ meta \subseteq added
      BY <1>2, <1>3, <2>3, <3>1
    <3> QED
      BY <3>2
  <2> QED
    BY <2>2, <2>3 DEF Sound, ExportInv
<1>6. \A r \in stable \ Skipped : TypeOf[r] = t => r \in added
  BY <1>2, <1>3 DEF ExportInv, TypeInv
<1> QED
  BY <1>4, <1>5, <1>6 DEF ExportInv

(* The types are exported one after the other. *)
LEMMA ExportTypeInv ==
    ASSUME TypeInv, ExportInv, NEW t \in Types, ExportType(t)
    PROVE  export' \in [step : ExportSteps, todo : SUBSET Types, files : SUBSET Files,
                        result : {"none", "exported", "failed"}, closed : BOOLEAN] /\ ExportInv'
<1>1. /\ export.step = "types" /\ export.result = "none"
      /\ UNCHANGED <<source, inflight, stable, archive>>
  BY DEF ExportType, ExportInv
<1>2. CASE t \notin inflight /\ export' = ExportOf(t)
  <2>1. ASSUME NEW r \in Wanted PROVE TypeOf[r] \in export'.todo \/ r \in export'.files
    BY <1>1, <1>2, ExportOfType DEF Wanted, ExportInv
  <2> QED
    BY <1>1, <1>2, <2>1, ExportOfType DEF ExportInv, Wanted
<1>3. CASE t \in inflight /\ export' = [export EXCEPT !.todo = @ \ {t}]
  <2>1. \A r \in Wanted : TypeOf[r] # t
    BY <1>1, <1>3 DEF Wanted, ExportInv
  <2>2. /\ export'.step = "types" /\ export'.result = "none" /\ export'.files = export.files
        /\ export'.todo = export.todo \ {t}
    BY <1>1, <1>3 DEF TypeInv
  <2> QED
    BY <1>1, <1>3, <2>1, <2>2 DEF ExportInv, Wanted, TypeInv
<1>4. CASE export' = EndExport(export, "failed")
  BY <1>1, <1>4 DEF ExportInv, EndExport, TypeInv, ExportSteps
<1> QED
  BY <1>2, <1>3, <1>4 DEF ExportType

(* What an archive that was cut off may be. *)
LEMMA CutType ==
    ASSUME NEW files \in SUBSET Files, NEW b \in BOOLEAN, NEW a \in Cut(files, b)
    PROVE  a \in [files : SUBSET Files, readable : BOOLEAN]
<1>1. PICK n : a = [files |-> Prefix(files, n), readable |-> b]
  BY DEF Cut
<1>2. Prefix(files, n) \subseteq Files
  BY DEF Prefix
<1> QED
  BY <1>1, <1>2

(* The archive has all of it, or the command does not say so. *)
LEMMA ArchiveInv ==
    ASSUME TypeInv, ExportInv, Archive
    PROVE  /\ export' \in [step : ExportSteps, todo : SUBSET Types, files : SUBSET Files,
                           result : {"none", "exported", "failed"}, closed : BOOLEAN]
           /\ archive' \in [files : SUBSET Files, readable : BOOLEAN]
           /\ ExportInv'
<1>1. export.step = "archive" /\ export.todo = {} /\ UNCHANGED <<source, inflight, stable>>
  BY DEF Archive, ExportInv
<1>2. Wanted \subseteq export.files
  BY <1>1 DEF ExportInv
<1>3. CASE archive' = Whole(export.files) /\ export' = EndExport(export, "exported")
  <2>1. archive'.readable /\ archive'.files = export.files
    BY <1>3 DEF Whole
  <2>2. export'.files = export.files /\ export'.step = "ended"
    BY <1>3 DEF EndExport, TypeInv
  <2> QED
    BY <1>1, <1>2, <1>3, <2>1, <2>2 DEF ExportInv, Wanted, Whole, EndExport, TypeInv, ExportSteps
<1>4. CASE /\ archive' \in Cut(export.files, TRUE) \cup Cut(export.files, FALSE)
           /\ export' = EndExport(export, "failed")
  <2>1. archive' \in [files : SUBSET Files, readable : BOOLEAN]
    BY <1>4, CutType DEF TypeInv
  <2>2. export'.files = export.files /\ export'.step = "ended" /\ export'.result = "failed"
    BY <1>4 DEF EndExport, TypeInv
  <2> QED
    BY <1>4, <2>1, <2>2 DEF ExportInv, EndExport, TypeInv, ExportSteps
<1>5. CASE /\ archive' \in Cut(export.files, FALSE)
           /\ export' = [EndExport(export, "exported") EXCEPT !.closed = FALSE]
  <2>1. archive' \in [files : SUBSET Files, readable : BOOLEAN]
    BY <1>5, CutType DEF TypeInv
  <2>2. export'.files = export.files /\ export'.step = "ended" /\ ~export'.closed
    BY <1>5 DEF EndExport, TypeInv
  <2> QED
    BY <1>5, <2>1, <2>2 DEF ExportInv, EndExport, TypeInv, ExportSteps
<1> QED
  BY <1>3, <1>4, <1>5 DEF Archive

(* What changes is no longer counted on. *)
LEMMA SourceChangesInv ==
    ASSUME TypeInv, ExportInv, SourceChanges
    PROVE  source' \in [Resources -> Pause] /\ stable' \subseteq Resources /\ ExportInv'
<1>1. export.step \in {"pause", "scan", "types"} /\ UNCHANGED <<export, archive>>
      /\ export.result = "none"
  BY DEF SourceChanges, ExportInv
<1>2. stable' \subseteq stable
  BY DEF SourceChanges
<1>3. source' \in [Resources -> Pause]
  BY DEF SourceChanges, TypeInv, Pause
<1>4. \A r \in stable' : source'[r] # "absent" /\ TypeOf[r] \notin inflight'
  <2>1. CASE UNCHANGED inflight
    BY <1>1, <2>1 DEF SourceChanges, ExportInv, TypeInv
  <2>2. CASE UNCHANGED source
    BY <1>1, <2>2 DEF SourceChanges, ExportInv, TypeInv
  <2> QED
    BY <2>1, <2>2 DEF SourceChanges
<1>5. Wanted' \subseteq Wanted
  BY <1>2 DEF Wanted
<1> QED
  BY <1>1, <1>2, <1>3, <1>4, <1>5 DEF ExportInv, TypeInv

(* Pausing and scanning. *)
LEMMA StartExportInv ==
    ASSUME TypeInv, ExportInv,
           (\E b \in BOOLEAN : RunExport(b)) \/ PauseSource \/ ScanTypes \/ ExportMetadata
    PROVE  /\ source' \in [Resources -> Pause] /\ stable' \subseteq Resources
           /\ export' \in [step : ExportSteps, todo : SUBSET Types, files : SUBSET Files,
                           result : {"none", "exported", "failed"}, closed : BOOLEAN]
           /\ ExportInv' /\ UNCHANGED archive
<1>1. ASSUME NEW b \in BOOLEAN, RunExport(b)
      PROVE  /\ stable' = {r \in Present(source) : TypeOf[r] \notin inflight}
             /\ UNCHANGED <<source, inflight, archive>> /\ export.step = "idle"
             /\ export' \in {[export EXCEPT !.step = s] : s \in {"pause", "scan", "ended"}}
  BY <1>1 DEF RunExport
<1>2. CASE \E b \in BOOLEAN : RunExport(b)
  BY <1>1, <1>2 DEF Present, ExportInv, TypeInv, ExportSteps
<1>3. CASE PauseSource
  <2>1. /\ export.step = "pause" /\ UNCHANGED <<inflight, stable, archive>>
        /\ export' \in {export, [export EXCEPT !.step = "scan"], EndExport(export, "failed")}
    BY <1>3 DEF PauseSource
  <2>2. /\ source' \in [Resources -> Pause]
        /\ \A r \in Resources : source[r] # "absent" => source'[r] # "absent"
    BY <1>3 DEF PauseSource, ModifyResources, TypeInv, Pause
  <2>3. /\ export' \in [step : ExportSteps, todo : SUBSET Types, files : SUBSET Files,
                         result : {"none", "exported", "failed"}, closed : BOOLEAN]
        /\ export'.files = export.files /\ export'.step \in {"pause", "scan", "ended"}
        /\ (export'.step = "ended" <=> export'.result = "failed") /\ export'.result # "exported"
    <3>1. CASE export' = export
      BY <2>1, <3>1 DEF ExportInv, TypeInv
    <3>2. CASE export' = [export EXCEPT !.step = "scan"]
      BY <2>1, <3>2 DEF ExportInv, TypeInv, ExportSteps
    <3>3. CASE export' = EndExport(export, "failed")
      BY <2>1, <3>3 DEF TypeInv, ExportSteps, EndExport
    <3> QED
      BY <2>1, <3>1, <3>2, <3>3
  <2>4. \A r \in stable : source'[r] # "absent" /\ TypeOf[r] \notin inflight
    BY <2>1, <2>2 DEF ExportInv, TypeInv
  <2>5. ExportInv'
    BY <2>1, <2>3, <2>4 DEF ExportInv
  <2> QED
    BY <2>1, <2>2, <2>3, <2>5 DEF TypeInv
<1>4. CASE ScanTypes
  <2>1. \A r \in Wanted : TypeOf[r] \in {t \in Types : ShouldExport(t)}
    BY ResourcesAssumption DEF Wanted, TypeInv
  <2>2. export.step = "scan" /\ UNCHANGED <<source, inflight, stable, archive>>
    BY <1>4 DEF ScanTypes
  <2>3. Wanted' = Wanted
    BY <2>2 DEF Wanted
  <2>4. CASE export' = [export EXCEPT !.step = "types", !.todo = {t \in Types : ShouldExport(t)}]
    <3>1. /\ export'.step = "types" /\ export'.todo = {t \in Types : ShouldExport(t)}
          /\ export'.files = export.files /\ export'.result = export.result
      BY <2>4 DEF TypeInv
    <3>2. ExportInv'
      BY <2>1, <2>2, <2>3, <3>1 DEF ExportInv
    <3> QED
      BY <2>2, <2>4, <3>2 DEF TypeInv, ExportSteps
  <2>5. CASE export' = EndExport(export, "failed")
    BY <2>2, <2>5 DEF ExportInv, TypeInv, ExportSteps, EndExport
  <2> QED
    BY <1>4, <2>4, <2>5 DEF ScanTypes
<1>5. CASE ExportMetadata
  <2>1. Sound(export.files \cup {ExportMeta})
    BY ResourcesAssumption DEF Sound, ExportInv
  <2>2. export.step = "types" /\ export.todo = {} /\ UNCHANGED <<source, inflight, stable, archive>>
    BY <1>5 DEF ExportMetadata
  <2>3. Wanted' = Wanted /\ \A r \in Wanted : r \in export.files
    BY <2>2 DEF Wanted, ExportInv
  <2>4. CASE export' = [export EXCEPT !.step = "archive", !.files = @ \cup {ExportMeta}]
    <3>1. /\ export'.step = "archive" /\ export'.todo = {}
          /\ export'.files = export.files \cup {ExportMeta} /\ export'.result = export.result
      BY <2>2, <2>4 DEF TypeInv
    <3>2. ExportInv'
      BY <2>1, <2>2, <2>3, <3>1 DEF ExportInv
    <3> QED
      BY <2>2, <2>4, <3>2 DEF TypeInv, ExportSteps, Files
  <2>5. CASE export' = EndExport(export, "failed")
    BY <2>2, <2>5 DEF ExportInv, TypeInv, ExportSteps, EndExport
  <2> QED
    BY <1>5, <2>4, <2>5 DEF ExportMetadata
<1> QED
  BY <1>2, <1>3, <1>4, <1>5
-----------------------------------------------------------------------------
(* Applying a resource leaves nothing undone, and takes nothing away. *)
LEMMA ApplyInv ==
    ASSUME TypeInv, ImportInv, NEW r \in Resources, NEW b \in BOOLEAN, ApplyResource(r, b),
           r \in import.todo, import.step \in {"base", "rest"}
    PROVE  /\ target' \in [Resources -> Pause]
           /\ import' \in [step : ImportSteps, fs : [made : BOOLEAN, files : SUBSET Files],
                           todo : SUBSET Resources, unpause : BOOLEAN, overridden : BOOLEAN,
                           result : {"none", "imported", "declined", "failed"}, runs : Nat]
           /\ ImportInv'
<1>1. target' = [target EXCEPT ![r] = IF Paused(r) THEN "paused" ELSE "active"] /\ UNCHANGED healthy
  BY DEF ApplyResource
<1>2. /\ target' \in [Resources -> Pause] /\ target'[r] # "absent"
      /\ \A q \in Resources : target[q] # "absent" => target'[q] # "absent"
  BY <1>1 DEF TypeInv, Pause
<1>3. CASE import' = [import EXCEPT !.todo = @ \ {r}]
  <2>1. import'.step = import.step /\ import'.fs = import.fs /\ import'.todo = import.todo \ {r}
    BY <1>3 DEF TypeInv
  <2>2. ReadResources(import.fs, Base) \subseteq Resources
    BY DEF ReadResources
  <2>3. ImportInv'
    BY <1>1, <1>2, <2>1, <2>2 DEF ImportInv, ReadResources
  <2> QED
    BY <1>2, <1>3, <2>3 DEF TypeInv
<1>4. CASE import' = EndImport("failed")
  BY <1>2, <1>4 DEF ImportInv, EndImport, NotRead, TypeInv, ImportSteps
<1> QED
  BY <1>3, <1>4 DEF ApplyResource

(* Once everything of the base is there, being healthy is waited for. *)
LEMMA WaitInv ==
    ASSUME TypeInv, ImportInv, WaitForConditions
    PROVE  /\ import' \in [step : ImportSteps, fs : [made : BOOLEAN, files : SUBSET Files],
                           todo : SUBSET Resources, unpause : BOOLEAN, overridden : BOOLEAN,
                           result : {"none", "imported", "declined", "failed"}, runs : Nat]
           /\ ImportInv'
<1>1. Ready(import.fs.files) \subseteq ReadResources(import.fs, Base)
  BY ResourcesAssumption DEF Ready, ReadResources, Base
<1>2. Ready(import.fs.files) \subseteq {r \in Present(target) : TypeOf[r] \in ReadyTypes}
  BY <1>1 DEF WaitForConditions, ImportInv, Present, Ready
<1>3. Ready(import.fs.files) \subseteq healthy
  BY <1>2 DEF WaitForConditions
<1>4. ReadResources(import.fs, Types \ Base) \subseteq Resources
  BY DEF ReadResources
<1>5. /\ import'.step = "rest" /\ import'.fs = import.fs /\ healthy' = healthy
      /\ import' \in [step : ImportSteps, fs : [made : BOOLEAN, files : SUBSET Files],
                      todo : SUBSET Resources, unpause : BOOLEAN, overridden : BOOLEAN,
                      result : {"none", "imported", "declined", "failed"}, runs : Nat]
  BY <1>4 DEF WaitForConditions, TypeInv, ImportSteps
<1> QED
  BY <1>3, <1>5 DEF ImportInv

(* Starting, reading, finishing and failing. *)
LEMMA OtherImportInv ==
    ASSUME TypeInv, ImportInv,
           (\E b \in BOOLEAN : RunImport(b)) \/ Preflight \/ Read \/ Finalize \/ ImportFails
    PROVE  /\ target' \in [Resources -> Pause]
           /\ import' \in [step : ImportSteps, fs : [made : BOOLEAN, files : SUBSET Files],
                           todo : SUBSET Resources, unpause : BOOLEAN, overridden : BOOLEAN,
                           result : {"none", "imported", "declined", "failed"}, runs : Nat]
           /\ ImportInv'
<1>1. CASE \E b \in BOOLEAN : RunImport(b)
  <2>1. PICK b \in BOOLEAN :
           import' = [import EXCEPT !.runs = @ + 1, !.step = "preflight", !.unpause = b, !.result = "none"]
    BY <1>1 DEF RunImport
  <2>2. target' = target
    BY <1>1 DEF RunImport
  <2>3. import.runs \in Nat
    BY DEF TypeInv
  <2>4. import.runs + 1 \in Nat
    BY <2>3
  <2> QED
    BY <2>1, <2>2, <2>4 DEF TypeInv, ImportSteps, ImportInv
<1>2. CASE Preflight
  <2>1. Unarchive \in [made : BOOLEAN, files : SUBSET Files] /\ NotRead \in [made : BOOLEAN, files : SUBSET Files]
    BY DEF Unarchive, NotRead, TypeInv
  <2>2. target' = target /\ import'.step \in {"read", "ended"}
    BY <1>2 DEF Preflight, EndImport, TypeInv
  <2>3. import' \in [step : ImportSteps, fs : [made : BOOLEAN, files : SUBSET Files],
                     todo : SUBSET Resources, unpause : BOOLEAN, overridden : BOOLEAN,
                     result : {"none", "imported", "declined", "failed"}, runs : Nat]
    <3>1. CASE import' = EndImport("declined")
      BY <2>1, <3>1 DEF EndImport, TypeInv, ImportSteps
    <3>2. CASE import' # EndImport("declined")
      <4>1. PICK fs \in {NotRead, Unarchive}, o \in BOOLEAN :
               import' = [import EXCEPT !.step = "read", !.fs = fs, !.overridden = o]
        BY <1>2, <3>2 DEF Preflight, TypeInv
      <4> QED
        BY <2>1, <4>1 DEF TypeInv, ImportSteps
    <3> QED
      BY <3>1, <3>2
  <2> QED
    BY <2>2, <2>3 DEF ImportInv, TypeInv
<1>3. CASE Read
  <2> DEFINE fs == IF import.fs.made THEN import.fs ELSE Unarchive
  <2>1. fs \in [made : BOOLEAN, files : SUBSET Files]
    BY DEF Unarchive, TypeInv
  <2>2. ReadResources(fs, Base) \subseteq Resources
    BY DEF ReadResources
  <2>3. target' = target
    BY <1>3 DEF Read
  <2>4. import' = EndImport("failed")
        \/ import' = [import EXCEPT !.step = "base", !.fs = fs, !.todo = ReadResources(fs, Base)]
    BY <1>3 DEF Read
  <2>5. CASE import' = EndImport("failed")
    BY <2>3, <2>5 DEF EndImport, NotRead, TypeInv, ImportSteps, ImportInv
  <2>6. CASE import' = [import EXCEPT !.step = "base", !.fs = fs, !.todo = ReadResources(fs, Base)]
    <3> HIDE DEF fs
    <3>1. import'.step = "base" /\ import'.fs = fs /\ import'.todo = ReadResources(fs, Base)
      BY <2>6 DEF TypeInv
    <3> QED
      BY <2>1, <2>2, <2>3, <2>6, <3>1 DEF TypeInv, ImportSteps, ImportInv
  <2> QED
    BY <2>4, <2>5, <2>6
<1>4. CASE Finalize
  <2>1. /\ target' \in [Resources -> Pause]
        /\ import' \in {import, To("composite"), To("claim"), To("managed"), EndImport("imported")}
        /\ import.step \notin {"base"} /\ (import' = import => import.step # "rest")
    BY <1>4 DEF Finalize, UnpauseCategory, ModifyResources, TypeInv, Pause, To, EndImport
  <2>2. CASE import' = import
    BY <2>1, <2>2 DEF TypeInv, ImportInv
  <2>3. ASSUME NEW s \in {"composite", "claim", "managed"}, import' = To(s)
        PROVE  import'.step = s /\ import' \in [step : ImportSteps, fs : [made : BOOLEAN, files : SUBSET Files],
                     todo : SUBSET Resources, unpause : BOOLEAN, overridden : BOOLEAN,
                     result : {"none", "imported", "declined", "failed"}, runs : Nat]
    BY <2>3 DEF To, TypeInv, ImportSteps
  <2>4. ASSUME NEW s \in {"composite", "claim", "managed"}, import' = To(s) PROVE ImportInv'
    BY <2>3, <2>4 DEF ImportInv
  <2>5. CASE import' = EndImport("imported")
    BY <2>1, <2>5 DEF EndImport, NotRead, TypeInv, ImportSteps, ImportInv
  <2> QED
    BY <2>1, <2>2, <2>3, <2>4, <2>5 DEF TypeInv
<1>5. CASE ImportFails
  BY <1>5 DEF ImportFails, EndImport, NotRead, TypeInv, ImportSteps, ImportInv
<1> QED
  BY <1>1, <1>2, <1>3, <1>4, <1>5

(* No step of the two commands, of the source or of the target breaks the  *)
(* invariant.                                                              *)
LEMMA MigrationNextInv == MigrationInv /\ [MigrationNext]_migrationVars => MigrationInv'
<1> SUFFICES ASSUME MigrationInv, [MigrationNext]_migrationVars PROVE MigrationInv'
  OBVIOUS
<1>0. TypeInv /\ ExportInv /\ ImportInv
  BY DEF MigrationInv
<1>1. CASE (\E b \in BOOLEAN : RunExport(b)) \/ PauseSource \/ ScanTypes \/ ExportMetadata
  <2>1. UNCHANGED <<target, healthy, import>>
    BY <1>1 DEF RunExport, PauseSource, ScanTypes, ExportMetadata
  <2> QED
    BY <1>0, <1>1, <2>1, StartExportInv, ImportUntouched DEF MigrationInv, TypeInv
<1>2. ASSUME NEW t \in Types, ExportType(t) PROVE MigrationInv'
  <2>1. UNCHANGED <<source, stable, archive, target, healthy, import>>
    BY <1>2 DEF ExportType
  <2> QED
    BY <1>0, <1>2, <2>1, ExportTypeInv, ImportUntouched DEF MigrationInv, TypeInv
<1>3. CASE Archive
  <2>1. UNCHANGED <<source, stable, target, healthy, import>>
    BY <1>3 DEF Archive
  <2> QED
    BY <1>0, <1>3, <2>1, ArchiveInv, ImportUntouched DEF MigrationInv, TypeInv
<1>4. CASE SourceChanges
  <2>1. UNCHANGED <<export, archive, target, healthy, import>>
    BY <1>4 DEF SourceChanges
  <2> QED
    BY <1>0, <1>4, <2>1, SourceChangesInv, ImportUntouched DEF MigrationInv, TypeInv
<1>5. ASSUME NEW r \in Resources, ImportBaseResource(r) \/ ImportRemainingResource(r)
      PROVE  MigrationInv'
  <2>1. PICK b \in BOOLEAN : ApplyResource(r, b) /\ r \in import.todo /\ import.step \in {"base", "rest"}
    BY <1>5 DEF ImportBaseResource, ImportRemainingResource
  <2>2. UNCHANGED <<source, inflight, stable, export, archive>>
    BY <2>1 DEF ApplyResource
  <2> QED
    BY <1>0, <2>1, <2>2, ApplyInv, ExportUntouched DEF MigrationInv, TypeInv
<1>6. CASE WaitForConditions
  <2>1. UNCHANGED <<source, inflight, stable, export, archive, target>>
    BY <1>6 DEF WaitForConditions
  <2> QED
    BY <1>0, <1>6, <2>1, WaitInv, ExportUntouched DEF MigrationInv, TypeInv
<1>7. CASE (\E b \in BOOLEAN : RunImport(b)) \/ Preflight \/ Read \/ Finalize \/ ImportFails
  <2>1. UNCHANGED <<source, inflight, stable, export, archive>>
    BY <1>7 DEF RunImport, Preflight, Read, Finalize, UnpauseCategory, ImportFails
  <2> QED
    BY <1>0, <1>7, <2>1, OtherImportInv, ExportUntouched DEF MigrationInv, TypeInv
<1>8. ASSUME NEW r \in Resources, BecomeHealthy(r) PROVE MigrationInv'
  <2>1. UNCHANGED <<source, inflight, stable, export, archive, target, import>> /\ healthy \subseteq healthy'
    BY <1>8 DEF BecomeHealthy
  <2>2. ImportInv'
    BY <1>0, <2>1 DEF ImportInv
  <2> QED
    BY <1>0, <2>1, <2>2, ExportUntouched DEF MigrationInv, TypeInv
<1>9. ASSUME NEW r \in Resources, Reconcile(r) PROVE MigrationInv'
  <2>1. UNCHANGED <<source, inflight, stable, export, archive, healthy, import>>
    BY <1>9 DEF Reconcile
  <2>2. PICK q \in Composes[r] : target' = [target EXCEPT ![q] = "created"]
    BY <1>9 DEF Reconcile
  <2>3. target' \in [Resources -> Pause] /\ \A p \in Resources : target[p] # "absent" => target'[p] # "absent"
    BY <1>0, <2>2 DEF TypeInv, Pause
  <2>4. ImportInv'
    BY <1>0, <2>1, <2>3 DEF ImportInv, ReadResources
  <2> QED
    BY <1>0, <2>1, <2>3, <2>4, ExportUntouched DEF MigrationInv, TypeInv
<1>10. CASE UNCHANGED migrationVars
  BY <1>0, <1>10, ExportUntouched, ImportUntouched DEF migrationVars, MigrationInv, TypeInv
<1> QED
  BY <1>1, <1>2, <1>3, <1>4, <1>5, <1>6, <1>7, <1>8, <1>9, <1>10 DEF MigrationNext

(* A resource appears in the target by an import, in the base or after it. *)
LEMMA DefinedStep ==
    ASSUME MigrationInv, [MigrationNext]_migrationVars, NEW r \in Resources,
           target[r] = "absent", target'[r] \in {"active", "paused"}, TypeOf[r] \notin Base
    PROVE  Ready(import.fs.files) \subseteq healthy
<1>1. \/ UNCHANGED target
      \/ \E q \in Resources : ImportBaseResource(q) \/ ImportRemainingResource(q)
      \/ \E category : target' \in ModifyResources(target, category, "paused", "active")
      \/ \E q \in Resources : Reconcile(q)
  BY DEF MigrationNext, migrationVars, RunExport, RunImport, PauseSource, ScanTypes, ExportMetadata,
         Archive, SourceChanges, ExportType, Preflight, Read, WaitForConditions, Finalize,
         UnpauseCategory, ImportFails, BecomeHealthy
<1>2. CASE UNCHANGED target
  BY <1>2
<1>3. ASSUME NEW q \in Resources, ImportBaseResource(q) PROVE FALSE
  <2>1. TypeOf[q] \in Base
    BY <1>3 DEF ImportBaseResource, MigrationInv, ImportInv, ReadResources
  <2>2. \A p \in Resources \ {q} : target'[p] = target[p]
    BY <1>3 DEF ImportBaseResource, ApplyResource, MigrationInv, TypeInv
  <2> QED
    BY <2>1, <2>2
<1>4. ASSUME NEW q \in Resources, ImportRemainingResource(q) PROVE Ready(import.fs.files) \subseteq healthy
  BY <1>4 DEF ImportRemainingResource, MigrationInv, ImportInv
<1>5. ASSUME NEW category, target' \in ModifyResources(target, category, "paused", "active") PROVE FALSE
  BY <1>5 DEF ModifyResources, MigrationInv, TypeInv
<1>6. ASSUME NEW q \in Resources, Reconcile(q) PROVE FALSE
  <2>1. PICK p : target' = [target EXCEPT ![p] = "created"]
    BY <1>6 DEF Reconcile
  <2> QED
    BY <2>1 DEF MigrationInv, TypeInv
<1> QED
  BY <1>1, <1>2, <1>3, <1>4, <1>5, <1>6
-----------------------------------------------------------------------------
(* When the export says it succeeded, and the last buffers reached the     *)
(* disk, the archive is whole, has all that was in scope and there all     *)
(* along, and nothing the target makes itself (export.go, Export).         *)
THEOREM ExportsAreComplete == MigrationSpec => []ExportComplete
<1>1. MigrationInv => ExportComplete
  BY DEF MigrationInv, ExportInv, ExportComplete, Wanted, Sound
<1> QED
  BY <1>1, MigrationInitInv, MigrationNextInv, PTL DEF MigrationSpec

(* What packages and XRDs define is applied only when all the archived     *)
(* ones are there and ready (import.go, waitForConditions).                *)
THEOREM DefinitionsComeFirst == MigrationSpec => DefinedFirst
<1>1. MigrationInv /\ [MigrationNext]_migrationVars =>
         [\A r \in Resources :
            target[r] = "absent" /\ target'[r] \in {"active", "paused"} /\ TypeOf[r] \notin Base =>
               {q \in import.fs.files \cap Resources : TypeOf[q] \in ReadyTypes} \subseteq healthy]_migrationVars
  BY DefinedStep DEF Ready
<1> QED
  BY <1>1, MigrationInitInv, MigrationNextInv, PTL DEF MigrationSpec, DefinedFirst
-----------------------------------------------------------------------------
(* The import of an archive that passed its checks: what of the archive is *)
(* in the target, and in which state, at each of its steps.                *)

Archived == archive.files \cap Resources
Owning == Of("claim") \cup Of("composite")
Finalizing == {"composite", "claim", "managed"}

\* A resource with its status, as it is applied.
Applied(q) ==
    /\ target[q] = IF q \in Owning \cup Of("managed") /\ Described(q) THEN "paused" ELSE "active"
    /\ TypeOf[q] \in StatusTypes \ Base /\ Described(q) => q \in status

AllDescribed == \A q \in Archived : Described(q)

NonePaused(category) == \A q \in Of(category) : target[q] # "paused"

\* No import runs over an archive that is still written, and none is imported
\* before it ends.
StartInv ==
    /\ Skipped \cap archive.files = {}
    /\ export.step # "ended" => import.step = "idle"
    /\ import.step = "idle" => import.result = "none" /\ Present(target) = {}
    /\ import.step # "ended" => import.result = "none"

ReadInv ==
    import.step \in {"read", "base", "rest"} \cup Finalizing =>
        archive.readable /\ import.fs = Unarchive

\* What is not left to do is there.
PlacedInv ==
    /\ import.step = "base" => \A q \in Archived : TypeOf[q] \in Base => q \in import.todo \/ Applied(q)
    /\ import.step = "rest" => /\ import.todo \subseteq Archived
                               /\ \A q \in Archived : q \in import.todo \/ Applied(q)

\* What was applied paused is at work when its category was unpaused.
FinalInv ==
    /\ import.step \in Finalizing =>
          \A q \in Archived : /\ target[q] \in {"active", "paused"}
                              /\ q \notin Owning \cup Of("managed") \/ ~Described(q) => target[q] = "active"
                              /\ TypeOf[q] \in StatusTypes \ Base /\ Described(q) => q \in status
    /\ import.step \in {"composite", "claim"} =>
          \A q \in Archived \cap Of("managed") : Described(q) => target[q] = "paused"
    /\ import.step \in {"claim", "managed"} => NonePaused("composite")
    /\ import.step = "managed" => NonePaused("claim") /\ import.unpause

\* Whoever could make a resource of the archive finds it there, if its owners
\* were applied paused.
LooseInv ==
    AllDescribed =>
        /\ \A r \in Owning : target[r] \in {"active", "created"} => Archived \subseteq Present(target)
        /\ \A r \in Archived : target[r] # "created"

OrderInv == ~import.overridden => ReadInv /\ PlacedInv /\ FinalInv /\ LooseInv /\ ImportComplete

ImportedInv == MigrationInv /\ StartInv /\ OrderInv

(* Nothing is imported at the start. *)
LEMMA ImportedInitInv == MigrationInit => ImportedInv
<1> SUFFICES ASSUME MigrationInit PROVE ImportedInv
  OBVIOUS
<1>1. archive.files = {} /\ import.step = "idle" /\ import.result = "none"
      /\ target = [r \in Resources |-> "absent"]
  BY DEF MigrationInit
<1>2. Present(target) = {}
  BY <1>1 DEF Present
<1>3. StartInv
  BY <1>1, <1>2 DEF StartInv
<1>4. Archived = {} /\ \A r \in Resources : target[r] = "absent"
  BY <1>1 DEF Archived
<1>5. OrderInv
  BY <1>1, <1>4 DEF OrderInv, ReadInv, PlacedInv, FinalInv, LooseInv, ImportComplete, Owning, Of, Finalizing
<1> QED
  BY <1>3, <1>5, MigrationInitInv DEF ImportedInv

(* Before the first import there is nothing to go wrong. *)
LEMMA IdleOrder ==
    ASSUME TypeInv, StartInv, import.step = "idle" PROVE OrderInv
<1>1. import.result = "none" /\ \A r \in Resources : target[r] = "absent"
  BY DEF StartInv, Present
<1> QED
  BY <1>1 DEF OrderInv, ReadInv, PlacedInv, FinalInv, LooseInv, ImportComplete, Owning, Of, Finalizing, Archived

(* What the export does before it ends is no concern of the import. *)
LEMMA ExportOrder ==
    ASSUME TypeInv, TypeInv', ExportInv, StartInv, export.step # "ended",
           UNCHANGED <<target, status, import>>,
           UNCHANGED archive \/ archive' = Whole(export.files)
              \/ archive' \in Cut(export.files, TRUE) \cup Cut(export.files, FALSE)
    PROVE  StartInv' /\ OrderInv'
<1>1. import.step = "idle" /\ import.result = "none" /\ Present(target)' = {}
  BY DEF StartInv, Present
<1>2. Skipped \cap archive'.files = {}
  <2>1. CASE UNCHANGED archive
    BY <2>1 DEF StartInv
  <2>2. CASE archive' = Whole(export.files)
    BY <2>2 DEF Whole, ExportInv, Sound
  <2>3. CASE archive' \in Cut(export.files, TRUE) \cup Cut(export.files, FALSE)
    <3>1. PICK n, b : archive' = [files |-> Prefix(export.files, n), readable |-> b]
      BY <2>3 DEF Cut
    <3>2. archive'.files \subseteq export.files
      BY <3>1 DEF Prefix
    <3> QED
      BY <3>2 DEF ExportInv, Sound
  <2> QED
    BY <2>1, <2>2, <2>3
<1>3. StartInv'
  BY <1>1, <1>2 DEF StartInv
<1>4. \A r \in Resources : target'[r] = "absent"
  BY <1>1 DEF Present
<1>5. OrderInv'
  BY <1>1, <1>4 DEF OrderInv, ReadInv, PlacedInv, FinalInv, LooseInv, ImportComplete, Owning, Of,
     Finalizing, Archived
<1> QED
  BY <1>3, <1>5

(* An import that begins, ends or is given up leaves the target alone. *)
LEMMA AloneOrder ==
    ASSUME ImportedInv, UNCHANGED <<export, archive, target, status>>, export.step = "ended",
           import'.overridden = import.overridden,
           import'.step \in {"preflight", "ended"}, import'.result # "imported",
           import'.step = "preflight" => import'.result = "none"
    PROVE  StartInv' /\ OrderInv'
<1>1. StartInv'
  BY DEF ImportedInv, StartInv, Present
<1>2. LooseInv /\ ReadInv => LooseInv'
  BY DEF LooseInv, AllDescribed, Described, Archived, Present
<1>3. OrderInv'
  BY <1>2 DEF ImportedInv, OrderInv, ReadInv, PlacedInv, FinalInv, ImportComplete, Finalizing
<1> QED
  BY <1>1, <1>3

(* The checks pass only over an archive that can be read. *)
LEMMA PreflightOrder ==
    ASSUME ImportedInv, Preflight PROVE StartInv' /\ OrderInv'
<1>1. import.step = "preflight" /\ UNCHANGED <<export, archive, target, status>> /\ TypeInv /\ StartInv /\ OrderInv
  BY DEF Preflight, ImportedInv, MigrationInv
<1>2. export.step = "ended" /\ import.result = "none"
  BY <1>1 DEF StartInv
<1>3. CASE import' = EndImport("declined")
  BY <1>1, <1>2, <1>3, AloneOrder DEF EndImport, TypeInv
<1>4. CASE import' # EndImport("declined")
  <2>1. PICK info \in CollectInfo :
           import' = [import EXCEPT !.step = "read", !.fs = IF info = "error" THEN NotRead ELSE Unarchive,
                          !.overridden = @ \/ ~(info = "matches" /\ archive.readable /\ ExportMeta \in archive.files)]
    BY <1>4 DEF Preflight
  <2>2. /\ import'.step = "read" /\ import'.result = "none"
        /\ ~import'.overridden => ~import.overridden /\ archive.readable /\ import'.fs = Unarchive
    BY <1>1, <1>2, <2>1 DEF TypeInv
  <2>3. StartInv'
    BY <1>1, <1>2, <2>2 DEF StartInv, Present
  <2>4. LooseInv => LooseInv'
    BY <1>1 DEF LooseInv, AllDescribed, Described, Archived, Present
  <2>5. Unarchive' = Unarchive
    BY <1>1 DEF Unarchive
  <2>6. OrderInv'
    BY <1>1, <2>2, <2>4, <2>5 DEF OrderInv, ReadInv, PlacedInv, FinalInv, ImportComplete, Finalizing
  <2> QED
    BY <2>3, <2>6
<1> QED
  BY <1>3, <1>4

(* What was read is the archive, and all of the base is left to do. *)
LEMMA ReadOrder ==
    ASSUME ImportedInv, Read PROVE StartInv' /\ OrderInv'
<1>1. import.step = "read" /\ UNCHANGED <<export, archive, target, status>> /\ TypeInv /\ StartInv /\ OrderInv
  BY DEF Read, ImportedInv, MigrationInv
<1>2. export.step = "ended" /\ import.result = "none"
  BY <1>1 DEF StartInv
<1>3. CASE import' = EndImport("failed")
  BY <1>1, <1>2, <1>3, AloneOrder DEF EndImport, TypeInv
<1>4. CASE import' # EndImport("failed")
  <2> DEFINE fs == IF import.fs.made THEN import.fs ELSE Unarchive
  <2>1. import' = [import EXCEPT !.step = "base", !.fs = fs, !.todo = ReadResources(fs, Base)]
    BY <1>4 DEF Read
  <2> HIDE DEF fs
  <2>2. /\ import'.step = "base" /\ import'.result = "none" /\ import'.overridden = import.overridden
        /\ import'.fs = fs /\ import'.todo = ReadResources(fs, Base)
    BY <1>1, <1>2, <2>1 DEF TypeInv
  <2>3. ~import.overridden => archive.readable /\ fs = Unarchive
    BY <1>1 DEF OrderInv, ReadInv, fs
  <2>4. StartInv'
    BY <1>1, <1>2, <2>2 DEF StartInv, Present
  <2>5. LooseInv => LooseInv'
    BY <1>1 DEF LooseInv, AllDescribed, Described, Archived, Present
  <2>6. Unarchive' = Unarchive
    BY <1>1 DEF Unarchive
  <2>7. ~import.overridden => PlacedInv'
    BY <1>1, <2>2, <2>3 DEF PlacedInv, Archived, ReadResources, Unarchive
  <2>8. OrderInv'
    BY <1>1, <2>2, <2>3, <2>5, <2>6, <2>7 DEF OrderInv, ReadInv, FinalInv, ImportComplete, Finalizing
  <2> QED
    BY <2>4, <2>8
<1> QED
  BY <1>3, <1>4

(* Who may be paused is paused when it is applied, if its metadata is in   *)
(* the archive.                                                            *)
LEMMA PausedOnes ==
    ASSUME TypeInv, import.fs = Unarchive, NEW r \in Archived
    PROVE  /\ Paused(r) <=> r \in Owning \cup Of("managed") /\ Described(r)
           /\ TypeOf[r] \in StatusTypes /\ Described(r) => RestoresStatus(r)
<1>1. import.fs.files = archive.files
  BY DEF Unarchive
<1>2. TypeOf[r] \in NativeTypes => Category[TypeOf[r]] = "none" /\ TypeOf[r] \notin StatusTypes
  BY ResourcesAssumption
<1>3. r \in Resources
  BY DEF Archived
<1> QED
  BY <1>1, <1>2, <1>3 DEF Paused, RestoresStatus, Owning, Of, Described

(* Applying a resource of the archive puts it in its place and no one to work. *)
LEMMA ApplyOrder ==
    ASSUME ImportedInv, NEW r \in Resources, NEW b \in BOOLEAN, ApplyResource(r, b),
           import.step \in {"base", "rest"}, r \in import.todo, b = (import.step = "rest"),
           import.step = "base" => TypeOf[r] \in Base
    PROVE  StartInv' /\ OrderInv'
<1>1. TypeInv /\ ImportInv /\ StartInv /\ OrderInv /\ export.step = "ended"
  BY DEF ImportedInv, MigrationInv, StartInv
<1>2. UNCHANGED <<export, archive>> /\ target' = [target EXCEPT ![r] = IF Paused(r) THEN "paused" ELSE "active"]
  BY DEF ApplyResource
<1>3. /\ import' = [import EXCEPT !.todo = @ \ {r}] \/ import' = EndImport("failed")
      /\ status \subseteq status'
  BY DEF ApplyResource
<1>4. import.result = "none"
  BY <1>1 DEF StartInv
<1>5. /\ import'.result \in {"none", "failed"} /\ import'.overridden = import.overridden
      /\ import'.step \in {import.step, "ended"} /\ (import'.step # "ended" => import'.result = "none")
  BY <1>1, <1>3, <1>4 DEF EndImport, TypeInv
<1>6. StartInv'
  BY <1>1, <1>2, <1>5 DEF StartInv
<1>7. ASSUME ~import.overridden PROVE OrderInv'
  <2>1. ReadInv /\ PlacedInv /\ LooseInv /\ archive.readable /\ import.fs = Unarchive
    BY <1>1, <1>7 DEF OrderInv, ReadInv
  <2>2. import.todo \subseteq Archived
    BY <1>1, <2>1 DEF PlacedInv, ImportInv, Archived, Unarchive, ReadResources
  <2>3. /\ Paused(r) <=> r \in Owning \cup Of("managed") /\ Described(r)
        /\ TypeOf[r] \in StatusTypes /\ Described(r) => RestoresStatus(r)
    BY <1>1, <2>1, <2>2, PausedOnes
  <2>4. /\ target'[r] = IF r \in Owning \cup Of("managed") /\ Described(r) THEN "paused" ELSE "active"
        /\ \A q \in Resources \ {r} : target'[q] = target[q]
        /\ Archived' = Archived /\ \A q \in Resources : Described(q)' = Described(q)
    BY <1>1, <1>2, <2>3 DEF TypeInv, Archived, Described
  <2>5. LooseInv'
    <3> SUFFICES ASSUME AllDescribed' PROVE LooseInv'
      BY DEF LooseInv
    <3>0. AllDescribed /\ Described(r)
      BY <2>2, <2>4 DEF AllDescribed, Archived
    <3>1. Present(target) \subseteq Present(target)'
      BY <2>4 DEF Present
    <3>2. ASSUME NEW q \in Owning, target'[q] \in {"active", "created"}
          PROVE  target[q] \in {"active", "created"}
      BY <2>4, <3>0, <3>2 DEF Owning, Of
    <3>3. \A q \in Archived : target'[q] # "created"
      BY <2>1, <2>4, <3>0 DEF LooseInv, Archived
    <3>4. Owning' = Owning
      BY DEF Owning, Of
    <3> QED
      BY <2>1, <2>4, <3>0, <3>1, <3>2, <3>3, <3>4 DEF LooseInv
  <2>6. CASE import' = [import EXCEPT !.todo = @ \ {r}]
    <3>1. import'.todo = import.todo \ {r} /\ import'.fs = import.fs /\ import'.step = import.step
          /\ import'.result = "none"
      BY <1>1, <1>4, <2>6 DEF TypeInv
    <3>2. \A q \in Archived : q # r /\ Applied(q) => Applied(q)'
      BY <1>3, <2>4 DEF Applied, Archived
    <3>3. Applied(r)'
      <4>1. TypeOf[r] \in StatusTypes \ Base /\ Described(r) => r \in status'
        BY <2>3, <2>6, <1>1, <3>1 DEF ApplyResource, EndImport, TypeInv
      <4> QED
        BY <2>4, <4>1 DEF Applied, Owning, Of
    <3>4. PlacedInv'
      BY <2>1, <2>2, <2>4, <3>1, <3>2, <3>3 DEF PlacedInv
    <3>5. ReadInv'
      BY <1>2, <2>1, <3>1 DEF ReadInv, Unarchive
    <3> QED
      BY <1>5, <2>5, <3>1, <3>4, <3>5 DEF OrderInv, FinalInv, Finalizing, ImportComplete
  <2>7. CASE import' = EndImport("failed")
    <3>1. import'.step = "ended" /\ import'.result = "failed"
      BY <1>1, <2>7 DEF EndImport, TypeInv
    <3> QED
      BY <2>5, <3>1 DEF OrderInv, ReadInv, PlacedInv, FinalInv, Finalizing, ImportComplete
  <2> QED
    BY <1>3, <2>6, <2>7
<1>8. ~import'.overridden => ~import.overridden
  BY <1>5
<1> QED
  BY <1>6, <1>7, <1>8 DEF OrderInv

(* With the base applied and ready, the rest is left to do. *)
LEMMA WaitOrder ==
    ASSUME ImportedInv, WaitForConditions PROVE StartInv' /\ OrderInv'
<1>1. TypeInv /\ StartInv /\ OrderInv /\ UNCHANGED <<export, archive, target, status>>
      /\ import.step = "base" /\ import.todo = {} /\ import.result = "none"
  BY DEF ImportedInv, MigrationInv, StartInv, WaitForConditions
<1>2. /\ import'.step = "rest" /\ import'.todo = ReadResources(import.fs, Types \ Base)
      /\ import'.fs = import.fs /\ import'.overridden = import.overridden /\ import'.result = "none"
  BY <1>1 DEF WaitForConditions, TypeInv
<1>3. StartInv'
  BY <1>1, <1>2 DEF StartInv, Present
<1>4. ASSUME ~import.overridden PROVE OrderInv'
  <2>1. ReadInv /\ PlacedInv /\ LooseInv /\ archive.readable /\ import.fs = Unarchive
    BY <1>1, <1>4 DEF OrderInv, ReadInv
  <2>2. \A q \in Archived : TypeOf[q] \in Base => Applied(q)
    BY <1>1, <2>1 DEF PlacedInv
  <2>3. import'.todo = {q \in Archived : TypeOf[q] \in Types \ Base}
    BY <1>2, <2>1 DEF ReadResources, Unarchive, Archived
  <2>4. \A q \in Archived : q \in import'.todo \/ Applied(q)
    BY <2>2, <2>3, ResourcesAssumption DEF Archived
  <2>5. PlacedInv'
    BY <1>1, <1>2, <2>3, <2>4 DEF Described, PlacedInv, Applied, Archived
  <2>6. LooseInv' /\ ReadInv'
    BY <1>1, <1>2, <2>1 DEF LooseInv, AllDescribed, Described, ReadInv, Archived, Present, Unarchive
  <2> QED
    BY <1>2, <2>5, <2>6 DEF OrderInv, FinalInv, Finalizing, ImportComplete
<1> QED
  BY <1>2, <1>3, <1>4 DEF OrderInv

(* A paused resource is put to work where all of the archive is.           *)
LEMMA UnpauseOrder ==
    ASSUME ImportedInv, NEW category \in Finalizing, import.step = category,
           target' \in ModifyResources(target, category, "paused", "active"),
           UNCHANGED <<export, archive, status, import>>
    PROVE  StartInv' /\ OrderInv'
<1>1. TypeInv /\ StartInv /\ OrderInv
  BY DEF ImportedInv, MigrationInv
<1>2. PICK r \in Of(category) : target[r] = "paused" /\ target' = [target EXCEPT ![r] = "active"]
  BY DEF ModifyResources
<1>3. r \in Resources /\ Category[TypeOf[r]] = category
  BY <1>2 DEF Of
<1>4. target'[r] = "active" /\ \A q \in Resources \ {r} : target'[q] = target[q]
  BY <1>1, <1>2, <1>3 DEF TypeInv
<1>5. StartInv'
  BY <1>1 DEF StartInv, Finalizing
<1>6. ASSUME ~import.overridden PROVE OrderInv'
  <2>1. ReadInv /\ FinalInv /\ LooseInv /\ ImportComplete
    BY <1>1, <1>6 DEF OrderInv
  <2>2. Archived' = Archived /\ Archived \subseteq Resources /\ \A q \in Resources : Described(q)' = Described(q)
    BY DEF Archived, Described
  <2>3. \A q \in Archived : target'[q] \in {"active", "paused"}
    BY <1>4, <2>1, <2>2 DEF FinalInv
  <2>4. LooseInv'
    BY <2>2, <2>3 DEF LooseInv, Present
  <2>5. \A q \in Resources : target[q] # "paused" => target'[q] # "paused"
    BY <1>4
  <2>6. \A c \in {"claim", "composite"} : NonePaused(c) => NonePaused(c)'
    BY <2>5 DEF NonePaused, Of
  <2>7. category # "managed" => \A q \in Archived \cap Of("managed") : target'[q] = target[q]
    BY <1>3, <1>4, <2>2 DEF Of
  <2>8. \A q \in Archived : target[q] = "active" => target'[q] = "active"
    BY <1>4, <2>2
  <2>9. \A q \in Archived : /\ q \notin Owning \cup Of("managed") \/ ~Described(q) => target'[q] = "active"
                            /\ TypeOf[q] \in StatusTypes \ Base /\ Described(q) => q \in status'
    BY <2>1, <2>8 DEF FinalInv
  <2>10. FinalInv'
    <3>1. \A q \in Archived' : /\ target'[q] \in {"active", "paused"}
                               /\ q \notin Owning' \cup Of("managed")' \/ ~Described(q) => target'[q] = "active"
                               /\ TypeOf[q] \in StatusTypes \ Base /\ Described(q) => q \in status'
      BY <2>2, <2>3, <2>9 DEF Owning, Of
    <3>2. import.step \in {"composite", "claim"} => \A q \in Archived \cap Of("managed") : Described(q) => target'[q] = "paused"
      BY <2>1, <2>7 DEF FinalInv
    <3>3. import.step \in {"claim", "managed"} => NonePaused("composite")'
      BY <2>1, <2>6 DEF FinalInv
    <3>4. import.step = "managed" => NonePaused("claim")' /\ import.unpause
      BY <2>1, <2>6 DEF FinalInv
    <3> QED
      BY <2>2, <3>1, <3>2, <3>3, <3>4 DEF FinalInv, Of
  <2>11. ReadInv' /\ PlacedInv' /\ ImportComplete'
    BY <1>1, <2>1 DEF ReadInv, PlacedInv, ImportComplete, Unarchive, Finalizing, StartInv
  <2> QED
    BY <2>4, <2>10, <2>11 DEF OrderInv
<1> QED
  BY <1>5, <1>6 DEF OrderInv

(* One category after the other, and then the import is complete.          *)
LEMMA FinalizeOrder ==
    ASSUME ImportedInv, Finalize PROVE StartInv' /\ OrderInv'
<1>1. TypeInv /\ StartInv /\ OrderInv /\ UNCHANGED <<export, archive, status>>
  BY DEF ImportedInv, MigrationInv, Finalize, UnpauseCategory
<1>2. CASE \E category \in Finalizing :
              /\ import.step = category /\ UNCHANGED import
              /\ target' \in ModifyResources(target, category, "paused", "active")
  BY <1>1, <1>2, UnpauseOrder
<1>3. ASSUME NEW s \in Finalizing, UNCHANGED target, import' = To(s),
             import.step \in {"rest"} \cup Finalizing, ~import.overridden => FinalInv'
      PROVE  StartInv' /\ OrderInv'
  <2>1. import'.step = s /\ import'.fs = import.fs /\ import'.overridden = import.overridden
        /\ import'.result = import.result /\ import.result = "none" /\ export.step = "ended"
    BY <1>1, <1>3 DEF To, TypeInv, StartInv, Finalizing
  <2>2. StartInv'
    BY <1>1, <1>3, <2>1 DEF StartInv, Present, Finalizing
  <2>3. ~import.overridden => ReadInv' /\ LooseInv'
    BY <1>1, <1>3, <2>1 DEF OrderInv, ReadInv, LooseInv, AllDescribed, Described, Archived, Present, Unarchive, Finalizing
  <2>4. PlacedInv' /\ ImportComplete'
    BY <2>1 DEF PlacedInv, ImportComplete, Finalizing
  <2> QED
    BY <1>3, <2>1, <2>2, <2>3, <2>4 DEF OrderInv
<1>4. ASSUME UNCHANGED target, import' = EndImport("imported"), import.step \in Finalizing,
             ~import.overridden => ImportComplete'
      PROVE  StartInv' /\ OrderInv'
  <2>1. import'.step = "ended" /\ import'.overridden = import.overridden /\ export.step = "ended"
    BY <1>1, <1>4 DEF EndImport, TypeInv, StartInv, Finalizing
  <2>2. StartInv'
    BY <1>1, <1>4, <2>1 DEF StartInv
  <2>3. ~import.overridden => LooseInv'
    BY <1>1, <1>4 DEF OrderInv, LooseInv, AllDescribed, Described, Archived, Present
  <2>4. ReadInv' /\ PlacedInv' /\ FinalInv'
    BY <2>1 DEF ReadInv, PlacedInv, FinalInv, Finalizing
  <2> QED
    BY <1>4, <2>1, <2>2, <2>3, <2>4 DEF OrderInv
<1>5. CASE import.step = "rest" /\ import.todo = {} /\ import' = To("composite") /\ UNCHANGED target
  <2>1. import'.step = "composite"
    BY <1>1, <1>5 DEF To, TypeInv
  <2>2. ASSUME ~import.overridden PROVE FinalInv'
    <3>1. \A q \in Archived : Applied(q)
      BY <1>1, <1>5, <2>2 DEF OrderInv, PlacedInv
    <3>2. Archived' = Archived
      BY <1>1 DEF Archived
    <3> QED
      BY <1>1, <1>5, <2>1, <3>1, <3>2 DEF Described, FinalInv, Applied, Owning, Of
  <2> QED
    BY <1>3, <1>5, <2>2 DEF Finalizing
<1>6. CASE /\ import.step = "composite" /\ ModifyResources(target, "composite", "paused", "active") = {}
           /\ import' = To("claim") /\ UNCHANGED target
  <2>1. import'.step = "claim"
    BY <1>1, <1>6 DEF To, TypeInv
  <2>2. NonePaused("composite")
    BY <1>6 DEF NonePaused, ModifyResources
  <2>3. ASSUME ~import.overridden PROVE FinalInv'
    BY <1>1, <1>6, <2>1, <2>2, <2>3 DEF Described, OrderInv, FinalInv, NonePaused, Archived, Finalizing
  <2> QED
    BY <1>3, <1>6, <2>3 DEF Finalizing
<1>7. CASE /\ import.step = "claim" /\ ModifyResources(target, "claim", "paused", "active") = {}
           /\ import' = (IF import.unpause THEN To("managed") ELSE EndImport("imported")) /\ UNCHANGED target
  <2>1. NonePaused("claim")
    BY <1>7 DEF NonePaused, ModifyResources
  <2>2. CASE import.unpause
    <3>1. import'.step = "managed" /\ import'.unpause
      BY <1>1, <1>7, <2>2 DEF To, TypeInv
    <3>2. ASSUME ~import.overridden PROVE FinalInv'
      BY <1>1, <1>7, <2>1, <3>1, <3>2 DEF Described, OrderInv, FinalInv, NonePaused, Archived, Finalizing
    <3> QED
      BY <1>3, <1>7, <2>2, <3>2 DEF Finalizing
  <2>3. CASE ~import.unpause
    <3>1. import'.unpause = import.unpause
      BY <1>1, <1>7, <2>3 DEF EndImport, TypeInv
    <3>2. ASSUME ~import.overridden PROVE ImportComplete'
      <4>1. FinalInv
        BY <1>1, <3>2 DEF OrderInv
      <4>2. ASSUME NEW q \in Archived
            PROVE  /\ target[q] = IF q \in Of("managed") /\ Described(q) THEN "paused" ELSE "active"
                   /\ TypeOf[q] \in StatusTypes \ Base /\ Described(q) => q \in status
        BY <1>7, <2>1, <4>1, <4>2 DEF FinalInv, NonePaused, Owning, Finalizing
      <4> QED
        BY <1>1, <1>7, <2>3, <3>1, <4>2 DEF Described, ImportComplete, Archived, Of
    <3> QED
      BY <1>4, <1>7, <2>3, <3>2 DEF Finalizing
  <2> QED
    BY <2>2, <2>3
<1>8. CASE /\ import.step = "managed" /\ ModifyResources(target, "managed", "paused", "active") = {}
           /\ import' = EndImport("imported") /\ UNCHANGED target
  <2>1. NonePaused("managed")
    BY <1>8 DEF NonePaused, ModifyResources
  <2>2. import'.unpause = import.unpause
    BY <1>1, <1>8 DEF EndImport, TypeInv
  <2>3. ASSUME ~import.overridden PROVE ImportComplete'
    <3>1. FinalInv
      BY <1>1, <2>3 DEF OrderInv
    <3>2. ASSUME NEW q \in Archived
          PROVE  target[q] = "active" /\ (TypeOf[q] \in StatusTypes \ Base /\ Described(q) => q \in status)
      BY <1>8, <2>1, <3>1, <3>2 DEF FinalInv, NonePaused, Owning, Finalizing
    <3>3. import.unpause
      BY <1>8, <3>1 DEF FinalInv
    <3> QED
      BY <1>1, <1>8, <2>2, <3>2, <3>3 DEF Described, ImportComplete, Archived, Of
  <2> QED
    BY <1>4, <1>8, <2>3 DEF Finalizing
<1> QED
  BY <1>2, <1>5, <1>6, <1>7, <1>8 DEF Finalize, UnpauseCategory, Finalizing

(* What a controller makes is none of the archive's: it is there already,  *)
(* or it is the package manager's.                                         *)
LEMMA ReconcileOrder ==
    ASSUME ImportedInv, NEW r \in Resources, Reconcile(r) PROVE StartInv' /\ OrderInv'
<1>1. TypeInv /\ StartInv /\ OrderInv /\ UNCHANGED <<export, archive, status, import>>
  BY DEF ImportedInv, MigrationInv, Reconcile
<1>2. PICK q \in Composes[r] : target[q] = "absent" /\ target' = [target EXCEPT ![q] = "created"]
  BY DEF Reconcile
<1>3. q \in Resources
  BY ResourcesAssumption
<1>4. target'[q] = "created" /\ \A p \in Resources \ {q} : target'[p] = target[p]
  BY <1>1, <1>2, <1>3 DEF TypeInv
<1>5. target[r] # "absent" /\ target[r] \in {"active", "created"}
  BY DEF Reconcile
<1>6. import.step # "idle"
  BY <1>1, <1>5 DEF StartInv, Present
<1>7. StartInv'
  BY <1>1, <1>6 DEF StartInv
<1>8. ASSUME ~import.overridden PROVE OrderInv'
  <2>1. ReadInv /\ PlacedInv /\ FinalInv /\ LooseInv /\ ImportComplete
    BY <1>1, <1>8 DEF OrderInv
  <2>2. ASSUME AllDescribed PROVE q \notin Archived
    <3>1. CASE r \in Owning
      <4>1. Archived \subseteq Present(target)
        BY <1>5, <2>1, <2>2, <3>1 DEF LooseInv
      <4> QED
        BY <1>2, <4>1 DEF Present
    <3>2. CASE r \notin Owning
      <4>1. q \in Skipped
        BY <1>2, <3>2, ComposesAssumption DEF Owning, Of
      <4> QED
        BY <1>1, <4>1 DEF StartInv, Archived
    <3> QED
      BY <3>1, <3>2
  <2>3. \A p \in Archived : target[p] # "absent" => target'[p] = target[p]
    BY <1>2, <1>4 DEF Archived
  <2>4. Archived' = Archived /\ \A p \in Resources : Described(p)' = Described(p)
    BY <1>1 DEF Archived, Described
  <2>5. LooseInv'
    <3> SUFFICES ASSUME AllDescribed' PROVE LooseInv'
      BY DEF LooseInv
    <3>0. AllDescribed
      BY <2>4 DEF AllDescribed, Archived
    <3>1. \A p \in Archived : target'[p] # "created"
      BY <1>4, <2>1, <2>2, <3>0 DEF LooseInv, Archived
    <3>2. ASSUME NEW p \in Owning, target'[p] \in {"active", "created"} PROVE Archived \subseteq Present(target)
      <4>1. CASE p = q
        <5>1. r \in Owning
          BY <1>2, <3>2, <4>1, ComposesAssumption DEF Owning, Of
        <5> QED
          BY <1>5, <2>1, <3>0, <5>1 DEF LooseInv
      <4>2. CASE p # q
        <5>1. target[p] \in {"active", "created"}
          BY <1>4, <3>2, <4>2 DEF Owning, Of
        <5> QED
          BY <2>1, <3>0, <5>1 DEF LooseInv
      <4> QED
        BY <4>1, <4>2
    <3>3. Present(target) \subseteq Present(target)'
      BY <1>4 DEF Present
    <3>4. Owning' = Owning
      BY DEF Owning, Of
    <3> QED
      BY <2>4, <3>0, <3>1, <3>2, <3>3, <3>4 DEF LooseInv
  <2>6. PlacedInv'
    <3>1. \A p \in Archived : Applied(p) => Applied(p)'
      <4>1. \A p \in Archived : Applied(p) => p \in Resources /\ target[p] # "absent"
        BY DEF Applied, Archived
      <4> QED
        BY <1>1, <2>3, <2>4, <4>1 DEF Applied, Owning, Of
    <3> QED
      BY <1>1, <2>1, <2>4, <3>1 DEF PlacedInv
  <2>7. FinalInv'
    <3>1. \A c \in {"claim", "composite"} : NonePaused(c) => NonePaused(c)'
      BY <1>4 DEF NonePaused, Of
    <3>2. import.step \in Finalizing => \A p \in Archived : p \in Resources /\ target'[p] = target[p]
      BY <2>1, <2>3 DEF FinalInv, Archived
    <3>3. Owning' = Owning /\ Of("managed")' = Of("managed")
      BY DEF Owning, Of
    <3> QED
      BY <1>1, <2>1, <2>4, <3>1, <3>2, <3>3 DEF FinalInv, Finalizing
  <2>8. ReadInv'
    BY <1>1, <2>1 DEF ReadInv, Unarchive
  <2>9. ImportComplete'
    <3>1. import.result = "imported" => \A p \in Archived : p \in Resources /\ target'[p] = target[p]
      BY <1>8, <2>1, <2>3 DEF ImportComplete, Archived
    <3> QED
      BY <1>1, <2>1, <2>4, <3>1 DEF ImportComplete, Archived, Of
  <2> QED
    BY <2>5, <2>6, <2>7, <2>8, <2>9 DEF OrderInv
<1> QED
  BY <1>1, <1>7, <1>8 DEF OrderInv

(* No step leaves a second copy of what is archived, or an import that     *)
(* says it is complete and is not.                                         *)
LEMMA ImportedNextInv == ImportedInv /\ [MigrationNext]_migrationVars => ImportedInv'
<1> SUFFICES ASSUME ImportedInv, [MigrationNext]_migrationVars PROVE ImportedInv'
  OBVIOUS
<1>1. MigrationInv /\ StartInv /\ OrderInv /\ TypeInv /\ ExportInv /\ MigrationInv' /\ TypeInv'
  BY MigrationNextInv DEF ImportedInv, MigrationInv
<1> SUFFICES StartInv' /\ OrderInv'
  BY <1>1 DEF ImportedInv
<1>2. CASE \/ \E b \in BOOLEAN : RunExport(b)
           \/ PauseSource \/ ScanTypes \/ ExportMetadata \/ Archive \/ SourceChanges
           \/ \E t \in Types : ExportType(t)
  <2>1. export.step # "ended" /\ UNCHANGED <<target, status, import>>
    BY <1>2 DEF RunExport, PauseSource, ScanTypes, ExportMetadata, Archive, SourceChanges, ExportType
  <2>2. UNCHANGED archive \/ archive' = Whole(export.files)
              \/ archive' \in Cut(export.files, TRUE) \cup Cut(export.files, FALSE)
    BY <1>2 DEF RunExport, PauseSource, ScanTypes, ExportMetadata, Archive, SourceChanges, ExportType
  <2> QED
    BY <1>1, <2>1, <2>2, ExportOrder
<1>3. CASE \E b \in BOOLEAN : RunImport(b)
  <2>1. PICK b \in BOOLEAN : RunImport(b)
    BY <1>3
  <2>2. UNCHANGED <<export, archive, target, status>> /\ export.step = "ended"
        /\ import' = [import EXCEPT !.runs = @ + 1, !.step = "preflight", !.unpause = b, !.result = "none"]
    BY <2>1 DEF RunImport
  <2>3. import'.overridden = import.overridden /\ import'.step = "preflight" /\ import'.result = "none"
    BY <1>1, <2>2 DEF TypeInv
  <2> QED
    BY <2>2, <2>3, AloneOrder
<1>4. CASE ImportFails
  <2>1. UNCHANGED <<export, archive, target, status>> /\ import' = EndImport("failed") /\ export.step = "ended"
    BY <1>1, <1>4 DEF ImportFails, StartInv
  <2>2. import'.overridden = import.overridden /\ import'.step = "ended" /\ import'.result = "failed"
    BY <1>1, <2>1 DEF EndImport, TypeInv
  <2> QED
    BY <2>1, <2>2, AloneOrder
<1>5. ASSUME NEW r \in Resources, ImportBaseResource(r) PROVE StartInv' /\ OrderInv'
  <2>1. TypeOf[r] \in Base /\ r \in import.todo /\ import.step = "base" /\ ApplyResource(r, FALSE)
    BY <1>1, <1>5 DEF ImportBaseResource, MigrationInv, ImportInv, ReadResources
  <2> QED
    BY <2>1, ApplyOrder
<1>6. ASSUME NEW r \in Resources, ImportRemainingResource(r) PROVE StartInv' /\ OrderInv'
  <2>1. r \in import.todo /\ import.step = "rest" /\ ApplyResource(r, TRUE)
    BY <1>6 DEF ImportRemainingResource
  <2> QED
    BY <2>1, ApplyOrder
<1>7. CASE (\E r \in Resources : BecomeHealthy(r)) \/ UNCHANGED migrationVars
  <2>1. UNCHANGED <<export, archive, target, status, import>>
    BY <1>7 DEF BecomeHealthy, migrationVars
  <2>2. StartInv'
    BY <1>1, <2>1 DEF StartInv, Present
  <2>4. ReadInv' = ReadInv /\ FinalInv' = FinalInv
    BY <2>1 DEF ReadInv, FinalInv, NonePaused, Archived, Described, Owning, Of, Unarchive
  <2>5. PlacedInv' = PlacedInv /\ LooseInv' = LooseInv
    BY <2>1 DEF PlacedInv, Applied, LooseInv, AllDescribed, Archived, Described, Owning, Of, Present
  <2>6. ImportComplete' = ImportComplete
    BY <2>1 DEF ImportComplete, Described, Of
  <2>7. OrderInv'
    BY <1>1, <2>1, <2>4, <2>5, <2>6 DEF OrderInv
  <2> QED
    BY <2>2, <2>7
<1> QED
  BY <1>2, <1>3, <1>4, <1>5, <1>6, <1>7, PreflightOrder, ReadOrder, WaitOrder, FinalizeOrder,
     ReconcileOrder DEF MigrationNext, ImportedInv

(* A managed resource starts to act when its import was told to unpause it *)
(* and has put all the rest to work.                                       *)
LEMMA UnpausedStep ==
    ASSUME ImportedInv, [MigrationNext]_migrationVars, NEW r \in Of("managed"),
           target[r] # "active", target'[r] = "active", ~import.overridden, Described(r)
    PROVE  /\ import.unpause
           /\ archive.files \cap Resources \subseteq Present(target)
           /\ \A q \in Of("composite") \cup Of("claim") : target[q] # "paused"
<1>1. TypeInv /\ ImportInv /\ StartInv /\ ReadInv /\ PlacedInv /\ FinalInv /\ r \in Resources
  BY DEF ImportedInv, MigrationInv, OrderInv, Of
<1>2. \/ UNCHANGED target
      \/ \E q \in Resources : ImportBaseResource(q) \/ ImportRemainingResource(q) \/ Reconcile(q)
      \/ \E category \in Finalizing :
            import.step = category /\ target' \in ModifyResources(target, category, "paused", "active")
  BY DEF MigrationNext, migrationVars, RunExport, RunImport, PauseSource, ScanTypes, ExportMetadata,
         Archive, SourceChanges, ExportType, Preflight, Read, WaitForConditions, Finalize,
         UnpauseCategory, ImportFails, BecomeHealthy, Finalizing
<1>3. ASSUME NEW q \in Resources, ImportBaseResource(q) \/ ImportRemainingResource(q) PROVE FALSE
  <2>1. /\ target' = [target EXCEPT ![q] = IF Paused(q) THEN "paused" ELSE "active"]
        /\ q \in import.todo /\ import.step \in {"base", "rest"}
    BY <1>3 DEF ImportBaseResource, ImportRemainingResource, ApplyResource
  <2>2. archive.readable /\ import.fs = Unarchive /\ import.todo \subseteq Archived
    BY <1>1, <2>1 DEF ReadInv, PlacedInv, ImportInv, ReadResources, Archived, Unarchive
  <2>3. q = r
    BY <1>1, <2>1 DEF TypeInv
  <2>4. Paused(r)
    BY <1>1, <2>1, <2>2, <2>3, PausedOnes
  <2> QED
    BY <1>1, <2>1, <2>3, <2>4 DEF TypeInv
<1>4. ASSUME NEW q \in Resources, Reconcile(q) PROVE FALSE
  <2>1. PICK p \in Composes[q] : target' = [target EXCEPT ![p] = "created"]
    BY <1>4 DEF Reconcile
  <2> QED
    BY <1>1, <2>1 DEF TypeInv
<1>5. ASSUME NEW category \in Finalizing, import.step = category,
             target' \in ModifyResources(target, category, "paused", "active")
      PROVE  import.step = "managed"
  <2>1. PICK q \in Of(category) : target' = [target EXCEPT ![q] = "active"]
    BY <1>5 DEF ModifyResources
  <2>2. q = r
    BY <1>1, <2>1 DEF TypeInv
  <2> QED
    BY <1>5, <2>1, <2>2 DEF Of
<1>6. import.step = "managed"
  BY <1>2, <1>3, <1>4, <1>5
<1>7. \A q \in Archived : target[q] \in {"active", "paused"}
  BY <1>1, <1>6 DEF FinalInv, Finalizing
<1> QED
  BY <1>1, <1>6, <1>7 DEF FinalInv, NonePaused, Archived, Present
-----------------------------------------------------------------------------
(* An import that says so, of an archive that passed its checks, imported  *)
(* every archived resource, with its status, and left it as it is to be    *)
(* (import.go, Import).                                                    *)
THEOREM ImportsAreComplete == MigrationSpec => []ImportComplete
<1>1. ImportedInv => ImportComplete
  BY DEF ImportedInv, OrderInv, ImportComplete
<1> QED
  BY <1>1, ImportedInitInv, ImportedNextInv, PTL DEF MigrationSpec

(* No controller of the target makes what the archive holds, in whatever   *)
(* order it reconciles and however often the import fails and is run again *)
(* (import.go, Import; resource.go, Apply).                                *)
THEOREM ControllersMakeNoCopies == MigrationSpec => []NoSecondCopy
<1>1. ImportedInv => NoSecondCopy
  BY DEF ImportedInv, OrderInv, LooseInv, AllDescribed, NoSecondCopy, Archived
<1> QED
  BY <1>1, ImportedInitInv, ImportedNextInv, PTL DEF MigrationSpec

(* The managed resources are unpaused last, when asked for (import.go,     *)
(* UnpauseAfterImport).                                                    *)
THEOREM ManagedComeLast == MigrationSpec => ManagedUnpausedLast
<1>1. ImportedInv /\ [MigrationNext]_migrationVars =>
         [\A r \in Of("managed") :
            target[r] # "active" /\ target'[r] = "active" /\ ~import.overridden /\ Described(r) =>
               /\ import.unpause
               /\ archive.files \cap Resources \subseteq Present(target)
               /\ \A q \in Of("composite") \cup Of("claim") : target[q] # "paused"]_migrationVars
  BY UnpausedStep
<1> QED
  BY <1>1, ImportedInitInv, ImportedNextInv, PTL DEF MigrationSpec, ManagedUnpausedLast
=============================================================================
