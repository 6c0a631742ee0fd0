---------------------------- MODULE UsageReport ----------------------------
(***************************************************************************)
(* `up space billing export`: the hours of a billing period are visited    *)
(* window by window, the events stored under each hour are read from one   *)
(* of three object stores, and for each window the largest count of every  *)
(* key (a control plane and a kind) goes into the report.                  *)
(***************************************************************************)
EXTENDS Integers, SequencesExt

CONSTANTS
    Hours,       \* bound: the hours 0 .. Hours of which the store has events
    Windows,     \* lengths of a window, in hours
    UsageKeys,   \* pairs of a control plane and a kind
    PerCount,    \* a stored value is a float64: in 1 / PerCount of a resource
    StoredObjects \* what may be stored under an hour: sequences of objects,
                  \* each a sequence of events [key, value]; a key is "" where the code refuses it

ASSUME UsageAssumption ==
    /\ Hours \in Nat /\ PerCount \in Nat \ {0} /\ Windows \subseteq Nat \ {0}
    /\ "" \notin UsageKeys
    /\ StoredObjects \subseteq Seq(Seq([key : UsageKeys \union {""}, value : Int]))

VARIABLES
    store,       \* [provider, events: hour -> the objects under its prefix]
    billing,     \* the command: its step, period, window and cursor
    reader,      \* what is left to read: hours, objects and events
    counts,      \* the aggregate of this window
    buffer,      \* the events of the report so far
    report,      \* the output file: "absent", "partial", or the events in it
    unnoticed    \* was something lost of which no call returns an error: the rest of a
                 \* download that ended where an event could start, a file not closed

usageVars == <<store, billing, reader, counts, buffer, report, unnoticed>>

NoReader == [hours |-> <<>>, objects |-> <<>>, events |-> <<>>]
NoCounts == [k \in UsageKeys |-> 0]

UsageInit ==
    /\ store \in [provider : {"aws", "azure", "gcp"}, events : [0 .. Hours -> StoredObjects]]
    /\ billing = [step |-> "idle", start |-> 0, end |-> 0, window |-> 1, cursor |-> 0]
    /\ reader = NoReader /\ counts = NoCounts /\ buffer = {} /\ unnoticed = FALSE
    /\ report \in {"absent", "partial"}
-----------------------------------------------------------------------------
NewWindowIterator(start, end, window) ==
    [step |-> "created", start |-> start, end |-> end, window |-> window, cursor |-> start]

\* `cursor` is where the next window starts: the clock stands one window earlier.
More == billing.cursor < billing.end

WindowEnd == IF billing.cursor + billing.window > billing.end
             THEN billing.end ELSE billing.cursor + billing.window

\* The prefixes of the hours from the cursor to the end of the window; for gcp
\* one query of the names between the first and the next after the last.
HourPrefixes == [i \in 1 .. WindowEnd - billing.cursor |-> billing.cursor + i - 1]
Query ==
    LET hours == {h \in 0 .. Hours : billing.cursor <= h /\ h < WindowEnd}
    IN  CHOOSE q \in [1 .. Cardinality(hours) -> hours] :
            Range(q) = hours /\ \A i, j \in DOMAIN q : i < j => q[i] < q[j]

Failed == billing' = [billing EXCEPT !.step = "failed"]
Kept == UNCHANGED <<counts, buffer, report, unnoticed>>

\* The file must not exist, and the period be over unless that is forced; with
\* an error in either nothing was touched.
ValidatePeriod(start, end, window) ==
    /\ billing.step = "idle" /\ start < end
    /\ billing' = IF report = "absent" THEN NewWindowIterator(start, end, window)
                 ELSE [billing EXCEPT !.step = "refused"]
    /\ UNCHANGED <<store, reader>> /\ Kept

CreateReport ==
    /\ billing.step = "created"
    /\ \/ Failed /\ report' \in {report, "partial"}
       \/ billing' = [billing EXCEPT !.step = "next"] /\ report' = "partial"
    /\ UNCHANGED <<store, reader, counts, buffer, unnoticed>>

NextWindow ==
    /\ billing.step = "next" /\ More
    /\ billing' = [billing EXCEPT !.step = "reading"]
    /\ reader' = [NoReader EXCEPT !.hours = IF store.provider = "gcp" THEN Query ELSE HourPrefixes]
    /\ counts' = NoCounts
    /\ UNCHANGED <<store, buffer, report, unnoticed>>

\* The objects under the next prefix.  An error of a listing is returned by aws
\* and azure; gcp goes on with the attributes that the iterator did not return,
\* and panics.  An interrupt is an error of the call that runs.
ListNext ==
    /\ billing.step = "reading"
    /\ reader.hours # <<>> /\ reader.objects = <<>> /\ reader.events = <<>>
    /\ reader' = [reader EXCEPT !.hours = Tail(@), !.objects = store.events[Head(reader.hours)]]
    /\ UNCHANGED store /\ Kept

ListObjectsV2 == store.provider = "aws" /\ ListNext /\ (UNCHANGED billing \/ Failed)
ListBlobs == store.provider = "azure" /\ ListNext /\ (UNCHANGED billing \/ Failed)
QueryObjects ==
    /\ store.provider = "gcp" /\ ListNext
    /\ UNCHANGED billing \/ billing' = [billing EXCEPT !.step = "panicked"]

\* An object is opened once the one before is read to its end.  What does not
\* start a JSON array is an error.
OpenNext ==
    /\ billing.step = "reading" /\ reader.objects # <<>> /\ reader.events = <<>>
    /\ reader' = [reader EXCEPT !.objects = Tail(@), !.events = Head(reader.objects)]
    /\ UNCHANGED billing \/ Failed
    /\ UNCHANGED store /\ Kept

GetObject == store.provider = "aws" /\ OpenNext
DownloadStream == store.provider = "azure" /\ OpenNext
NewObjectReader == store.provider = "gcp" /\ OpenNext

\* A count is the value without its fraction, int(value): towards zero.
Truncated(value) == IF value < 0 THEN -((-value) \div PerCount) ELSE value \div PerCount

AddLatest(event) == \* Mutant: the last count of a window for its largest
    counts' = [counts EXCEPT ![event.key] = Truncated(event.value)]
Add(event) ==
    LET count == Truncated(event.value)
    IN  counts' = [counts EXCEPT ![event.key] = IF count > @ THEN count ELSE @]

\* An event of another name, without a tag, or cut in two is an error.
DecodeEvent ==
    /\ billing.step = "reading" /\ reader.events # <<>>
    /\ \/ Head(reader.events).key # "" /\ Add(Head(reader.events)) /\ UNCHANGED billing
       \/ Failed /\ UNCHANGED counts
    /\ reader' = [reader EXCEPT !.events = Tail(@)]
    /\ UNCHANGED <<store, buffer, report, unnoticed>>

\* The decoder answers a read that fails where an event could start, as it
\* answers the end of the array: there is no more.
EndEarly ==
    /\ billing.step = "reading" /\ reader.events # <<>>
    /\ reader' = [reader EXCEPT !.events = <<>>]
    /\ unnoticed' = TRUE
    /\ UNCHANGED <<store, billing, counts, buffer, report>>

UpboundEvents ==
    {[key |-> k, value |-> counts[k], start |-> billing.cursor, end |-> WindowEnd] :
        k \in {k \in UsageKeys : counts[k] > 0}}

EndWindow ==
    /\ billing.step = "reading" /\ reader = NoReader
    /\ \/ /\ buffer' = buffer \cup UpboundEvents
          /\ billing' = [billing EXCEPT !.step = "next", !.cursor = @ + billing.window]
       \/ Failed /\ UNCHANGED buffer
    /\ UNCHANGED <<store, reader, counts, report, unnoticed>>

\* Metadata and events are written only now, through tar and gzip.  Then the
\* file is closed in a defer, which drops the error and with it what it is of.
CloseReport ==
    /\ billing.step = "next" /\ ~More
    /\ \/ /\ billing' = [billing EXCEPT !.step = "saved"]
          /\ \/ report' = buffer /\ UNCHANGED unnoticed
             \/ report' = "partial" /\ unnoticed' = TRUE
       \/ Failed /\ UNCHANGED <<report, unnoticed>>
    /\ UNCHANGED <<store, reader, counts, buffer>>

\* A file that cannot be removed stays; the message says so.
CleanupOnError ==
    /\ billing.step = "failed"
    /\ billing' = [billing EXCEPT !.step = "cleaned"]
    /\ report' \in {"absent", report}
    /\ UNCHANGED <<store, reader, counts, buffer, unnoticed>>

KillExport ==
    /\ billing.step \in {"created", "next", "reading", "failed"}
    /\ billing' = [billing EXCEPT !.step = "killed"]
    /\ UNCHANGED <<store, reader>> /\ Kept

UsageNext ==
    \/ \E start, end \in 0 .. Hours, window \in Windows : ValidatePeriod(start, end, window)
    \/ CreateReport \/ NextWindow
    \/ ListObjectsV2 \/ ListBlobs \/ QueryObjects \/ GetObject \/ DownloadStream \/ NewObjectReader
    \/ DecodeEvent \/ EndEarly
    \/ EndWindow \/ CloseReport \/ CleanupOnError \/ KillExport

UsageSpec == UsageInit /\ [][UsageNext]_usageVars
-----------------------------------------------------------------------------
\* What was stored under the hours of a window; less than one bills nothing.
StoredAt(h) == UNION {Range(o) : o \in Range(store.events[h])}
EventsIn(hours) == {e \in UNION {StoredAt(h) : h \in hours} : e.key # "" /\ Truncated(e.value) > 0}

Maxima(start, end) ==
    LET events == EventsIn(start .. end - 1)
    IN  {[key |-> k, value |-> Max({Truncated(e.value) : e \in {e \in events : e.key = k}}),
          start |-> start, end |-> end] : k \in {e.key : e \in events}}

\* The windows of a period, the last one cut to its end.
Period ==
    {w \in (0 .. Hours) \X (1 .. Hours) :
        /\ w[1] \in billing.start .. billing.end - 1 /\ (w[1] - billing.start) % billing.window = 0
        /\ w[2] = Min({w[1] + billing.window, billing.end})}

(* A report that is announced as saved bills every hour of its period in   *)
(* one window, with the largest whole count of each key, if it is one or   *)
(* more, whichever store, number of objects and length of window           *)
(* (report.go, MaxResourceCountPerGVKPerMXP, time.go, the iterators and    *)
(* readers).  Not so when a download ended between two events, or the file *)
(* could not be closed: neither is noticed.                                *)
ReportIsMaximum ==
    billing.step = "saved" /\ ~unnoticed => report = UNION {Maxima(w[1], w[2]) : w \in Period}
=============================================================================
