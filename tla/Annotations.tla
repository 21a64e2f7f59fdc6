------------------------------- MODULE Annotations -------------------------------
(***************************************************************************)
(* The labels and annotations of one image in the API server, and those    *)
(* who write them: controllers, which store the results of their scans     *)
(* (controller/pkg/controller/job.go), and the arbiter, which brings them  *)
(* up to date with the Hub again and again (ProcessScanImage of            *)
(* arbiter/pkg/arbiter/worker.go, job.go, scanimage.go), both with         *)
(* UpdateAnnotations of common/annotate.go.  Somebody else writes an       *)
(* annotation of his own.                                                  *)
(*                                                                         *)
(* Everybody reads, merges and writes back; the API server refuses a write *)
(* based on an old resource version.  A resource version is modelled by    *)
(* what it tells: whether the object has changed since a writer got it.    *)
(*                                                                         *)
(* Labels and annotations are one map here, with the keys                  *)
(*   "by"       hub-scanner-version and attestation-hub-server             *)
(*   "url"      project-endpoint, the image's project version in the Hub   *)
(*   "scan"     scan-id                                                    *)
(*   "counts"   the labels and the quality.images annotations, made from   *)
(*              the Hub's counts                                           *)
(*   "foreign"  a key of somebody else                                     *)
(* All use one Hub server.  It files the scans of an image under one       *)
(* project version, which has the number of the scan that created it.      *)
(***************************************************************************)
EXTENDS Integers

CONSTANTS
    Controller,
    Arbiter,    \* the arbiter's worker
    VersionOf,  \* scanner version and Hub server each of them is built with
    MaxScans,   \* bound on scans
    MaxCount,   \* bound on the Hub's counts
    MaxEdits,   \* bound on changes by the Hub and by others
    MaxFaults,  \* bound on failing calls
    None

Writer == Controller \cup {Arbiter}

Version == {VersionOf[w] : w \in Writer}

\* The labels for a count: none and "false", or the number and "true".
RiskLabel(n) == IF n = 0 THEN [has |-> FALSE, count |-> <<>>]
                         ELSE [has |-> TRUE, count |-> <<n>>]

Labels == {RiskLabel(n) : n \in 0..MaxCount}

ASSUME AnnotationsAssumption ==
    /\ Arbiter \notin Controller
    /\ {MaxScans, MaxCount, MaxEdits, MaxFaults} \subseteq Nat
    /\ None \notin Version \cup Nat \cup Labels \cup BOOLEAN

VARIABLES
    ann,        \* the image's labels and annotations
    hub,        \* the counts of each project version in the Hub
    mapped,     \* the project version of each scan in the Hub
    writer,     \* where each writer stands, and its local variables
    scans,      \* scans started so far
    notified,   \* the result of the arbiter's last notification job
    done,       \* what became of the results of scans reported with scanDone
    edits, faults

reports == <<notified, done>>

vars == <<ann, hub, mapped, writer, scans, reports, edits, faults>>

Info ==
    [by : Version \cup {None}, url : 1..MaxScans \cup {None}, scan : 1..MaxScans \cup {None},
     counts : Labels \cup {None}, foreign : 0..MaxEdits \cup {None}]

NoInfo == [by |-> None, url |-> None, scan |-> None, counts |-> None, foreign |-> None]

\* UpdateImageAnnotationInfo has returned true or false.
Outcome == {"stored", "lost"}

WriterState ==
    [pc : {"idle", "scan", "poll", "results", "get", "again", "update"} \cup Outcome,
     n       : 0..MaxScans,   \* the scan a controller is at
     results : Info,          \* newInfo: what is to be stored
     base    : Info,          \* oldInfo: what it is merged into
     fresh   : BOOLEAN]       \* is the image it got still the current one?

Idle == [pc |-> "idle", n |-> 0, results |-> NoInfo, base |-> NoInfo, fresh |-> FALSE]

Init ==
    /\ ann = [NoInfo EXCEPT !.foreign = 0]
    /\ hub = [n \in 1..MaxScans |-> None]
    /\ mapped = [n \in 1..MaxScans |-> None]
    /\ writer = [w \in Writer |-> Idle]
    /\ scans = 0
    /\ notified = None
    /\ done = {}
    /\ edits = MaxEdits
    /\ faults = MaxFaults

-----------------------------------------------------------------------------

\* mapMerge and mergeAnnotationResults: new values win, other keys stay.
mapMerge(base, new) ==
    [k \in DOMAIN base |-> IF new[k] # None THEN new[k] ELSE base[k]]

\* Mutant: two string arguments are swapped.
UpdateAnnotationsSwapped(info, by, url, scan, count) ==
    mapMerge(info, [by |-> url, url |-> by, scan |-> scan,
                    counts |-> RiskLabel(count), foreign |-> None])

\* Mutant: the scan id is not stored.
UpdateAnnotationsNoScan(info, by, url, scan, count) ==
    mapMerge(info, [by |-> by, url |-> url, scan |-> None,
                    counts |-> RiskLabel(count), foreign |-> None])

\* What a result adds to the info it starts from.
UpdateAnnotations(info, by, url, scan, count) ==
    mapMerge(info, [by |-> by, url |-> url, scan |-> scan,
                    counts |-> RiskLabel(count), foreign |-> None])

InHub(url) == IF url = None THEN FALSE ELSE hub[url] # None

\* IsScanNeeded, IsImageStreamScanNeeded: not scanned by our scanner for our
\* Hub, or gone from the Hub.
IsScanNeeded(info, by) == ~(info.by = by /\ InHub(info.url))

Fault == faults > 0 /\ faults' = faults - 1

GiveUp(w) == writer' = [writer EXCEPT ![w] = Idle]

-----------------------------------------------------------------------------
(***************************************************************************)
(* A controller's scan.                                                    *)
(***************************************************************************)

\* queueImage: an error of the API server counts as "needed".
StartScan(c) ==
    /\ writer[c].pc = "idle"
    /\ scans < MaxScans
    /\ \/ IsScanNeeded(ann, VersionOf[c]) /\ UNCHANGED faults
       \/ Fault
    /\ scans' = scans + 1
    /\ writer' = [writer EXCEPT ![c] = [Idle EXCEPT !.pc = "scan", !.n = scans + 1]]
    /\ UNCHANGED <<ann, hub, mapped, reports, edits>>

\* The scan reaches the Hub, which files it under the image's project version
\* and counts anew.
Upload(c) ==
    LET n   == writer[c].n
        url == IF \E p \in DOMAIN hub : InHub(p)
               THEN CHOOSE p \in DOMAIN hub : InHub(p) ELSE n
    IN  /\ writer[c].pc = "scan"
        /\ \E count \in 0..MaxCount : hub' = [hub EXCEPT ![url] = count]
        /\ mapped' = [mapped EXCEPT ![n] = url]
        /\ writer' = [writer EXCEPT ![c].pc = "poll"]
        /\ UNCHANGED <<ann, scans, reports, edits, faults>>

\* ScanResults starts from an empty info; without a project version the scan
\* has failed.
ScanResults(c) ==
    LET n   == writer[c].n
        url == mapped[n]
    IN  /\ writer[c].pc = "poll"
        /\ IF InHub(url)
           THEN writer' = [writer EXCEPT ![c].pc = "get", ![c].results =
                    UpdateAnnotations(NoInfo, VersionOf[c], url, n, hub[url])]
           ELSE GiveUp(c)
        /\ UNCHANGED <<ann, hub, mapped, scans, reports, edits, faults>>

\* The scan fails or the Hub reports an error, and the scan is aborted; or the
\* controller dies.
ControllerFails(c) ==
    /\ writer[c].pc # "idle"
    /\ Fault
    /\ GiveUp(c)
    /\ UNCHANGED <<ann, hub, mapped, scans, reports, edits>>

\* UpdateImageAnnotationInfo: one read serves as object and as oldInfo.
GetImage(c) ==
    /\ writer[c].pc = "get"
    /\ writer' = [writer EXCEPT ![c].pc = "update", ![c].base = ann, ![c].fresh = TRUE]
    /\ UNCHANGED <<ann, hub, mapped, scans, reports, edits, faults>>

\* The object changes: what the others got is out of date.
Write(new, locals) ==
    /\ ann' = new
    /\ writer' = [w \in Writer |-> [locals[w] EXCEPT !.fresh = FALSE]]

Merged(w) == mapMerge(writer[w].base, writer[w].results)

\* What UpdateImageAnnotationInfo returned is only logged: in either case pods
\* are patched (module Notification) and the scan is reported done.
Updated(c, outcome) == [writer EXCEPT ![c] = [Idle EXCEPT !.pc = outcome]]

\* Mutant: the update does not look at the resource version.
UpdateForced(c) ==
    /\ writer[c].pc = "update"
    /\ Write(Merged(c), Updated(c, "stored"))
    /\ UNCHANGED <<hub, mapped, scans, reports, edits, faults>>

\* Mutant: the merged object is not sent.
UpdateUnsent(c) ==
    /\ writer[c].pc = "update"
    /\ writer' = Updated(c, "stored")
    /\ UNCHANGED <<ann, hub, mapped, scans, reports, edits, faults>>

\* Images().Update: refused with a conflict, and not tried again, if the
\* object has changed.
Update(c) ==
    /\ writer[c].pc = "update"
    /\ IF writer[c].fresh
       THEN Write(Merged(c), Updated(c, "stored"))
       ELSE writer' = Updated(c, "lost") /\ UNCHANGED ann
    /\ UNCHANGED <<hub, mapped, scans, reports, edits, faults>>

\* Images().Get or Update fails; on a cluster without image streams, always.
UpdateFails(c) ==
    /\ writer[c].pc \in {"get", "update"}
    /\ Fault
    /\ writer' = Updated(c, "lost")
    /\ UNCHANGED <<ann, hub, mapped, scans, reports, edits>>

\* scanDone
Report(c) ==
    /\ writer[c].pc \in Outcome
    /\ done' = done \cup {writer[c].pc}
    /\ GiveUp(c)
    /\ UNCHANGED <<ann, hub, mapped, scans, notified, edits, faults>>

-----------------------------------------------------------------------------
(***************************************************************************)
(* The arbiter's notification job, which the ticker queues for ever.       *)
(***************************************************************************)

\* Mutant: the result is not looked at.
DoneScanned(scanned) == notified' = TRUE /\ GiveUp(Arbiter)

\* job.Done(scanned): DoneScan stores the result.
Done(scanned) == notified' = scanned /\ GiveUp(Arbiter)

\* ProcessScanImage: GetImageAnnotationInfo.
GetImageAnnotationInfo ==
    /\ writer[Arbiter].pc = "idle"
    /\ writer' = [writer EXCEPT ![Arbiter] = [Idle EXCEPT !.pc = "results", !.base = ann]]
    /\ UNCHANGED <<ann, hub, mapped, scans, reports, edits, faults>>

\* versionResults wants a scan id and a project version.
HasProject(info) == info.scan # None /\ info.url # None

\* versionResults, ProjectVersionResults: the results contain all of the info
\* they start from, other people's keys included.
versionResults ==
    LET info == writer[Arbiter].base
    IN  /\ writer[Arbiter].pc = "results"
        /\ IF HasProject(info) /\ InHub(info.url)
           THEN /\ writer' = [writer EXCEPT ![Arbiter].pc = "get", ![Arbiter].results =
                        UpdateAnnotations(info, VersionOf[Arbiter], info.url, info.scan,
                                          hub[info.url])]
                /\ UNCHANGED notified
           ELSE Done(FALSE)
        /\ UNCHANGED <<ann, hub, mapped, scans, done, edits, faults>>

\* UpdateImageAnnotationInfo gets the image ...
ArbiterGets ==
    /\ writer[Arbiter].pc = "get"
    /\ writer' = [writer EXCEPT ![Arbiter].pc = "again", ![Arbiter].fresh = TRUE]
    /\ UNCHANGED <<ann, hub, mapped, scans, reports, edits, faults>>

\* ... and gets it again for its annotations.
ArbiterGetsAgain ==
    /\ writer[Arbiter].pc = "again"
    /\ writer' = [writer EXCEPT ![Arbiter].pc = "update", ![Arbiter].base = ann]
    /\ UNCHANGED <<ann, hub, mapped, scans, reports, edits, faults>>

\* Any call fails, to the API server or to the Hub: the result is false.
ArbiterFails ==
    /\ writer[Arbiter].pc \in {"idle", "results", "get", "update"}
    /\ Fault
    /\ Done(FALSE)
    /\ UNCHANGED <<ann, hub, mapped, scans, done, edits>>

\* The second get fails: its error is not looked at, the merge writes to a nil
\* map, and the arbiter dies and starts again.
ArbiterPanics ==
    /\ writer[Arbiter].pc = "again"
    /\ Fault
    /\ Done(None)
    /\ UNCHANGED <<ann, hub, mapped, scans, done, edits>>

\* Mutant: the image is not written back.
ArbiterUpdatesAnyway ==
    /\ writer[Arbiter].pc = "update"
    /\ Done(TRUE)
    /\ UNCHANGED <<ann, hub, mapped, scans, done, edits, faults>>

ArbiterUpdates ==
    /\ writer[Arbiter].pc = "update"
    /\ IF writer[Arbiter].fresh
       THEN /\ Write(Merged(Arbiter), [writer EXCEPT ![Arbiter] = Idle])
            /\ notified' = TRUE
       ELSE Done(FALSE) /\ UNCHANGED ann
    /\ UNCHANGED <<hub, mapped, scans, done, edits, faults>>

-----------------------------------------------------------------------------
(***************************************************************************)
(* The Hub learns of a vulnerability or loses a project; others annotate.  *)
(***************************************************************************)

HubChanges(n) ==
    /\ edits > 0
    /\ edits' = edits - 1
    /\ hub[n] # None
    /\ \E count \in 0..MaxCount \cup {None} : hub' = [hub EXCEPT ![n] = count]
    /\ UNCHANGED <<ann, mapped, writer, scans, reports, faults>>

ForeignEdit ==
    /\ edits > 0
    /\ edits' = edits - 1
    /\ Write([ann EXCEPT !.foreign = MaxEdits - edits + 1], writer)
    /\ UNCHANGED <<hub, mapped, scans, reports, faults>>

-----------------------------------------------------------------------------

ControllerStep(c) ==
    \/ Upload(c)
    \/ ScanResults(c)
    \/ GetImage(c)
    \/ Update(c)
    \/ Report(c)

Notification ==
    \/ GetImageAnnotationInfo
    \/ versionResults
    \/ ArbiterGets
    \/ ArbiterGetsAgain
    \/ ArbiterUpdates

Next ==
    \/ \E c \in Controller :
        StartScan(c) \/ ControllerStep(c) \/ ControllerFails(c) \/ UpdateFails(c)
    \/ Notification
    \/ ArbiterFails
    \/ ArbiterPanics
    \/ \E n \in 1..MaxScans : HubChanges(n)
    \/ ForeignEdit

Spec == Init /\ [][Next]_vars

\* Workers run, scans end, and the ticker queues the image for ever.
Fairness ==
    /\ \A c \in Controller : WF_vars(ControllerStep(c))
    /\ WF_vars(Notification)

FairSpec == Spec /\ Fairness

-----------------------------------------------------------------------------

\* Type invariant.
TypeOK ==
    /\ ann \in Info
    /\ hub \in [1..MaxScans -> 0..MaxCount \cup {None}]
    /\ mapped \in [1..MaxScans -> 1..MaxScans \cup {None}]
    /\ writer \in [Writer -> WriterState]
    /\ scans \in 0..MaxScans
    /\ notified \in {TRUE, FALSE, None}
    /\ done \subseteq Outcome
    /\ edits \in 0..MaxEdits
    /\ faults \in 0..MaxFaults

\* The image's record is of one scan: the project version belongs to the scan
\* id and comes with counts and an attestation, whoever wrote last and whatever
\* he had read before.
RecordsCoherent ==
    /\ ann.scan # None => ann.url = mapped[ann.scan]
    /\ \A k \in {"by", "url", "counts"} : ann[k] = None <=> ann.scan = None

\* A notification job that reports an image as scanned has found the record of
\* a scan: what module ScanProtocol assumes of NotifyRead.
ScannedMeansAnnotated == notified = TRUE => ann.scan # None

\* A scan that was reported done has left its record on the image, unless the
\* one attempt to store it was refused or failed; and no later merge, of however
\* old a copy, takes the record away again.
ReportedMeansStored == "stored" \in done => ann.scan # None

\* A controller that stores its results takes nobody else's annotations back.
\* (The arbiter may: its results repeat all that it read at first.)
ControllersKeepForeign ==
    [][\A c \in Controller :
        (writer[c].pc = "update" /\ writer'[c].pc # "update") => ann'.foreign = ann.foreign]_vars

\* The image has a record, with the Hub's counts if its project version is
\* still in the Hub.  (If it is not, the image needs a new scan.)
ShowsHub ==
    /\ ann.url # None
    /\ InHub(ann.url) => ann.counts = RiskLabel(hub[ann.url])

\* The arbiter keeps "CVE and policy status ... consistent between the
\* OpenShift Cluster and Hub": once the Hub stops changing, the labels of an
\* image with a record, and of one whose scan was stored and reported, come to
\* show the Hub's counts, and keep showing them.
HubConsistent ==
    <>[](ann.url # None \/ "stored" \in done => ShowsHub)

\* The same for every image that was reported as scanned.  Violated: the worker
\* reports a scan whose results it could not store, and a refresh needs the
\* record it did not leave.
ScannedShowsHub ==
    <>[](done # {} => ShowsHub)
=============================================================================
