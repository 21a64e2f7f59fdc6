# A TLA+ verification of ose-scanner

ose-scanner scans the container images of an OpenShift or Kubernetes cluster
with the Black Duck Hub. A *controller* runs on every node, finds the images
there and scans them in containers; one *arbiter* decides which controller may
scan which image and when, and keeps the annotations of images and pods up to
date. This directory models the concurrency and failure behaviour of these
programs, checks it with TLC and proves with TLAPS all safety properties that hold.

## 1. Inventory

Paths are relative to `src/`; `A/` stands for `arbiter/pkg/arbiter/`, `C/` for
`controller/pkg/controller/`.

| Component | State | Operations | Hard behaviour |
|---|---|---|---|
| Controller ledger, `A/controllerdaemon.go` | free workers, requested and assigned scans of one controller | AddScanRequest, AssignScan, CompleteScan, AbortScan, SkipScan | repeated, stale and misdirected messages |
| Arbiter HTTP interface, `A/controllerinterface.go` | maps `requestedImages`, `assignedImages`, `controllerDaemons` | heartbeat, found, request, processing, done, abort | one goroutine per request, reads outside the mutex, check and use in two critical sections |
| Arbiter core, `A/arbiter.go` | map `images` with a scanned flag, `imageUsage`, job queue | addImage, RemoveImage, setImageStatus, queueImagesForNotification (ticker), pod handling | in-memory state lost on restart, unlocked iteration |
| Notification jobs, `A/dispatcher.go`, `A/worker.go`, `A/job.go`, `A/podimage.go`, `A/scanimage.go` | jobs, workers | queue all images and pods, read annotations, ask the Hub, merge, write back, patch pods, Done | result stored long after it was computed; rounds overlap while the Hub is slow; one patch of several fails |
| Controller's arbiter client, `C/arbiterinterface.go` | none | heartbeat, alertImage, requestImage, scanDone, abortScan | errors swallowed, no retry of reports |
| Controller workers, `C/worker.go`, `C/job.go` | the job in hand, `imageUsage` | RequestScanAuthorization, UpdateImageAnnotationInfo, ApplyAnnotationInfoToPods | polling without limit; the results of a scan are stored once, then patched onto pods from a map read without a lock, and the scan is reported done whatever came of it |
| Controller queue, `C/controller.go`, `C/dispatcher.go` | map `images`, bounded `jobQueue`, WaitGroup, mutex | AddImage, RemoveImage, queueImage, imageScanned, dispatch | a blocking send under the mutex the receivers need |
| Scan container, `C/docker.go`, `C/scanimage.go` | container, pipe, three goroutines | launchContainer, pipeOutput, scan | output racing the exit of the container, closed pipe, early returns |
| Watchers, `A/watcher.go`, `C/watcher.go` | informers (library) | ImageAdded, ImageUpdated, ImageDeleted, PodCreated | run beside everything else |
| Annotations, `common/annotate.go`, `A/job.go`, `C/job.go` | labels and annotations of images and pods | merge, update, patch, is a scan needed? | read-modify-write against the API server; two kinds of writers, one with old results |
| Hub client, `common/hubserver.go`, `common/scanresults.go` | session cookie | login, logout, scan summary, code location, project version, risk and policy | polling without limit, failure in the middle of an operation, lost and expired sessions |
| Scanner, `scanner/ose_scanner.go` | files | extract an image, run the engine | sequential I/O |
| Command lines, `*/cmd` | configuration | parse, start, load, listen, watch | sequential; `Watch` ends in `select {}`, so the `Stop` after it is never reached |

How they interact: watchers and the initial load feed `AddImage`; jobs pass
through `jobQueue` and the dispatcher to workers; a worker holds an HTTP
conversation with the arbiter (heartbeat, found, request until start or skip,
then done or abort); between start and done it runs a scan container,
annotates the image and labels the pods its controller knows to use it. The
arbiter's own workers read these annotations
periodically and store what they conclude in the same `images` map that done
reports write; they also label the running pods of every image. Both kinds of
workers ask the Hub, each time in a session of its own.

What makes the system correct: an image is scanned by one worker at a time, and
once; what is reported as scanned was scanned; assignments and worker counts
are never lost, invented or left behind; the Hub's job limit holds; labels say
what the Hub says, and a request that failed is not a count of zero; nobody waits
for ever. `PROJECT.json` lists where each of these is at risk
(`hazards`) and which property watches it.

## 2. Modules

| Module | Models | Notes |
|---|---|---|
| `ControllerDaemon` | struct `controllerDaemon` and its methods | operators on a record; no state of its own |
| `Arbiter` | the arbiter's maps and six handlers | open environment: any request, any time |
| `ScanProtocol` | the arbiter with the controllers' workers and the faults of the network and the nodes | EXTENDS `Arbiter`: every arbiter step is one of its actions |
| `Controller` | image map, queue, dispatcher and worker loop of one controller | the conversation with the arbiter is one state, `scan` |
| `JobPool` | what queue, dispatcher and workers promise | abstract; `Controller` and `Notification` implement it |
| `ScanContainer` | one scan: worker, engine, pipe, three goroutines | refines what `ScanProtocol` calls ScanCompletes and ScanFails |
| `Annotations` | one image's labels and annotations and those who write them | details what `ScanProtocol` calls NotifyRead |
| `Notification` | the labels of running pods: the arbiter's main goroutine, ticker, dispatcher, workers and pod usage map, and the controllers' usage maps and patches | what a job does to an image is in `Annotations`; what Done stores in `ScanProtocol` |
| `HubResults` | sessions, polling and requests of the Hub client | details what `Annotations` calls ScanResults and versionResults, and `Notification` ScanResults |
| `ArbiterProofs`, `ScanProtocolProofs`, `ScanExclusionProofs` | theorems about the arbiter and the protocol | each EXTENDS the one before |
| `ControllerProofs`, `ScanContainerProofs`, `AnnotationsProofs`, `NotificationProofs`, `HubResultsProofs` | theorems about one module each | |
| `MCArbiter`, `MCScanProtocol`, `MCController`, `MCScanContainer`, `MCAnnotations`, `MCNotification` | instances for TLC | |

Operators whose comment begins with *Mutant* are deliberate mistakes. They are
not part of the model; each shows that a property notices a plausible bug.

### Arbiter

`handler[k]` is the goroutine of connection `k`: its route, the point it has
reached and its local variables. The handlers lock the arbiter only inside
`assignedImageCount`, `findWorker`, `saveFoundImage`, `finalizeScan` and
`releaseScanForPeer`; an action is one such locked section, or one unlocked map
read or write. So `LookupKnown` and `LookupImage` read entries that may be stale
when the locked section runs. Unlocked access to a Go map is a data race: it sees
the old or the new map, or the runtime stops the process, which is `Restart`.
A ledger object is named by its controller and the connection whose heartbeat
created it, because two concurrent first heartbeats create two objects and both
stay in use. The digest of a pull spec is the constant function `Md5`, assumed
injective. Time stamps are written but never read, and left out.

### ScanProtocol

`client[x]` is a worker, or a controller's main goroutine until its first
heartbeat returns: the call it is in, the connection it waits on, its image and
hash. `Call` delivers a request to a handler, `Return` the response. Faults are
a constant set, and at most `MaxFaults` happen:

- *lossy*: a call fails before, during or after it is served (then the handler
  runs on with nobody listening), or the body of an answer is truncated, which
  `requestImage` reads as "wait";
- *crash*: a controller dies with its workers and comes back under its name;
- *restart*: the arbiter dies and comes back empty;
- *requeue*: a second job for an image, as `Controller` shows to happen when
  OpenShift and Docker announce one pull spec under different ids;
- *notify*: a notification job computes a result now and stores it later;
- *remove*: an image disappears from the cluster or the node;
- *abort*: a scan fails.

The queue is a set of images here; its real structure is in `Controller`. What a
worker does to the API server between the end of a scan and its report is in
`Annotations` and `Notification`; it neither reads nor changes what is here. The
scan that a crashed controller left running in the engine is not followed.

### Controller

Callers are the main goroutine (Load), the informers and the goroutines of
pending pods. `AddImage` takes three steps, all under the mutex: compare with the
map and ask the engine for the original; create and validate the new image, ask
whether a scan is needed, enter it and add to the WaitGroup; send. The announced
id keeps its `sha256:` prefix and the stored one does not; both forms occur in
the instances, as do OpenShift names that are no id of the engine. `scanned` is
never true for an image in the map (`scan` has a value receiver, and queueImage
sets it on an image it does not enter), so it is left out. `asked` and
`unsteady` are history variables. A pull spec becomes unsteady when it is removed,
announced under a second id, or announced while its id is not in the engine, and
when the engine gains or loses the id it is known or being announced under.

### ScanContainer

The container may end after any line of `Script`; the stream may be cut inside a
line, break, or never connect. Lines are told apart as far as the reader tells
them apart. If the pipe is closed in the middle of the line with the scan id the
reader may slice to index -1, and the process panics: the state `crashed`.

### Annotations

`ann` is the image object in the API server, labels and annotations in one map;
`hub` the counts of the image's project versions, `mapped` the project version of
each scan. The policy and vulnerability counts go the same way through the code
and are one number. `writer[w]` is a controller's worker or the arbiter's: how
far it is, the results it wants to store (`newInfo`) and what it merges them into
(`oldInfo`). A resource version is the bit `fresh`: has nobody written since? The
arbiter takes it from its first get and the annotations from its second. If the
second fails, its error is ignored and the merge panics: `ArbiterPanics`. A new
scan joins the image's project version if the Hub still has it, since scanner
and image determine project and release (`scanner/ose_scanner.go`).

A controller's update ends `stored` or `lost`: refused because somebody has
written in between, or failed. The worker goes on alike, and `Report` is its
`scanDone`; `done` is the set of outcomes reported so far. On a Kubernetes cluster
(OSE_KUBERNETES_CONNECTOR) every image is scanned and, there being no image objects,
every update ends `lost`. An OpenShift client is always there: main exits without.

### Notification

`main` is the main goroutine: `getImages`, `getPods`, a round over both maps, the
wait for 15 quiet seconds, then `Watch`. `round` holds the two loops that range
over the maps, Load's and the ticker's; a loop visits the names in any order and
queues a job for those the map has at that moment, as Go's range over a changing
map does. The job channel has no buffer, and `dispatch` gives each job a goroutine
of its own, so `dispatching` is a set that grows while all workers are busy. A
worker asks the Hub, reads `imageUsage` and patches pod after pod; the first patch
that fails ends the job. `task` holds whoever registers a pod: getPods and
the informer's handler one container after the other, and one goroutine per
pending pod. Nothing is ever taken out of `imageUsage`.

Loops and jobs read the maps without the lock that writers hold. `MapRace` says
when that can happen and `Crash` what the Go runtime may do about it: the process
ends, and the next one starts with nothing but what is in the cluster. Phases
other than pending and running, and pods deleted, are one phase `gone`. `label`
is what a pod's labels say, one number as in `Annotations`; `missed` is history.

The controllers are the second writer of `label`. `usage[c]` is the `imageUsage` of
controller `c`: pods that run are registered in it in any order and more than once,
by Load, the waiters and the informer, without a lock. `scan[x]` is the worker of
one scan: it has results (`ScanCompleted`), reads `usage` once, when the range
statement evaluates its slice (`ReadUsage`), and patches pod after pod with results
that may be old by now; the first patch that fails ends the loop, and in any case
the scan is reported. `ControllerDies` is what the runtime may do about the unlocked
access, or anything else that ends the process.

### HubResults

`client[c]` is a goroutine that has called one of five operations: how far it is,
the state of its cookie and what it has read. `open[c]` is the number of its
sessions in the Hub, `lost[c]` (history) how many logins, logouts and cookies were
lost, and how often its process died in the middle. Every request may be answered, may fail for a reason in the network, and
must fail if the session is bad or the thing asked for is gone. `Fails` is the
early return and the deferred `Logout`; when `Login` itself fails only
`ValidateConfig` has deferred it. The jar keeps the cookies of the last reply that
has any (`CookieReplaced`). The status `""` stands for a summary that never says
COMPLETE, as an empty scan id gets. `ProcessDies` is the death of the process while
the client is in an operation. One cause is in this code: a search reply with a
positive total count and no items makes a goroutine index an empty list and panic;
its own deferred logout runs, that of the others does not. The Hub is external: its scan and its version
change and disappear at any time.

## 3. What is checked

| Run | Instance | Shows |
|---|---|---|
| `arbiter_race` | 2 controllers with 2 workers each, 1 image, 2 connections, limit 1 | ledgers balance (`WorkersConserved`), assignments are backed (`AssignmentBacked`), never taken over (`NoTakeover`), requests are not dropped (`RequestKept`), the limit is overrun by at most one job, held or requested, per other connection (`HubJobsBounded`) |
| `protocol_lossy` | 2 nodes, 1 image, 3 faults of lossy, crash, abort | `MutualExclusion`, `ScannerHoldsAssignment`, `ScannedOnce` |
| `protocol_fair` | 2 nodes, 2 images, limit 1, one failing scan or removed image | `LedgersAgree`, `NoLeakedSlot`, `EveryJobEnds`, `EveryImageScanned` |
| `protocol_faults` | 2 nodes, 1 image, any 2 of all faults | `NoFalseScanned` |
| `controller` | 2 callers, 1 worker, 1 image with two ids, 4 calls, 1 engine change | `WaitCountsJobs`, `QueuedOnce`, `ServesAsPool` (implements `JobPool`), `AddImageReturns` (even if scans hang), `QueueDrains`, `NoImageForgotten` |
| `scan_container` | seven lines of all kinds | `NoFalseDone`, `LaunchReturns`, `GoroutinesEnd` |
| `annotations` | 2 controllers of different versions, arbiter, 2 scans, 2 changes, 1 fault | `RecordsCoherent`, `ScannedMeansAnnotated`, `ReportedMeansStored`, `ControllersKeepForeign`, `HubConsistent` |
| `notification` | 2 pods of one image (one runs, one is created at any time), 1 registry image, 1 worker, 1 controller with 1 scan, 1 event | `ServesAsPool` (implements `JobPool`), `RoundsEnd` (even if the Hub never answers), `PodsFollowHub` with both writers of labels |
| `hub_results` | 1 client, 2 failing requests, 1 change of the counts | `NoSessionLeak`, `NoFalseClean`, `ResultsReturn` |
| `scanned_together` | two workers of one node, image queued twice | `MutualExclusion` violated: see below |
| `lost_record` | one scan, one edit by somebody else | `ScannedShowsHub` violated |
| `blocked_pods` | two pods of one image, one goes | `AllPodsFollowHub` violated |

Four more configurations are kept to be run by hand (`tlc -config X.cfg M`). TLC
reports a violation for `ScannedTwice.cfg` (`ScannedOnce`) and
`CrashedController.cfg` (`EverySlotFreed`), both of `MCScanProtocol`, and for
`MissedPods.cfg` (`AllPodsFollowHub`) of `MCNotification`; `OverlappingRounds.cfg`,
of the same module, passes: the ticker starts a round while a job of the last one
is outstanding, 1.1 million states.

The bounds. Two controllers are what taking over, skipping and waiting for a
peer need; two connections are what every race between two handlers needs, and
the theorems below hold for any number. With one image `HubJobsBounded` is about
the assignment and the requests past the throttle; that these become as many
assignments takes more images, and is in the theorem. With a limit of one, the two
images of `protocol_fair` compete for the Hub. Three faults allow a failed call, a
crash and a failed scan in one behaviour. Four calls fill the queue: one job with the worker, one with a
dispatching goroutine, one in the channel, one being sent under the mutex.
Two scans and two changes let the project be deleted and made again
between a refresh's first read and its write. A second worker in `controller`
would need six calls for the same full queue, and a second image as many again;
both take TLC too long. The race of two workers for one job is in
`ControllerImplementsPool`, which holds for any number.

In `notification` a pod that goes, a changed result, a failing call or a crash is
an event, and `MaxEvents` = 1 lets one happen at any moment: two overlapping writers,
one with old and one with new results, need one change. `PodsAtStart` and
`HubAtStart` are the initial states: one pod runs, is registered by getPods and
again when the informer announces it; the other is created before Load's list or
after it and registered by one waiter or two. `MaxEntries` = 1 lets the controller
know one of the two pods, either one. `MaxRounds` bounds the ticker's rounds with
jobs outstanding, and `Backlog` names the images whose jobs may be outstanding when a
round starts: none here, the image of both pods in `OverlappingRounds.cfg`. The
first tick comes after Load has queued its jobs, half an hour after the start.
`PodsFollowHub` also passed with `MaxEntries` = 2; with two scans and with two events,
both pods running from the start; and with two workers of the arbiter whose jobs
overtake one another, without controllers.

In `hub_results` clients share nothing but the
Hub, which does not react to them, so one is enough; `MaxFaults` = 2 lets a request
and then the logout fail; `MaxChanges` lets the counts change between two reads.

Connections and alike controllers are symmetric in runs that
check no liveness. `arbiter_race` uses a VIEW that ignores what a finished
response said: no action and no property of `Arbiter` reads it. Deadlock is not
reported where the system may really stop: when all jobs, calls or lines are
used up; that it does not stop early is what the liveness properties say.

Fairness. The Go scheduler runs every goroutine that can run, and Go's mutex
does not starve: weak fairness of each step of a handler, worker, caller,
dispatcher and pipe. In `ScanProtocol` calls are answered and a scan ends, well
or not. No fairness makes a fault happen. In `Controller` and `ScanContainer`
nothing is assumed of scans: properties that need their end say so as a
premise (`ScansEnd`, `container = "running" ~> container = "exited"`). In
`Annotations` the ticker queues the image for refresh again and again, and a
scan once started ends. In `Notification` the ticker ticks, the informer delivers
and calls of the API server return; whether the Hub answers is a premise
(`HubAnswers`) of the properties about labels and of nothing else; nothing is
assumed of the controllers, which may stop anywhere for any time. In `HubResults` every request
ends, since the HTTP client has a timeout of ten seconds; a scan need not.

Exceptions the properties state, because the code leaves them: a job whose image
is removed while its worker waits (`EveryJobEnds`); a pod whose waiter met one
failing call, or which is registered after a pod that is gone (`PodsFollowHub`);
an image that has no record because the one attempt to store it was lost
(`HubConsistent`); a version whose reply has no link to a risk profile, which
counts as zero (`NoFalseClean`);
a scan that stays in an unknown status is polled for ever (`ResultsReturn`); a
session whose login, logout or cookie got lost, or whose process died
(`NoSessionLeak`). Where a document promises more, a violated configuration shows
the disagreement: `lost_record`, `blocked_pods` and `MissedPods.cfg` check the same
properties without the exception.

### Disagreements found

- **ScannedTwice.cfg.** The arbiter's readme says that "the arbiter ensures it's
  only scanned once". A notification job that reads an image before it is
  annotated stores *false* when it finishes. If a scan is reported in between,
  the image is unscanned again, and the next controller that asks scans it.
- **scanned_together.** foundImage turns a second job away because of "a weird
  race condition during s2i builds, only want to scan once". Two workers of one
  controller can both pass that test before either is assigned; findWorker
  compares controllers only, and AssignScan allows "Claiming again".
- **CrashedController.cfg.** The heartbeat is "to ensure it is still alive", but
  nothing reads `lastMessage`. An assignment of a controller that died is never
  given up: on its return its own image is answered 429, its peers wait for
  ever, and a Hub slot is lost.
- **lost_record.** The arbiter is responsible for "ensuring CVE and policy status
  are consistent between the OpenShift Cluster and Hub". A worker that could not
  store its results, because somebody has written the image since it read it or
  because the call failed, only logs that and sends `scanDone`. The arbiter now
  takes the image for scanned, and its refreshes do nothing for it, since they
  start from the scan id and the project version on the image.
- **blocked_pods.** The same sentence, and "annotates and labels containers to
  indicate risks" of the root README. A pod that is gone stays in `imageUsage`; in
  every round its patch fails and the loop returns, so the pods registered after it
  are not labelled.
- **MissedPods.cfg.** The same promise. A pod created after Load's list, whose
  waitPodRunning meets one failing Get, is registered by nobody: the informer does
  not announce it again. Only a restart of the arbiter finds it.

## 4. What is proved

`ArbiterProofs`, for all sets of controllers and finite sets of images, hashes
and connections and for every limit: `TypeCorrect`, `NoWorkerLost`,
`AssignmentsBacked`, `HubLoadBounded`, `NoTakeoverHolds`, `RequestKeptHolds`.
Assumptions: `SetsAssumption` (finiteness; None is no value), `Md5Assumption`
(injective), `CountAssumption` (natural worker counts, a positive limit).

None of these is inductive alone, since a handler acts on what it read before.
`IInv` adds what its locals are worth meanwhile: a handler past its lookup holds
an object of the controller it serves, even if the map no longer does
(`HandlersOK`); the object a heartbeat is about to create does not exist yet; the
map leads to objects of the right controller (`RegistryOK`); a request is filed
under its digest (`RequestsOK`). With these, a done or abort whose assignment was
meanwhile given up still clears hash and image together, so `AssignmentBacked`
survives. `HubJobsBounded` counts the requests past the throttle with the
assignments: `findWorker` turns one into the other. The proof has one lemma per
action. TLC checked `IInv` on small instances first.

`ScanContainerProofs`, for every output (`ScriptAssumption`): `ContainerInvariant`,
`ContainerTypeCorrect` and `DoneIsTrue` (`NoFalseDone`). The invariant's `Knowledge`
says that a partial line is part of a printed one, that the reader has seen what
it claims, and that the worker collects only after removal.

`HubResultsProofs`, for any clients and counts and any number of faults
(`HubAssumption`): `SessionInvariant`, `ResultsTypeCorrect`, `SessionsClosed`
(`NoSessionLeak`) and `ResultsComplete` (`NoFalseClean`). `NoSessionLeak` speaks of
idle clients only; its invariant counts in every state: the client's own session,
if its cookie is good, is open, and all others are lost ones, or left behind when
the process died. `NoFalseClean`
follows because a failed request leaves only the deferred logout to do. Steps of
one client are reduced to the state of that client (`OneClient`), and the eight
requests to one lemma (`Request`).

`ScanProtocolProofs`, for any controllers, workers, images, connections and bounds
and **every set of faults**, restarts included: `ProtocolInvariant`,
`ProtocolTypeCorrect`, `ProtocolImplementsArbiter` (`ProtocolSpec => Spec`: every
step is one of the arbiter's or leaves it alone, so all of `ArbiterProofs` carries
over) and `NeverFalselyScanned`. `PInv` ties a client to the goroutine that serves
its call: while that runs it holds what the client sent, its answer "Start" carries
the hash of the client's image (`JobsOK`, `ConnectionsOK`), and a done report,
even one nobody waits for any more, is about a completed scan (`ScannedOK`).

`ScanExclusionProofs`, under hypotheses on the faults that the violated
configurations show to be needed:

| Theorem | Hypothesis | Why |
|---|---|---|
| `ScannersHoldAssignments`, `OneScanner` | `StableArbiter`: no restart, no image queued again | a restart forgets assignments; `scanned_together` |
| `ScannedOnceHolds` | and `OnlyScansReport`: no notification jobs, no removals | `ScannedTwice.cfg`; a removed image comes back unscanned |
| `LedgersAlwaysAgree`, `SlotsNeverLeak` | `Reliable`: `StableArbiter`, no lost calls, no crashes | `CrashedController.cfg`: reports are sent once and nothing expires |

Lost and garbled calls, crashed controllers and failed scans stay allowed in the
first two rows; `protocol_lossy` and `protocol_fair` are instances that satisfy the
hypotheses. That a scanner holds its assignment is not inductive: the danger is a
report, of a worker that has crashed since, which still runs in a handler and
would clear the assignment of a successor. `XInv` says which of them can exist
together: a controller has one job per image (`OneJob`); whoever scans or has the
order to scan on its way holds the assignment, and no report for it is being served
(`HoldersOK`); a report being served is the only one for its assignment, which is
still there, and foundImage will turn away any other worker of that controller
(`ReportsOK`). `OnceInv` adds that a completed image stays marked or held, and
that nobody holds an image that is completed without being the one to report it.
`RInv` adds that every handler has a client waiting for it, that a controller's
ledger object is the one registered, and that every assignment has a worker that
will end it.

`ControllerProofs`, for any pull specs, ids, callers, any finite number of workers
and any number of calls (`ControllerAssumption`): `ControllerInvariant`,
`ControllerTypeCorrect`, `WaitGroupCountsJobs`, `SteadyImagesQueuedOnce` and
`ControllerImplementsPool` (`ServesAsPool`). `CInv` says that the mutex belongs to
the one caller past its check (`LockOK`), that a job is in one place at a time and
no two jobs share a name (`JobsOK`), and what is known of a steady pull spec:
it has had a job exactly if it is in the map, every call under way names the same
id, which the engine has, and a caller that holds the mutex has read the entry that
is there (`SteadyAt`). The last part makes `QueuedOnce` inductive. A job's name
is the pull spec and the number of its job; that these are unique is what lets the
refinement forget the channel, the goroutines and the mutex.

`AnnotationsProofs`, for any controllers, versions, scans, counts, edits and faults
(`AnnotationsAssumption`): `AnnotationsInvariant`, `AnnotationsTypeCorrect`,
`RecordsAlwaysCoherent`, `NotifiedScansAnnotated`, `ReportedScansStored`
(`ReportedMeansStored`), `ForeignAnnotationsKept`.
`RecordsCoherent` speaks of the stored record only; `AInv` says the same of
everything a writer has read or wants to store (`WritersOK`), however old. A merge
of two coherent records is coherent, since the new one has all four keys or none
(`MergeCoherent`); and a scan's project version, once known, does not change,
because the Hub files a scan when its controller uploads it and only then
(`ControllersOK`, `ScansOK`). That a stored record stays needs the same facts:
what a writer merges over it, however old, has a record or brings none, and nobody
deletes a key; `OutcomesOK` holds it between the update and the report.

`NotificationProofs`, for any images, pods, workers, rounds and events
(`NotificationAssumption`): `NotificationInvariant`, `NotificationTypeCorrect` and
`ArbiterImplementsPool` (`ServesAsPool`). `NInv` says that no job is outstanding before
Load has its pods (`StartOK`; getPods may then empty `imageUsage`), that what
a loop has still to visit has no job of this round (`RoundOK`), and that a job for a
pod image finds a pod (`UsageOK`). For a controller's scan it says what the worker has
in hand at each point (`ControllerTypes`), for any number of controllers and scans.

Every invariant was checked by TLC on small instances before it was proved. The
constants' assumptions ask for no more than finiteness where something is counted,
natural bounds, injective digests, and a `None` that is none of the values.

Only model-checked: `EveryJobEnds`, `EveryImageScanned`, `AddImageReturns`,
`QueueDrains`, `NoImageForgotten`, `LaunchReturns`, `GoroutinesEnd`, `HubConsistent`,
`RoundsEnd`, `PodsFollowHub` and `ResultsReturn`: liveness under fairness, which is
beyond the prover.

## 5. What is not modelled, and the plan

Not modelled:

- the scanner (`scanner/ose_scanner.go`): a sequential program that extracts an
  image with the Docker client, writes files and runs the engine; what others see
  of it, its output and exit, is in `ScanContainer`;
- flags, environment and the set-up of connections in the command lines;
- informers, Docker, HTTP and API server libraries: external; what the code sees
  of them is modelled;
- which pods a controller registers and when: `Notification` lets it register any
  running pod at any time;
- FindCodeLocations, FindCodeLocationScanSummaries, the arbiter's scanResults and
  the workers' quit channels, which nobody calls or uses;
- real time: sleeps, the half hour of the ticker and Load's 15 quiet seconds are
  steps that may happen at any moment;
- pods with several images and init containers in the instance of
  `Notification`; the module has them (`Containers`), with "" for the id of an
  init container, which processPod never finds.

All components of the plan that have concurrency or failures are modelled. What
is left:

1. `ScanLease`: an abstract exclusive lease per image, implemented by the
   protocol under lossy calls and crashes; the invariants it needs are proved.
