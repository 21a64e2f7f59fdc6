---------------------------- MODULE Notification ----------------------------
(***************************************************************************)
(* How running pods get the labels that show the Hub's results.            *)
(*                                                                         *)
(* The arbiter keeps them in step with the Hub: main, Load, the ticker and *)
(* the pod usage map of arbiter.go, PodCreated of watcher.go, dispatch of  *)
(* dispatcher.go and the workers' jobs of worker.go, podimage.go, job.go.  *)
(*                                                                         *)
(* The main goroutine loads images and pods, queues a notification job for *)
(* every one of them, waits until that has calmed down and then watches.   *)
(* A ticker queues all of them again every half hour.  A job for a pod     *)
(* image asks the Hub for its results and patches them onto every pod that *)
(* is known to use the image.  What a job for an image of the registry     *)
(* does is in module Annotations; here it only keeps a worker busy.        *)
(*                                                                         *)
(* The controllers write the same labels, once for every scan: a worker    *)
(* that has stored the results of its scan patches them onto the pods that *)
(* its process has registered for the image (worker.go, job.go and         *)
(* controller.go of controller/pkg/controller).                            *)
(*                                                                         *)
(* The two maps are written under the arbiter's lock and read without it.  *)
(* The Go runtime stops a process it finds doing that; the arbiter is then *)
(* started again and remembers nothing.  arb.wait is left out: nobody      *)
(* waits for it, since Watch does not return; so DonePod only frees the    *)
(* worker.  How watchers and controllers change the image map, and what    *)
(* DoneScan stores in it, is in module ScanProtocol.                       *)
(***************************************************************************)
EXTENDS Integers, Sequences, Functions

CONSTANTS
    ScanImage,  \* images of the registry, by pull spec
    Image,      \* what containers run, as their ImageID says; "" is possible
    PullSpec,   \* the ones of Image that name a project and a version
    Pod,
    Containers, \* the images of each pod's containers, init containers first
    Worker,     \* MaxWorkers of them
    Count,      \* results the Hub can have
    MaxRounds,  \* bound on the ticker's rounds that have jobs outstanding
    Backlog,    \* bound on the jobs that are outstanding when a round starts
    PodsAtStart,    \* what the pods may be doing,
    HubAtStart, \* and the results the Hub may have, when the arbiter is started
    Controller,
    Scan,       \* scans of the controllers that end well
    MaxEntries, \* bound on the pods a controller has registered for an image
    MaxEvents,  \* bound on pods that go, changed results, failing calls, crashes
    None

Job == [name : ScanImage \cup Image, slot : 0..MaxRounds]

ASSUME NotificationAssumption ==
    /\ ScanImage # {} /\ Image # {} /\ PullSpec \subseteq Image
    /\ ScanImage \cap Image = {}
    /\ Containers \in [Pod -> Seq(Image)]
    /\ \A p \in Pod : Containers[p] # <<>>
    /\ MaxRounds \in Nat \ {0} /\ Backlog \subseteq ScanImage \cup Image
    /\ PodsAtStart \subseteq [Pod -> {"absent", "pending", "running"}]
    /\ HubAtStart \subseteq [PullSpec -> Count \cup {None}]
    /\ MaxEntries \in Nat /\ MaxEvents \in Nat
    /\ None \notin Count /\ None \notin Image \cup ScanImage \cup Controller /\ None \notin Job

VARIABLES
    main,           \* where the main goroutine stands
    listed,         \* pods of its list, with their phase, that Load has not seen to
    images,         \* arb.images
    imageUsage,     \* arb.imageUsage: the pods registered for each image
    round,          \* Load's and the ticker's loops over the two maps
    dispatching,    \* jobs of the goroutines dispatch has started
    worker,         \* where each worker stands, and its job
    task,           \* goroutines and calls that register a pod
    announced,      \* pods the informer has announced
    pod,            \* the phase of each pod in the cluster
    label,          \* the results each pod is labelled with
    hub,            \* the results the Hub has for each image
    missed,         \* history: announced pods whose waitPodRunning met a failing call
    usage,          \* c.imageUsage of each controller
    scan,           \* where the worker of each scan stands, and its local variables
    events          \* how many events are left

queueVars == <<round, dispatching, worker>>

memory == <<main, listed, images, imageUsage, queueVars, task, announced>>

controllers == <<usage, scan>>

cluster == <<pod, label, hub, missed, controllers>>

vars == <<memory, cluster, events>>

\* A pod that ends before it runs is skipped everywhere, as if it were gone; one
\* that ends later can still be patched, as if it were running.
Phase == {"absent", "pending", "running", "gone"}

Origin == {"load", "watch"}

NoJob == [name |-> None, slot |-> 0]

Free == [pc |-> "pool", job |-> NoJob, count |-> None, pods |-> <<>>]

NoRound == [pc |-> "idle", todo |-> {}, slot |-> 0]

NoTask == [pc |-> "none", left |-> <<>>]

\* A scan that has not ended yet, and one whose worker has patched its pods.
NoScan == [pc |-> "none", by |-> None, image |-> None, count |-> None, pods |-> <<>>]

Reported == [NoScan EXCEPT !.pc = "reported"]

\* NewArbiter, Start and NewDispatcher.
Started ==
    [main |-> "getImages", round |-> [s \in {"load", "ticker"} |-> NoRound],
     worker |-> [w \in Worker |-> Free], imageUsage |-> [i \in Image |-> <<>>],
     task |-> [g \in Pod \X Origin |-> NoTask]]

Init ==
    /\ main = Started.main
    /\ listed = {}
    /\ images = {}
    /\ imageUsage = Started.imageUsage
    /\ round = Started.round
    /\ dispatching = {}
    /\ worker = Started.worker
    /\ task = Started.task
    /\ announced = {}
    /\ pod \in PodsAtStart
    /\ label = [p \in Pod |-> None]
    /\ hub \in HubAtStart
    /\ missed = {}
    /\ usage = [c \in Controller |-> [i \in Image |-> <<>>]]
    /\ scan = [x \in Scan |-> NoScan]
    /\ events = MaxEvents

\* One of the events whose number is bounded.
Event ==
    /\ events > 0
    /\ events' = events - 1

CallFails == Event

CallSucceeds == UNCHANGED events

-----------------------------------------------------------------------------
(***************************************************************************)
(* Load, and what follows it in main.                                      *)
(***************************************************************************)

\* A goroutine other than a waiter is in processPod for origin o.
Processing(o) == \E p \in Pod : task[<<p, o>>].pc = "process"

getImages ==
    /\ main = "getImages"
    /\ main' = "getPods"
    /\ \/ CallSucceeds /\ images' = ScanImage
       \/ CallFails /\ UNCHANGED images
    /\ UNCHANGED <<listed, imageUsage, queueVars, task, announced, cluster>>

\* The image loop of a round visits all there is in the map, in any order.
StartRound(s, n) ==
    round' = [round EXCEPT ![s] = [pc |-> "images", todo |-> ScanImage, slot |-> n]]

getPods ==
    /\ main = "getPods"
    /\ \/ /\ CallSucceeds
          /\ main' = "register"
          /\ imageUsage' = Started.imageUsage
          /\ listed' = {<<p, pod[p]>> : p \in {q \in Pod : pod[q] \notin {"absent", "gone"}}}
          /\ UNCHANGED round
       \/ /\ CallFails
          /\ main' = "round"
          /\ StartRound("load", 0)
          /\ UNCHANGED <<imageUsage, listed>>
    /\ UNCHANGED <<images, dispatching, worker, task, announced, cluster>>

\* What getPods and PodCreated do with a pod in phase ph.
SeeTo(p, o, ph) ==
    task' = [task EXCEPT ![<<p, o>>] =
        CASE ph = "pending" -> [pc |-> "wait", left |-> <<>>]
          [] ph = "running" -> [pc |-> "process", left |-> Containers[p]]
          [] OTHER          -> @]

LoadPod(p, ph) ==
    /\ main = "register"
    /\ ~Processing("load")
    /\ <<p, ph>> \in listed
    /\ listed' = listed \ {<<p, ph>>}
    /\ SeeTo(p, "load", ph)
    /\ UNCHANGED <<main, images, imageUsage, queueVars, announced, cluster, events>>

PodsLoaded ==
    /\ main = "register"
    /\ ~Processing("load")
    /\ listed = {}
    /\ main' = "round"
    /\ StartRound("load", 0)
    /\ UNCHANGED <<listed, images, imageUsage, dispatching, worker, task, announced,
                   cluster, events>>

\* Load returns when no job has been done for 15 seconds: a matter of time, so
\* it may happen at any moment; then ListenForControllers and Watch.
LoadReturns ==
    /\ main = "round"
    /\ round["load"].pc = "idle"
    /\ main' = "watch"
    /\ UNCHANGED <<listed, images, imageUsage, queueVars, task, announced, cluster, events>>

-----------------------------------------------------------------------------
(***************************************************************************)
(* Rounds, of Load and of the ticker.                                      *)
(***************************************************************************)

Outstanding == dispatching \cup ({worker[w].job : w \in Worker} \ {NoJob})

\* The first tick comes half an hour after the start, when Load has queued its
\* jobs; it may still wait for them.  Of the jobs of earlier rounds only those
\* for images in Backlog may be outstanding, of at most MaxRounds rounds.
Tick ==
    /\ round["ticker"].pc = "idle"
    /\ main \in {"round", "watch"} /\ round["load"].pc = "idle"
    /\ \A j \in Outstanding : j.name \in Backlog
    /\ \E n \in 1..MaxRounds :
        /\ \A j \in Outstanding : j.slot # n
        /\ StartRound("ticker", n)
    /\ UNCHANGED <<main, listed, images, imageUsage, dispatching, worker, task,
                   announced, cluster, events>>

\* Mutant: the dispatcher obtains a worker before it receives a job for it.
dispatchReady(J) ==
    /\ J = {} \/ (dispatching = {} /\ \E w \in Worker : worker[w].pc = "pool")
    /\ dispatching' = dispatching \cup J

\* The channel has no buffer: a send is over when the dispatcher has received
\* the job and given it to a goroutine of its own.
dispatch(J) == dispatching' = dispatching \cup J

Known(x) == x \in images \/ (x \in Image /\ imageUsage[x] # <<>>)

AfterVisit(r, x) ==
    IF r.todo # {x} THEN [r EXCEPT !.todo = @ \ {x}]
    ELSE IF r.pc = "images" THEN [r EXCEPT !.pc = "pods", !.todo = Image]
    ELSE NoRound

\* queueImagesForNotification and queuePodsForNotification range over the maps
\* as they change: an entry that comes or goes meanwhile may be seen or not.
Visit(s, x) ==
    /\ x \in round[s].todo
    /\ dispatch(IF Known(x) THEN {[name |-> x, slot |-> round[s].slot]} ELSE {})
    /\ round' = [round EXCEPT ![s] = AfterVisit(@, x)]
    /\ UNCHANGED <<main, listed, images, imageUsage, worker, task, announced, cluster, events>>

-----------------------------------------------------------------------------
(***************************************************************************)
(* Workers.                                                                *)
(***************************************************************************)

sourceVars == <<main, listed, images, imageUsage, round, task, announced>>

\* Mutant: the goroutine offers its job again.
HandOverKept(j, w) ==
    /\ j \in dispatching
    /\ worker[w].pc = "pool"
    /\ worker' = [worker EXCEPT ![w].pc = "results", ![w].job = j]
    /\ UNCHANGED <<sourceVars, dispatching, cluster, events>>

\* workerJobQueue := <-d.workerPool; workerJobQueue <- job
HandOver(j, w) ==
    /\ j \in dispatching
    /\ worker[w].pc = "pool"
    /\ dispatching' = dispatching \ {j}
    /\ worker' = [worker EXCEPT ![w].pc = "results", ![w].job = j]
    /\ UNCHANGED <<sourceVars, cluster, events>>

\* The results there are for a job: none for a name that is no pull spec, and
\* none for a job of ProcessScanImage.
Results(w) ==
    IF worker[w].job.name \in PullSpec THEN hub[worker[w].job.name] ELSE None

\* There are no results, or a call fails.
JobEnds(w) ==
    /\ worker[w].pc = "results"
    /\ \/ Results(w) = None /\ CallSucceeds
       \/ CallFails
    /\ worker' = [worker EXCEPT ![w] = Free]
    /\ UNCHANGED <<sourceVars, dispatching, cluster>>

\* ScanResults succeeds, and ApplyAnnotationInfoToPods reads imageUsage.
ScanResults(w) ==
    /\ worker[w].pc = "results"
    /\ Results(w) # None
    /\ worker' = [worker EXCEPT ![w].pc = "apply", ![w].count = Results(w),
                                ![w].pods = imageUsage[worker[w].job.name]]
    /\ UNCHANGED <<sourceVars, dispatching, cluster, events>>

\* Mutant: the loop does not stop after the last pod.
ApplyPastEnd(w) ==
    LET p == Head(worker[w].pods)
    IN  /\ worker[w].pc = "apply"
        /\ pod[p] # "gone"
        /\ CallSucceeds
        /\ label' = [label EXCEPT ![p] = worker[w].count]
        /\ worker' = [worker EXCEPT ![w].pods = Tail(@)]
        /\ UNCHANGED <<sourceVars, dispatching, pod, hub, missed, controllers>>

\* The patch of the next pod succeeds.
ApplyAnnotationInfoToPods(w) ==
    LET p == Head(worker[w].pods)
    IN  /\ worker[w].pc = "apply"
        /\ pod[p] # "gone"
        /\ CallSucceeds
        /\ label' = [label EXCEPT ![p] = worker[w].count]
        /\ worker' = [worker EXCEPT ![w] =
                IF Len(worker[w].pods) = 1 THEN Free
                ELSE [worker[w] EXCEPT !.pods = Tail(worker[w].pods)]]
        /\ UNCHANGED <<sourceVars, dispatching, pod, hub, missed, controllers>>

\* The patch of the next pod fails: the pods after it are left as they are.
PatchFails(w) ==
    /\ worker[w].pc = "apply"
    /\ \/ pod[Head(worker[w].pods)] = "gone" /\ CallSucceeds
       \/ CallFails
    /\ worker' = [worker EXCEPT ![w] = Free]
    /\ UNCHANGED <<sourceVars, dispatching, cluster>>

-----------------------------------------------------------------------------
(***************************************************************************)
(* Pods are registered.                                                    *)
(***************************************************************************)

\* The informer announces every pod once; its handler is one goroutine.
PodCreated(p) ==
    /\ main = "watch"
    /\ ~Processing("watch")
    /\ p \notin announced
    /\ pod[p] # "absent"
    /\ announced' = announced \cup {p}
    /\ SeeTo(p, "watch", pod[p])
    /\ UNCHANGED <<main, listed, images, imageUsage, queueVars, cluster, events>>

\* The call after which waitPodRunning leaves its loop.
waitPodRunning(p, o) ==
    /\ task[<<p, o>>].pc = "wait"
    /\ pod[p] # "pending"
    /\ task' = [task EXCEPT ![<<p, o>>] =
            IF pod[p] = "running" THEN [pc |-> "waited", left |-> Containers[p]] ELSE NoTask]
    /\ UNCHANGED <<main, listed, images, imageUsage, queueVars, announced, cluster, events>>

\* "Error getting pod": nobody tries again.  For a pod of Load's list the
\* informer will.
WaiterFails(p, o) ==
    /\ task[<<p, o>>].pc = "wait"
    /\ CallFails
    /\ task' = [task EXCEPT ![<<p, o>>] = NoTask]
    /\ missed' = IF o = "watch" THEN missed \cup {p} ELSE missed
    /\ UNCHANGED <<main, listed, images, imageUsage, queueVars, announced, pod, label,
                   hub, controllers>>

\* One container of processPod.
registerPodUsage(p, o) ==
    LET t == task[<<p, o>>]
    IN  /\ t.left # <<>>
        /\ imageUsage' = [imageUsage EXCEPT ![Head(t.left)] = Append(@, p)]
        /\ task' = [task EXCEPT ![<<p, o>>] =
                IF Len(t.left) = 1 THEN NoTask ELSE [t EXCEPT !.left = Tail(@)]]
        /\ UNCHANGED <<main, listed, images, queueVars, announced, cluster, events>>

-----------------------------------------------------------------------------
(***************************************************************************)
(* Controllers.                                                            *)
(***************************************************************************)

\* An image of a pod that Docker finds on the controller's node: processPod of
\* a pod that was found running, at the start, by a waiter or by the informer.
ControllerRegisters(c, p, i) ==
    /\ pod[p] = "running"
    /\ i \in Range(Containers[p])
    /\ Len(usage[c][i]) < MaxEntries
    /\ usage' = [usage EXCEPT ![c][i] = Append(@, p)]
    /\ UNCHANGED <<memory, pod, label, hub, missed, scan, events>>

\* A worker has the Hub's results for its scan, and stores them on the image.
ScanCompleted(x, c, i) ==
    /\ scan[x].pc = "none"
    /\ hub[i] # None
    /\ scan' = [scan EXCEPT ![x] =
            [pc |-> "stored", by |-> c, image |-> i, count |-> hub[i], pods |-> <<>>]]
    /\ UNCHANGED <<memory, pod, label, hub, missed, usage, events>>

\* Then ApplyAnnotationInfoToPods reads the controller's imageUsage, without a
\* lock.  After the last pod the scan is reported.
ReadUsage(x) ==
    LET s == scan[x]
    IN  /\ s.pc = "stored"
        /\ scan' = [scan EXCEPT ![x] = IF usage[s.by][s.image] = <<>> THEN Reported
                ELSE [s EXCEPT !.pc = "apply", !.pods = usage[s.by][s.image]]]
        /\ UNCHANGED <<memory, pod, label, hub, missed, usage, events>>

\* Mutant: the worker begins again with the pod it has just patched.
ScanPatchesAgain(x) ==
    /\ scan[x].pc = "apply"
    /\ pod[Head(scan[x].pods)] # "gone"
    /\ CallSucceeds
    /\ label' = [label EXCEPT ![Head(scan[x].pods)] = scan[x].count]
    /\ UNCHANGED <<memory, pod, hub, missed, controllers>>

ScanPatches(x) ==
    LET s == scan[x]
    IN  /\ s.pc = "apply"
        /\ pod[Head(s.pods)] # "gone"
        /\ CallSucceeds
        /\ label' = [label EXCEPT ![Head(s.pods)] = s.count]
        /\ scan' = [scan EXCEPT ![x] =
                IF Len(s.pods) = 1 THEN Reported ELSE [s EXCEPT !.pods = Tail(s.pods)]]
        /\ UNCHANGED <<memory, pod, hub, missed, usage>>

\* The patch of the next pod fails: the scan is reported all the same.
ScanPatchFails(x) ==
    /\ scan[x].pc = "apply"
    /\ \/ pod[Head(scan[x].pods)] = "gone" /\ CallSucceeds
       \/ CallFails
    /\ scan' = [scan EXCEPT ![x] = Reported]
    /\ UNCHANGED <<memory, pod, label, hub, missed, usage>>

\* A controller dies, for one because the Go runtime finds ReadUsage or another
\* registration while it registers a pod: its workers patch no more, and when it
\* is started again it has no pods.
ControllerDies(c) ==
    /\ Event
    /\ usage' = [usage EXCEPT ![c] = [i \in Image |-> <<>>]]
    /\ scan' = [x \in Scan |-> IF scan[x].by = c THEN Reported ELSE scan[x]]
    /\ UNCHANGED <<memory, pod, label, hub, missed>>

-----------------------------------------------------------------------------
(***************************************************************************)
(* Crashes, the cluster and the Hub.                                       *)
(***************************************************************************)

\* One goroutine writes a map while another reads it.
MapRace ==
    \/ /\ \E g \in DOMAIN task : task[g].left # <<>>
       /\ \/ \E s \in DOMAIN round : round[s].pc = "pods"
          \/ \E w \in Worker : worker[w].pc = "results" /\ worker[w].job.name \in Image
    \/ main = "watch" /\ round["ticker"].pc = "images"

Crash ==
    /\ MapRace
    /\ Event
    /\ main' = Started.main
    /\ listed' = {}
    /\ images' = {}
    /\ imageUsage' = Started.imageUsage
    /\ round' = Started.round
    /\ dispatching' = {}
    /\ worker' = Started.worker
    /\ task' = Started.task
    /\ announced' = {}
    /\ missed' = {}
    /\ UNCHANGED <<pod, label, hub, controllers>>

\* A pod is created, and runs once its images are on the node.
PodStarts(p) ==
    /\ pod[p] \in {"absent", "pending"}
    /\ pod' = [pod EXCEPT ![p] = IF @ = "absent" THEN "pending" ELSE "running"]
    /\ UNCHANGED <<memory, label, hub, missed, controllers, events>>

PodGoes(p) ==
    /\ pod[p] \in {"pending", "running"}
    /\ Event
    /\ pod' = [pod EXCEPT ![p] = "gone"]
    /\ UNCHANGED <<memory, label, hub, missed, controllers>>

HubChanges(i) ==
    /\ Event
    /\ \E c \in (Count \cup {None}) \ {hub[i]} : hub' = [hub EXCEPT ![i] = c]
    /\ UNCHANGED <<memory, pod, label, missed, controllers>>

MainRuns ==
    \/ getImages \/ getPods \/ PodsLoaded \/ LoadReturns
    \/ \E p \in Pod, ph \in Phase : LoadPod(p, ph)
    \/ \E x \in ScanImage \cup Image : Visit("load", x)

TickerRuns == Tick \/ \E x \in ScanImage \cup Image : Visit("ticker", x)

WorkerPatches(w) == ApplyAnnotationInfoToPods(w) \/ PatchFails(w)

WaiterRuns(p, o) == waitPodRunning(p, o) \/ registerPodUsage(p, o)

ControllerRuns(c) ==
    \/ \E p \in Pod, i \in Image : ControllerRegisters(c, p, i)
    \/ \E x \in Scan, i \in PullSpec : ScanCompleted(x, c, i)
    \/ ControllerDies(c)

ScanRuns(x) == ReadUsage(x) \/ ScanPatches(x) \/ ScanPatchFails(x)

Next ==
    \/ MainRuns
    \/ TickerRuns
    \/ \E w \in Worker :
        \/ \E j \in dispatching : HandOver(j, w)
        \/ JobEnds(w)
        \/ ScanResults(w)
        \/ WorkerPatches(w)
    \/ \E p \in Pod : PodCreated(p)
    \/ \E p \in Pod, o \in Origin : WaiterRuns(p, o) \/ WaiterFails(p, o)
    \/ \E c \in Controller : ControllerRuns(c)
    \/ \E x \in Scan : ScanRuns(x)
    \/ Crash
    \/ \E p \in Pod : PodStarts(p) \/ PodGoes(p)
    \/ \E i \in PullSpec : HubChanges(i)

\* The scheduler runs every goroutine that can run, the ticker ticks and the
\* informer delivers.  The Hub need not answer, and nothing is assumed of the
\* controllers.
Fairness ==
    /\ WF_vars(MainRuns)
    /\ WF_vars(TickerRuns)
    /\ WF_vars(\E j \in dispatching, w \in Worker : HandOver(j, w))
    /\ \A w \in Worker : WF_vars(WorkerPatches(w))
    /\ WF_vars(\E p \in Pod : PodCreated(p))
    /\ \A p \in Pod, o \in Origin : WF_vars(WaiterRuns(p, o))

Spec == Init /\ [][Next]_vars

FairSpec == Spec /\ Fairness

-----------------------------------------------------------------------------

ControllerTypes ==
    /\ usage \in [Controller -> [Image -> Seq(Pod)]]
    /\ scan \in [Scan -> [pc : {"none", "stored", "apply", "reported"},
            by : Controller \cup {None}, image : PullSpec \cup {None},
            count : Count \cup {None}, pods : Seq(Pod)]]
    /\ \A x \in Scan :
        /\ scan[x].pc = "stored" => scan[x].by # None /\ scan[x].image # None
        /\ scan[x].pc = "apply" => scan[x].pods # <<>>

\* Type invariant.  A worker that patches has a pod to patch, the arbiter's and
\* the controllers'.
TypeOK ==
    /\ main \in {"getImages", "getPods", "register", "round", "watch"}
    /\ listed \subseteq Pod \X Phase
    /\ images \subseteq ScanImage
    /\ imageUsage \in [Image -> Seq(Pod)]
    /\ round \in [{"load", "ticker"} -> [pc : {"idle", "images", "pods"},
                    todo : SUBSET (ScanImage \cup Image), slot : 0..MaxRounds]]
    /\ dispatching \subseteq Job
    /\ \A w \in Worker :
        /\ worker[w].pc \in {"pool", "results", "apply"}
        /\ worker[w].job \in Job \cup {NoJob}
        /\ worker[w].count \in Count \cup {None}
        /\ worker[w].pods \in Seq(Pod)
        /\ worker[w].pc = "apply" => worker[w].pods # <<>>
    /\ \A g \in Pod \X Origin :
        /\ task[g].pc \in {"none", "wait", "waited", "process"}
        /\ task[g].left \in Seq(Image)
    /\ announced \subseteq Pod
    /\ pod \in [Pod -> Phase]
    /\ label \in [Pod -> Count \cup {None}]
    /\ hub \in [PullSpec -> Count \cup {None}]
    /\ missed \subseteq Pod
    /\ ControllerTypes
    /\ events \in 0..MaxEvents

Pool == INSTANCE JobPool WITH
    JobId   <- Job,
    pending <- dispatching,
    running <- [w \in Worker |-> IF worker[w].job = NoJob THEN None ELSE worker[w].job]

\* The arbiter's dispatcher and workers are a job pool as well, one that
\* forgets its jobs in a crash.
ServesAsPool ==
    Pool!Init /\ [][Pool!Next \/ Crash]_<<dispatching, Pool!vars>>

\* A round ends, Load's and the ticker's, even if the Hub does not answer and
\* no job ever ends: jobs pile up in goroutines, and nobody waits for them.
RoundsEnd ==
    []<>(\A s \in {"load", "ticker"} : round[s].pc = "idle")

\* Every call to the Hub returns.
HubAnswers == \A w \in Worker : []<>(worker[w].pc # "results")

ImagesOf(p) == Range(Containers[p]) \cap PullSpec

\* A pod that is gone stays in imageUsage, and its patch fails before it is
\* p's turn.
Blocked(p, i) ==
    \E k \in 1..Len(imageUsage[i]) :
        /\ pod[imageUsage[i][k]] = "gone"
        /\ \A n \in 1..k : imageUsage[i][n] # p

\* The informer has announced the pod, its waitPodRunning has met a failing
\* call, and Load has not registered it either.
Missed(p, i) == p \in missed /\ p \notin Range(imageUsage[i])

\* A running pod of an image that the Hub has results for carries results of
\* one of its images.
Labelled(p, i) ==
    pod[p] = "running" /\ hub[i] # None => label[p] \in {hub[j] : j \in ImagesOf(p)} \ {None}

\* Whenever pods and images appear, jobs overtake one another, calls fail, the
\* arbiter is restarted and controllers patch older results over newer ones: if
\* the Hub answers, a running pod comes to carry the Hub's results for its
\* image, or for one of them if it has several.  There are two exceptions, each
\* of which is a disagreement with what the repository says of itself:
\* AllPodsFollowHub.
PodsFollowHub ==
    HubAnswers => <>[](\A p \in Pod : \A i \in ImagesOf(p) :
        ~Missed(p, i) /\ ~Blocked(p, i) => Labelled(p, i))

\* The arbiter is there for "ensuring CVE and policy status are consistent
\* between the OpenShift Cluster and Hub", for all pods.  Violated: the patch of
\* a pod that is gone fails in every round, and ends the job before the pods
\* registered after it have had their turn; and nobody looks again at a pod
\* whose waitPodRunning met a failing call.
AllPodsFollowHub ==
    HubAnswers => <>[](\A p \in Pod : \A i \in ImagesOf(p) : Labelled(p, i))
=============================================================================
