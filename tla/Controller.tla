------------------------------- MODULE Controller -------------------------------
(***************************************************************************)
(* One controller's image map and job queue: Controller.AddImage,          *)
(* RemoveImage, queueImage and imageScanned of controller.go, dispatch of  *)
(* dispatcher.go, and the loop of worker.go around the conversation with   *)
(* the arbiter, which module ScanProtocol models and which is one state,   *)
(* "scan", here.                                                           *)
(*                                                                         *)
(* The main goroutine (Load), the informers of watcher.go and one          *)
(* goroutine for each pending pod (waitPodRunning) call AddImage at the    *)
(* same time.  AddImage holds the controller's mutex while it asks the     *)
(* Docker engine and OpenShift about the image, and while it sends on the  *)
(* bounded jobQueue; the workers, who empty the queue, take the same mutex *)
(* in imageScanned.                                                        *)
(***************************************************************************)
EXTENDS Integers, Sequences, FiniteSets

CONSTANTS
    Reference,  \* pull specs
    Id,         \* image ids, without "sha256:"
    SpecIds,    \* the ids the engine can resolve each pull spec, or its tag, to
    Announce,   \* what callers announce: a pull spec and an id, prefixed or not
    Caller,     \* goroutines that call AddImage and RemoveImage
    Worker,     \* the controller's workers
    MaxCalls,   \* bound on the calls of all callers
    MaxChurn,   \* bound on changes of the engine's images
    None

ASSUME ControllerAssumption ==
    /\ SpecIds \in [Reference -> SUBSET Id]
    /\ Announce \subseteq [ref : Reference, hex : Id, prefixed : BOOLEAN]
    /\ IsFiniteSet(Worker) /\ Worker # {}
    /\ MaxCalls \in Nat /\ MaxChurn \in Nat
    /\ None \notin Reference \cup Id \cup Caller
    /\ None \notin Reference \X (1..MaxCalls)

VARIABLES
    images,         \* c.images: pull spec -> imageId of its ScanImage
    lock,           \* the caller that holds the controller's mutex
    jobQueue,       \* c.jobQueue, a channel of capacity Workers
    dispatching,    \* jobs of the goroutines dispatch has started
    worker,         \* where each worker stands, and its job
    wait,           \* the counter of c.wait
    caller,         \* where each caller stands
    engine,         \* ids the node's Docker engine has
    annotated,      \* pull specs whose annotations say they are scanned
    created,        \* how many jobs each pull spec has had
    asked,          \* history: images a worker went to the arbiter with
    unsteady,       \* history: pull specs removed, or seen under a second id
    calls, churn    \* how many calls and engine changes are left

vars == <<images, lock, jobQueue, dispatching, worker, wait, caller, engine,
          annotated, created, asked, unsteady, calls, churn>>

Job == [ref : Reference, id : Id, n : 1..MaxCalls]

NoJob == [ref |-> None, id |-> None, n |-> 0]

\* id is the announced id; old the imageId of an original that still exists.
CallerState ==
    [pc : {"idle", "lock", "validate", "send", "remove"},
     ref : Reference \cup {None}, id : Id \cup {None}, prefixed : BOOLEAN,
     old : Id \cup {None}]

WorkerState == [pc : {"pool", "exists", "check", "scan", "done"}, job : Job \cup {NoJob}]

Idle == [pc |-> "idle", ref |-> None, id |-> None, prefixed |-> FALSE, old |-> None]

Free == [pc |-> "pool", job |-> NoJob]

Init ==
    /\ images = [r \in Reference |-> None]
    /\ lock = None
    /\ jobQueue = <<>>
    /\ dispatching = {}
    /\ worker = [w \in Worker |-> Free]
    /\ wait = 0
    /\ caller = [a \in Caller |-> Idle]
    /\ engine \in SUBSET UNION {SpecIds[r] : r \in Reference}
    /\ annotated = {}
    /\ created = [r \in Reference |-> 0]
    /\ asked = {}
    /\ unsteady = {}
    /\ calls = MaxCalls
    /\ churn = MaxChurn

-----------------------------------------------------------------------------
(***************************************************************************)
(* Callers.                                                                *)
(***************************************************************************)

queueVars == <<jobQueue, dispatching, worker>>

\* getImages, processPod, ImageAdded and ImageUpdated announce an image.  A
\* pull spec announced under a second id is no longer steady.
Announces(a, i) ==
    /\ caller[a].pc = "idle"
    /\ calls > 0
    /\ calls' = calls - 1
    /\ caller' = [caller EXCEPT ![a] = [pc |-> "lock", ref |-> i.ref, id |-> i.hex,
                                        prefixed |-> i.prefixed, old |-> None]]
    /\ unsteady' = IF i.hex \in engine /\ images[i.ref] \in {None, i.hex}
                      /\ \A b \in Caller : caller[b].ref = i.ref => caller[b].id = i.hex
                   THEN unsteady
                   ELSE unsteady \cup {i.ref}
    /\ UNCHANGED <<queueVars, images, lock, wait, engine, annotated, created, asked, churn>>

\* AddImage up to newScanImage.  The announced id is compared as it came with
\* the stored one, which newScanImage has stripped of "sha256:".
AddImage(a) ==
    LET p   == caller[a]
        old == images[p.ref]
    IN  /\ p.pc = "lock"
        /\ lock = None
        /\ IF old # None /\ ~p.prefixed /\ p.id = old
           THEN /\ caller' = [caller EXCEPT ![a] = Idle]
                /\ UNCHANGED <<lock, images>>
           ELSE /\ lock' = a
                /\ caller' = [caller EXCEPT ![a].pc = "validate",
                                            ![a].old = IF old \in engine THEN old ELSE None]
                /\ images' = IF old \in engine THEN images
                             ELSE [images EXCEPT ![p.ref] = None]
        /\ UNCHANGED <<queueVars, wait, engine, annotated, created, asked, unsteady, calls, churn>>

\* newScanImage returns no image: neither id nor pull spec is in the engine.
valid(p) == ({p.id} \cup SpecIds[p.ref]) \cap engine # {}

\* IsImageStreamScanNeeded: an error of the API counts as yes, and with
\* OSE_KUBERNETES_CONNECTOR the answer is always yes.  (A controller without an
\* OpenShift client does not get this far: main exits.)
ScanNeeded(r) == {TRUE} \cup (IF r \in annotated THEN {FALSE} ELSE {})

\* Mutant: an original that still exists is always replaced.
ReplacesAlways(p) == TRUE

\* A new image, or one whose original is gone or has another id.  (scanned is
\* never set on an image in the map: scan() works on a copy.)
Replaces(p) == p.old = None \/ p.old # p.id

\* Mutant: job.Load is forgotten.
queueImageUnloaded(a) ==
    LET p == caller[a]
    IN  /\ p.pc = "validate"
        /\ valid(p)
        /\ images' = [images EXCEPT ![p.ref] = p.id]
        /\ created' = [created EXCEPT ![p.ref] = @ + 1]
        /\ caller' = [caller EXCEPT ![a].pc = "send"]
        /\ UNCHANGED <<queueVars, lock, wait, engine, annotated, asked, unsteady, calls, churn>>

\* The rest of AddImage, and queueImage up to the send.
queueImage(a) ==
    LET p == caller[a]
    IN  /\ p.pc = "validate"
        /\ \E needed \in ScanNeeded(p.ref) :
            IF valid(p) /\ Replaces(p) /\ needed
            THEN /\ images' = [images EXCEPT ![p.ref] = p.id]
                 /\ wait' = wait + 1
                 /\ created' = [created EXCEPT ![p.ref] = @ + 1]
                 /\ caller' = [caller EXCEPT ![a].pc = "send"]
                 /\ UNCHANGED lock
            ELSE /\ caller' = [caller EXCEPT ![a] = Idle]
                 /\ lock' = None
                 /\ UNCHANGED <<images, wait, created>>
        /\ UNCHANGED <<queueVars, engine, annotated, asked, unsteady, calls, churn>>

\* The job a caller at "send" wants to queue.
JobOf(a) ==
    [ref |-> caller[a].ref, id |-> caller[a].id, n |-> created[caller[a].ref]]

\* c.jobQueue <- job, which blocks while the channel is full; then the mutex
\* is released.
Send(a) ==
    /\ caller[a].pc = "send"
    /\ Len(jobQueue) < Cardinality(Worker)
    /\ jobQueue' = Append(jobQueue, JobOf(a))
    /\ caller' = [caller EXCEPT ![a] = Idle]
    /\ lock' = None
    /\ UNCHANGED <<images, dispatching, worker, wait, engine, annotated, created,
                   asked, unsteady, calls, churn>>

\* ImageDeleted of the watcher.
Removes(a, r) ==
    /\ caller[a].pc = "idle"
    /\ calls > 0
    /\ calls' = calls - 1
    /\ caller' = [caller EXCEPT ![a].pc = "remove", ![a].ref = r]
    /\ unsteady' = unsteady \cup {r}
    /\ UNCHANGED <<queueVars, images, lock, wait, engine, annotated, created, asked, churn>>

RemoveImage(a) ==
    /\ caller[a].pc = "remove"
    /\ lock = None
    /\ images' = [images EXCEPT ![caller[a].ref] = None]
    /\ caller' = [caller EXCEPT ![a] = Idle]
    /\ UNCHANGED <<queueVars, lock, wait, engine, annotated, created, asked, unsteady, calls, churn>>

-----------------------------------------------------------------------------
(***************************************************************************)
(* The dispatcher and the workers.                                         *)
(***************************************************************************)

sourceVars == <<images, lock, caller, engine, created, unsteady, calls, churn>>

\* Mutant: the dispatcher waits for a worker itself.
dispatchInline ==
    /\ jobQueue # <<>>
    /\ dispatching = {}
    /\ dispatching' = {Head(jobQueue)}
    /\ jobQueue' = Tail(jobQueue)
    /\ UNCHANGED <<sourceVars, worker, wait, annotated, asked>>

\* Every job gets a goroutine of its own that waits for a worker.
dispatch ==
    /\ jobQueue # <<>>
    /\ dispatching' = dispatching \cup {Head(jobQueue)}
    /\ jobQueue' = Tail(jobQueue)
    /\ UNCHANGED <<sourceVars, worker, wait, annotated, asked>>

\* Mutant: the goroutine offers its job again.
HandOverKept(j, w) ==
    /\ j \in dispatching
    /\ worker[w].pc = "pool"
    /\ worker' = [worker EXCEPT ![w] = [pc |-> "exists", job |-> j]]
    /\ UNCHANGED <<sourceVars, jobQueue, dispatching, wait, annotated, asked>>

\* workerJobQueue := <-d.workerPool; workerJobQueue <- job
HandOver(j, w) ==
    /\ j \in dispatching
    /\ worker[w].pc = "pool"
    /\ dispatching' = dispatching \ {j}
    /\ worker' = [worker EXCEPT ![w] = [pc |-> "exists", job |-> j]]
    /\ UNCHANGED <<sourceVars, jobQueue, wait, annotated, asked>>

\* Mutant: a job that is dropped is done twice.
existsDone(w) ==
    /\ worker[w].pc = "exists"
    /\ worker[w].job.id \notin engine
    /\ wait' = wait - 1
    /\ worker' = [worker EXCEPT ![w].pc = "done"]
    /\ UNCHANGED <<sourceVars, jobQueue, dispatching, annotated, asked>>

\* Mutant: a job that is dropped is never done.
existsFree(w) ==
    /\ worker[w].pc = "exists"
    /\ worker' = [worker EXCEPT ![w] =
            IF worker[w].job.id \in engine THEN [@ EXCEPT !.pc = "check"] ELSE Free]
    /\ UNCHANGED <<sourceVars, jobQueue, dispatching, wait, annotated, asked>>

\* image.exists()
exists(w) ==
    /\ worker[w].pc = "exists"
    /\ worker' = [worker EXCEPT ![w].pc =
            IF worker[w].job.id \in engine THEN "check" ELSE "done"]
    /\ UNCHANGED <<sourceVars, jobQueue, dispatching, wait, annotated, asked>>

\* Mutant: an image in the map counts as scanned.
imageScannedKnown(r) == images[r] # None

\* What Controller.imageScanned returns: an image that is not in the map any
\* more counts as scanned.
imageScanned(r) == images[r] = None

CheckScanned(w) ==
    LET j == worker[w].job
    IN  /\ worker[w].pc = "check"
        /\ lock = None
        /\ IF imageScanned(j.ref)
           THEN /\ worker' = [worker EXCEPT ![w].pc = "done"]
                /\ UNCHANGED asked
           ELSE /\ worker' = [worker EXCEPT ![w].pc = "scan"]
                /\ asked' = asked \cup {<<j.ref, j.id>>}
        /\ UNCHANGED <<sourceVars, jobQueue, dispatching, wait, annotated>>

\* The rest of RequestScanAuthorization; a scan may annotate the image.  That
\* the worker then patches pods, and reads imageUsage while it may be written,
\* is in module Notification; a process that dies of it stops here.
ScanEnds(w) ==
    /\ worker[w].pc = "scan"
    /\ worker' = [worker EXCEPT ![w].pc = "done"]
    /\ annotated' \in {annotated, annotated \cup {worker[w].job.ref}}
    /\ UNCHANGED <<sourceVars, jobQueue, dispatching, wait, asked>>

\* job.Done(), and the worker offers itself to the dispatcher again.
Done(w) ==
    /\ worker[w].pc = "done"
    /\ wait' = wait - 1
    /\ worker' = [worker EXCEPT ![w] = Free]
    /\ UNCHANGED <<sourceVars, jobQueue, dispatching, annotated, asked>>

-----------------------------------------------------------------------------

\* The node's images come and go.  A pull spec known, or being announced, under
\* the id of such an image is no longer steady.
EngineChanges(i) ==
    /\ churn > 0
    /\ churn' = churn - 1
    /\ engine' = IF i \in engine THEN engine \ {i} ELSE engine \cup {i}
    /\ unsteady' = unsteady \cup {r \in Reference :
            images[r] = i \/ \E b \in Caller : caller[b].ref = r /\ caller[b].id = i}
    /\ UNCHANGED <<queueVars, images, lock, wait, caller, annotated, created, asked, calls>>

Next ==
    \/ \E a \in Caller :
        \/ \E i \in Announce : Announces(a, i)
        \/ AddImage(a)
        \/ queueImage(a)
        \/ Send(a)
        \/ \E r \in Reference : Removes(a, r)
        \/ RemoveImage(a)
    \/ dispatch
    \/ \E w \in Worker :
        \/ \E j \in dispatching : HandOver(j, w)
        \/ exists(w)
        \/ CheckScanned(w)
        \/ ScanEnds(w)
        \/ Done(w)
    \/ \E i \in UNION {SpecIds[r] : r \in Reference} : EngineChanges(i)

\* The scheduler runs every goroutine that can run.  A scan need not end.
Fairness ==
    /\ \A a \in Caller :
        /\ WF_vars(AddImage(a)) /\ WF_vars(queueImage(a))
        /\ WF_vars(Send(a)) /\ WF_vars(RemoveImage(a))
    /\ WF_vars(dispatch)
    /\ \A w \in Worker :
        /\ WF_vars(\E j \in dispatching : HandOver(j, w))
        /\ WF_vars(exists(w)) /\ WF_vars(CheckScanned(w)) /\ WF_vars(Done(w))

Spec == Init /\ [][Next]_vars

FairSpec == Spec /\ Fairness

-----------------------------------------------------------------------------

\* Type invariant, with the capacity of the channel.
TypeOK ==
    /\ images \in [Reference -> Id \cup {None}]
    /\ lock \in Caller \cup {None}
    /\ jobQueue \in Seq(Job) /\ Len(jobQueue) <= Cardinality(Worker)
    /\ dispatching \subseteq Job
    /\ worker \in [Worker -> WorkerState]
    /\ wait \in Nat
    /\ caller \in [Caller -> CallerState]
    /\ engine \subseteq Id
    /\ annotated \subseteq Reference
    /\ created \in [Reference -> 0..MaxCalls]
    /\ asked \subseteq Reference \X Id
    /\ unsteady \subseteq Reference
    /\ calls \in 0..MaxCalls
    /\ churn \in 0..MaxChurn

Sending == {JobOf(a) : a \in {b \in Caller : caller[b].pc = "send"}}

Queued == {jobQueue[k] : k \in 1..Len(jobQueue)}

Running == {worker[w].job : w \in Worker} \ {NoJob}

\* The WaitGroup counts the jobs that are loaded and not done, wherever they
\* are: Stop waits for all of them, and Done never takes the counter below
\* zero, which would stop the process.
WaitCountsJobs ==
    wait = Cardinality(Sending \cup Queued \cup dispatching \cup Running)

\* An image that stays in the engine, known under one id and never removed, is
\* queued once however often and by whomever it is announced: the second
\* comparison in AddImage makes up for the first, which takes "sha256:" for a
\* difference.
QueuedOnce ==
    \A r \in Reference \ unsteady : created[r] <= 1

\* AddImage returns, with its mutex, even if no scan ever ends: the full
\* channel it sends on is emptied without the help of a worker.
AddImageReturns ==
    \A a \in Caller : caller[a].pc # "idle" ~> caller[a].pc = "idle"

ScansEnd == \A w \in Worker : []<>(worker[w].pc # "scan")

\* "Waiting for scan queue to drain": if scans end, the queue drains.
QueueDrains == ScansEnd => <>[](wait = 0)

\* No image is forgotten: one in the map goes to the arbiter, unless it leaves
\* the map or the engine, or is replaced, before its turn comes.
NoImageForgotten ==
    ScansEnd =>
        \A r \in Reference, i \in Id :
            images[r] = i ~> (<<r, i>> \in asked \/ images[r] # i \/ i \notin engine)

\* A job by its name: what the pool tells apart.
Named(J) == {<<j.ref, j.n>> : j \in J}

Pool == INSTANCE JobPool WITH
    JobId   <- Reference \X (1..MaxCalls),
    pending <- Named(Sending \cup Queued \cup dispatching),
    running <- [w \in Worker |-> IF worker[w].job = NoJob THEN None
                                 ELSE <<worker[w].job.ref, worker[w].job.n>>]

\* Channel, dispatcher, goroutines and workers are a job pool: every job that
\* queueImage makes is given to one worker, once, and to nobody before it is
\* queued.
ServesAsPool == Pool!Spec
=============================================================================
