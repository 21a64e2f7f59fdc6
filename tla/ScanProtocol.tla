----------------------------- MODULE ScanProtocol -----------------------------
(***************************************************************************)
(* The arbiter together with the controllers it serves: every controller   *)
(* is a process with a main goroutine that sends one heartbeat before it   *)
(* starts its workers (Controller.Start), and workers that take jobs and   *)
(* run RequestScanAuthorization (controller/pkg/controller/worker.go) over *)
(* the HTTP client of arbiterinterface.go.                                 *)
(*                                                                         *)
(* A client blocks on its call, so it has at most one connection.  When    *)
(* the call fails, the arbiter may never have seen the request, or may     *)
(* still be serving it: the connection is then an orphan.  What can go     *)
(* wrong in a run is chosen by Faults:                                     *)
(*   "lossy"    an HTTP call fails or its body is cut short                *)
(*   "crash"    a controller's pod dies and is started again               *)
(*   "restart"  the arbiter's pod dies and is started again                *)
(*   "requeue"  an image is queued again while a job for it may still run  *)
(*   "notify"   the arbiter's notification job reports on an image         *)
(*   "remove"   an image is deleted from the cluster or from a node        *)
(*   "abort"    a scan fails                                               *)
(* At most MaxFaults of these events happen in a behaviour.                *)
(***************************************************************************)
EXTENDS Arbiter

CONSTANTS
    Worker,     \* the workers of all controllers
    HostOf,     \* the controller each worker belongs to
    OnNode,     \* the images present on each controller's node
    Faults,     \* the kinds of fault that can happen
    MaxFaults   \* bound on their number

ASSUME WorkersAssumption ==
    /\ Worker \cap Controller = {}
    /\ HostOf \in [Worker -> Controller]
    /\ OnNode \in [Controller -> SUBSET ImageSpec]
    /\ \A c \in Controller :
          /\ IsFiniteSet({w \in Worker : HostOf[w] = c})
          /\ WorkerCount[c] = Cardinality({w \in Worker : HostOf[w] = c})
    /\ MaxFaults \in Nat

Client == Worker \cup Controller

Host(x) == IF x \in Controller THEN x ELSE HostOf[x]

VARIABLES
    queue,      \* Controller.jobQueue: the images with a job waiting
    client,     \* where each goroutine stands, and its call in progress
    annotated,  \* images whose annotations carry scan results
    completed,  \* history: images some worker has scanned to the end
    notifying,  \* result a notification job has computed and not yet stored
    faultsLeft  \* how many more faults can happen

clientVars == <<queue, client, annotated, completed, notifying, faultsLeft>>

protocolVars == <<vars, clientVars>>

\* "boot" and "up" are the main goroutine's; "idle" is a worker waiting for a
\* job, "scan" one whose scanner container runs, the others are calls.
CallState == {"boot", "heartbeat", "alert", "request", "done", "abort"}

ClientState ==
    [pc   : CallState \cup {"idle", "scan", "up"},
     spec : ImageSpec \cup {None},
     hash : Hash \cup {None},
     conn : Conn \cup {None}]

Booting == [pc |-> "boot", spec |-> None, hash |-> None, conn |-> None]

NoJob == [Booting EXCEPT !.pc = "idle"]

InitClients ==
    /\ queue = OnNode
    /\ client = [x \in Client |-> IF x \in Controller THEN Booting ELSE NoJob]
    /\ annotated = {}
    /\ completed = {}
    /\ notifying = [s \in ImageSpec |-> None]
    /\ faultsLeft = MaxFaults

ProtocolInit == Init /\ InitClients

-----------------------------------------------------------------------------

Fault(kind) ==
    /\ kind \in Faults
    /\ faultsLeft > 0
    /\ faultsLeft' = faultsLeft - 1

\* The request a client at pc sends.
RequestOf(x) ==
    LET p == client[x]
    IN  CASE p.pc \in {"boot", "heartbeat"} ->
                [op |-> "heartbeat", id |-> Host(x), spec |-> None, hash |-> None]
          [] p.pc = "alert" ->
                [op |-> "found", id |-> Host(x), spec |-> p.spec, hash |-> None]
          [] p.pc = "request" ->
                [op |-> "request", id |-> Host(x), spec |-> p.spec, hash |-> None]
          [] OTHER ->
                [op |-> p.pc, id |-> Host(x), spec |-> None, hash |-> p.hash]

\* Mutant: requestImage's results are taken in the wrong order.
AfterReplySwapped(p, reply, hash) ==
    LET go(pc) == [p EXCEPT !.pc = pc, !.conn = None]
    IN  CASE p.pc = "boot"      -> go("up")
          [] p.pc = "heartbeat" -> go("alert")
          [] p.pc = "alert"     -> IF reply = "Created" THEN go("request") ELSE NoJob
          [] p.pc = "request" /\ reply = "Start" -> [go("scan") EXCEPT !.hash = reply]
          [] p.pc = "request" /\ reply = "Wait" -> go("request")
          [] OTHER -> NoJob

\* What the client is once heartbeat, alertImage, requestImage, scanDone or
\* abortScan has returned with a response: heartbeat takes any response for a
\* success, alertImage wants 201, requestImage 200, the others ignore it.
AfterReply(p, reply, hash) ==
    LET go(pc) == [p EXCEPT !.pc = pc, !.conn = None]
    IN  CASE p.pc = "boot"      -> go("up")
          [] p.pc = "heartbeat" -> go("alert")
          [] p.pc = "alert"     -> IF reply = "Created" THEN go("request") ELSE NoJob
          [] p.pc = "request" /\ reply = "Start" ->
                [go("scan") EXCEPT !.hash = hash]
          [] p.pc = "request" /\ reply = "Wait" -> go("request")
          [] OTHER -> NoJob

\* ... and with an error: only the worker's heartbeat is tried again.
AfterError(p) ==
    CASE p.pc = "boot"      -> [p EXCEPT !.pc = "up", !.conn = None]
      [] p.pc = "heartbeat" -> [p EXCEPT !.conn = None]
      [] OTHER              -> NoJob

\* A connection no client waits on.
Orphan(k) == \A x \in Client : client[x].conn # k

\* dispatcher and Worker.Start: an idle worker receives a job.
TakeJob(w) ==
    /\ client[w].pc = "idle"
    /\ client[HostOf[w]].pc = "up"
    /\ \E s \in queue[HostOf[w]] :
        /\ queue' = [queue EXCEPT ![HostOf[w]] = @ \ {s}]
        /\ client' = [client EXCEPT ![w] = [NoJob EXCEPT !.pc = "heartbeat", !.spec = s]]
    /\ UNCHANGED <<vars, annotated, completed, notifying, faultsLeft>>

\* image.exists() is false or the image is gone from the controller's map:
\* the job is dropped.
DropJob(w) ==
    /\ Fault("remove")
    /\ client[w].pc = "idle"
    /\ client[HostOf[w]].pc = "up"
    /\ \E s \in queue[HostOf[w]] : queue' = [queue EXCEPT ![HostOf[w]] = @ \ {s}]
    /\ UNCHANGED <<vars, client, annotated, completed, notifying>>

\* client.Do: the request reaches the arbiter.
Call(x) ==
    /\ client[x].pc \in CallState
    /\ client[x].conn = None
    /\ \E k \in Conn :
        /\ Orphan(k)
        /\ Receive(k, RequestOf(x))
        /\ client' = [client EXCEPT ![x].conn = k]
    /\ UNCHANGED <<queue, annotated, completed, notifying, faultsLeft>>

\* The response reaches the client.
Return(x) ==
    LET k == client[x].conn
    IN  /\ k # None
        /\ Close(k)
        /\ client' = [client EXCEPT ![x] =
                AfterReply(@, handler[k].reply, handler[k].hash)]
        /\ UNCHANGED <<queue, annotated, completed, notifying, faultsLeft>>

\* The call fails: before the request left, while it is served, or on the way
\* back.
CallFails(x) ==
    /\ Fault("lossy")
    /\ client[x].pc \in CallState
    /\ client' = [client EXCEPT ![x] = AfterError(@)]
    /\ UNCHANGED <<vars, queue, annotated, completed, notifying>>

\* requestImage ignores the decoder's error: a body cut short reads as the
\* zero imageResult, neither start nor skip.
ReplyGarbled(x) ==
    LET k == client[x].conn
    IN  /\ Fault("lossy")
        /\ k # None
        /\ client[x].pc = "request"
        /\ handler[k].reply \in {"Start", "Skip", "Wait"}
        /\ Close(k)
        /\ client' = [client EXCEPT ![x] = AfterReply(@, "Wait", None)]
        /\ UNCHANGED <<queue, annotated, completed, notifying>>

\* The arbiter finishes with a connection whose client is gone.
CloseOrphan(k) ==
    /\ Orphan(k)
    /\ Close(k)
    /\ UNCHANGED clientVars

\* image.scan() returns results; UpdateImageAnnotationInfo then stores them, or
\* fails (an image outside any ImageStream has no annotations to update), the
\* pods of the image are patched, which changes nothing here (modules
\* Annotations and Notification), and in any case the scan is reported done.
\* A worker that dies on the way is a crash of its controller.
ScanCompletes(w) ==
    /\ client[w].pc = "scan"
    /\ client' = [client EXCEPT ![w].pc = "done"]
    /\ completed' = completed \cup {client[w].spec}
    /\ annotated' \in {annotated, annotated \cup {client[w].spec}}
    /\ UNCHANGED <<vars, queue, notifying, faultsLeft>>

\* Mutant: the worker does not look at completed.
ScanFailsDone(w) ==
    /\ Fault("abort")
    /\ client[w].pc = "scan"
    /\ client' = [client EXCEPT ![w].pc = "done"]
    /\ UNCHANGED <<vars, queue, annotated, completed, notifying>>

\* The container fails, or the scan reached the Hub and its results could not be
\* read: such a scan has not completed for this worker, and is aborted as well.
ScanFails(w) ==
    /\ Fault("abort")
    /\ client[w].pc = "scan"
    /\ client' = [client EXCEPT ![w].pc = "abort"]
    /\ UNCHANGED <<vars, queue, annotated, completed, notifying>>

-----------------------------------------------------------------------------

\* A controller dies with its workers; its pod starts again under the same
\* host name and loads the images of its node that are not annotated.
ControllerRestart(c) ==
    /\ Fault("crash")
    /\ client' = [x \in Client |->
            IF Host(x) # c THEN client[x] ELSE IF x = c THEN Booting ELSE NoJob]
    /\ queue' = [queue EXCEPT ![c] = OnNode[c] \ annotated]
    /\ UNCHANGED <<vars, annotated, completed, notifying>>

\* Every call in progress fails with the connection.
ArbiterRestart ==
    /\ Fault("restart")
    /\ Restart
    /\ client' = [x \in Client |->
            IF client[x].conn = None THEN client[x] ELSE AfterError(client[x])]
    /\ notifying' = [s \in ImageSpec |-> None]
    /\ UNCHANGED <<queue, annotated, completed>>

\* Controller.AddImage: the watcher, or a pod, brings the same pull spec under
\* another image id; a job is queued unless the annotations say it is scanned.
Requeue(c, s) ==
    /\ Fault("requeue")
    /\ s \in OnNode[c] \ (queue[c] \cup annotated)
    /\ queue' = [queue EXCEPT ![c] = @ \cup {s}]
    /\ UNCHANGED <<vars, client, annotated, completed, notifying>>

\* ProcessScanImage: what the notification job makes of the annotations.  No
\* annotations, or any error on the way to the Hub, and the result is false.
NotifyRead(s) ==
    /\ Fault("notify")
    /\ images[s] # "absent"
    /\ notifying[s] = None
    /\ \E result \in {"true", "false"} :
        /\ result = "true" => s \in annotated
        /\ notifying' = [notifying EXCEPT ![s] = result]
    /\ UNCHANGED <<vars, queue, client, annotated, completed>>

\* job.Done: the result is stored some time later.
NotifyDone(s) ==
    /\ notifying[s] # None
    /\ DoneScan(s, notifying[s] = "true")
    /\ notifying' = [notifying EXCEPT ![s] = None]
    /\ UNCHANGED <<queue, client, annotated, completed, faultsLeft>>

ImageAdded(s) ==
    /\ addImage(s)
    /\ UNCHANGED clientVars

ImageRemoved(s) ==
    /\ Fault("remove")
    /\ RemoveImage(s)
    /\ UNCHANGED <<queue, client, annotated, completed, notifying>>

ArbiterServes(k) == Serve(k) /\ UNCHANGED clientVars

-----------------------------------------------------------------------------

ProtocolNext ==
    \/ \E w \in Worker :
        TakeJob(w) \/ DropJob(w) \/ ScanCompletes(w) \/ ScanFails(w)
    \/ \E x \in Client :
        Call(x) \/ Return(x) \/ CallFails(x) \/ ReplyGarbled(x)
    \/ \E k \in Conn : ArbiterServes(k) \/ CloseOrphan(k)
    \/ \E c \in Controller :
        ControllerRestart(c) \/ \E s \in ImageSpec : Requeue(c, s)
    \/ ArbiterRestart
    \/ \E s \in ImageSpec :
        NotifyRead(s) \/ NotifyDone(s) \/ ImageAdded(s) \/ ImageRemoved(s)

\* Goroutines that can run do run, calls are answered, and a scan comes to an
\* end; faults need not happen.
Fairness ==
    /\ \A w \in Worker :
        /\ WF_protocolVars(TakeJob(w))
        /\ WF_protocolVars(ScanCompletes(w) \/ ScanFails(w))
    /\ \A x \in Client : WF_protocolVars(Call(x)) /\ WF_protocolVars(Return(x))
    /\ \A k \in Conn : WF_protocolVars(ArbiterServes(k)) /\ WF_protocolVars(CloseOrphan(k))

ProtocolSpec == ProtocolInit /\ [][ProtocolNext]_protocolVars

FairProtocolSpec == ProtocolSpec /\ Fairness

-----------------------------------------------------------------------------

\* Type invariant: the state of the controllers.
ProtocolTypeOK ==
    /\ TypeOK
    /\ queue \in [Controller -> SUBSET ImageSpec]
    /\ client \in [Client -> ClientState]
    /\ annotated \subseteq ImageSpec
    /\ completed \subseteq ImageSpec
    /\ notifying \in [ImageSpec -> {"true", "false", None}]
    /\ faultsLeft \in 0..MaxFaults

Scanning(s) == {w \in Worker : client[w].pc = "scan" /\ client[w].spec = s}

\* An image is never scanned by two workers at the same time: findWorker hands
\* it to one controller, and foundImage turns that controller's other workers
\* away.  Calls may fail and controllers may crash.
MutualExclusion ==
    \A s \in ImageSpec : Cardinality(Scanning(s)) <= 1

\* A worker that scans, or is about to report, holds the arbiter's assignment:
\* no late, orphaned or repeated message of anyone takes it away.
ScannerHoldsAssignment ==
    \A w \in Worker :
        (client[w].pc \in {"scan", "done", "abort"} /\ client[w].conn = None)
            => assignedImages[client[w].hash] =
                    [ControllerID |-> HostOf[w], ImageSpec |-> client[w].spec]

\* The arbiter "ensures it's only scanned once": no worker starts to scan an
\* image that has been scanned to the end.  It takes a late notification job,
\* or a removal, to break this: ScannedTwice.cfg.
ScannedOnce ==
    [][\A w \in Worker :
        (client[w].pc # "scan" /\ client'[w].pc = "scan")
            => client'[w].spec \notin completed]_protocolVars

\* The two ledgers agree: a controller's daemon counts a worker busy with an
\* image exactly when the arbiter's map assigns the image to the controller.
LedgersAgree ==
    \A c \in Controller, s \in ImageSpec :
        (controllerDaemons[c] # None /\ s \in daemon[controllerDaemons[c]].assignedScans)
            <=> assignedImages[Md5[s]] = [ControllerID |-> c, ImageSpec |-> s]

\* Some worker of c is going to report on s, or learns from a response on its
\* way that it is to scan it.
Answers(c, s) ==
    \E w \in Worker :
        /\ HostOf[w] = c
        /\ client[w].spec = s
        /\ \/ client[w].pc \in {"scan", "done", "abort"}
           \/ /\ client[w].pc = "request"
              /\ client[w].conn # None
              /\ handler[client[w].conn].reply = "Start"

\* No Hub job slot leaks: for every assignment there is a worker that will end
\* it.  (Without failing calls, crashes and restarts: scanDone and abortScan
\* are sent once, and nothing in the arbiter expires.)
NoLeakedSlot ==
    \A h \in Hash : assignedImages[h] # None =>
        Answers(assignedImages[h].ControllerID, assignedImages[h].ImageSpec)

\* Every job a worker takes comes to an end: polling for an image another
\* controller scans, or for a free Hub slot, is not forever.  The one exception
\* is an image that was removed from the arbiter's map while it was requested:
\* its controllers are told to wait until somebody adds it again.
EveryJobEnds ==
    \A w \in Worker :
        \/ []<>(client[w].pc = "idle")
        \/ <>[](client[w].pc # "idle" /\ images[client[w].spec] = "absent")

\* Every image present on more nodes than scans can fail is eventually scanned,
\* and stays so, unless it is removed: an aborted scan is back in the arbiter's
\* queue and falls to a controller that still asks for it.
EveryImageScanned ==
    \A s \in ImageSpec :
        Cardinality({c \in Controller : s \in OnNode[c]}) > MaxFaults
            => \/ <>[](images[s] = "scanned")
               \/ <>(images[s] # "absent" /\ <>(images[s] = "absent"))

\* Every assignment is given back: a Hub job slot that is taken becomes free.
\* Violated if a controller crashes: CrashedController.cfg.
EverySlotFreed ==
    \A h \in Hash : assignedImages[h] # None ~> assignedImages[h] = None

\* The arbiter takes an image for scanned only if some worker has scanned it to
\* the end, whatever is lost, repeated, delayed, restarted or removed.
NoFalseScanned ==
    \A s \in ImageSpec : images[s] = "scanned" => s \in completed
=============================================================================
