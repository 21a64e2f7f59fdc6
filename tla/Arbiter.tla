-------------------------------- MODULE Arbiter --------------------------------
(***************************************************************************)
(* The arbiter's scan allocation: the maps of struct Arbiter and the HTTP  *)
(* handlers of arbiter/pkg/arbiter/controllerinterface.go that read and    *)
(* write them, together with the calls of arbiter.go that change an        *)
(* image's status.                                                         *)
(*                                                                         *)
(* net/http runs every request in a goroutine of its own, and the handlers *)
(* hold the arbiter's mutex only inside assignedImageCount, findWorker,    *)
(* saveFoundImage, finalizeScan and releaseScanForPeer.  Everything a      *)
(* handler reads before it calls one of these (its controllerDaemon, the   *)
(* assignment of a hash) may be stale when the call runs.  Each action is  *)
(* therefore one unlocked read, one unlocked write or one locked section.  *)
(*                                                                         *)
(* The environment is open: any controller may send any request at any     *)
(* time, in any order, and as often as it likes.                           *)
(***************************************************************************)
EXTENDS ControllerDaemon

CONSTANTS
    Controller,     \* controller ids (host names)
    ImageSpec,      \* pull specs
    Hash,           \* request ids, hex MD5 sums
    Md5,            \* the digest of each pull spec
    WorkerCount,    \* the workers each controller says it has
    Conn,           \* requests the HTTP server may be handling at once
    MaxHubJobs,     \* CanSendHubJobs: 7 in the code
    None            \* an absent map entry, an empty string

(***************************************************************************)
(* A controllerDaemon object is named by the controller it stands for and  *)
(* by the connection whose heartbeat created it: two concurrent first      *)
(* heartbeats create two objects, and the map keeps the later one.         *)
(***************************************************************************)
Ref == Controller \X Conn

Assignment == [ControllerID : Controller, ImageSpec : ImageSpec]

ASSUME SetsAssumption ==
    /\ IsFiniteSet(Conn)
    /\ IsFiniteSet(Hash)
    /\ IsFiniteSet(ImageSpec)
    /\ None \notin Controller \cup ImageSpec \cup Hash \cup Conn
    /\ None \notin Ref
    /\ None \notin Assignment
    /\ None \notin Daemon(ImageSpec)

ASSUME Md5Assumption ==
    /\ Md5 \in [ImageSpec -> Hash]
    /\ \A s, t \in ImageSpec : Md5[s] = Md5[t] => s = t

ASSUME CountAssumption ==
    /\ WorkerCount \in [Controller -> Nat]
    /\ MaxHubJobs \in Nat \ {0}

VARIABLES
    images,             \* arb.images: is the spec known, and is it scanned
    requestedImages,    \* arb.requestedImages: spec -> hash
    assignedImages,     \* arb.assignedImages: hash -> *assignImage
    controllerDaemons,  \* arb.controllerDaemons: id -> *controllerDaemon
    daemon,             \* the controllerDaemon objects
    handler             \* the goroutine serving each connection

vars == <<images, requestedImages, assignedImages, controllerDaemons, daemon, handler>>

tables == <<images, requestedImages, assignedImages, controllerDaemons, daemon>>

ImageStatus == {"absent", "unscanned", "scanned"}

Reply == {"Created", "OK", "NotFound", "ServerError", "TooMany", "Wait", "Skip", "Start"}

\* What a request carries, by route.
Request ==
    [op : {"heartbeat"}, id : Controller, spec : {None}, hash : {None}]
    \cup [op : {"found", "request"}, id : Controller, spec : ImageSpec, hash : {None}]
    \cup [op : {"processing", "done", "abort"}, id : Controller, spec : {None}, hash : Hash]

\* pc is the next thing the goroutine does; spec and hash also hold what it
\* looked up, cd the daemon object it found.
Handler ==
    [op    : {"heartbeat", "found", "request", "processing", "done", "abort", None},
     pc    : {"idle", "throttle", "lookup", "register", "check", "save",
              "find", "image", "commit", "replied"},
     id    : Controller \cup {None},
     spec  : ImageSpec \cup {None},
     hash  : Hash \cup {None},
     cd    : Ref \cup {None},
     reply : Reply \cup {None}]

Idle ==
    [op |-> None, pc |-> "idle", id |-> None, spec |-> None,
     hash |-> None, cd |-> None, reply |-> None]

NewArbiter ==
    /\ images = [s \in ImageSpec |-> "absent"]
    /\ requestedImages = [s \in ImageSpec |-> None]
    /\ assignedImages = [h \in Hash |-> None]
    /\ controllerDaemons = [c \in Controller |-> None]
    /\ daemon = [r \in Ref |-> None]

Init ==
    /\ NewArbiter
    /\ handler = [k \in Conn |-> Idle]

-----------------------------------------------------------------------------

At(k, pc) == handler[k].pc = pc

Goto(k, pc) == handler' = [handler EXCEPT ![k].pc = pc]

\* The response is written, and the goroutine's locals are gone.
Send(k, reply, hash) ==
    handler' = [handler EXCEPT ![k] =
        [Idle EXCEPT !.pc = "replied", !.reply = reply, !.hash = hash]]

\* len(arb.assignedImages)
assignedHashes == {h \in Hash : assignedImages[h] # None}

assignedImageCount == Cardinality(assignedHashes)

\* Mutant: one job too many.
CanSendHubJobsInclusive == assignedImageCount <= MaxHubJobs

CanSendHubJobs == assignedImageCount < MaxHubJobs

\* The router hands a request to its handler; assignScan alone asks whether
\* the Hub is busy before it looks anything up.
Receive(k, r) ==
    /\ At(k, "idle")
    /\ handler' = [handler EXCEPT ![k] =
            [op |-> r.op, pc |-> IF r.op = "request" THEN "throttle" ELSE "lookup",
             id |-> r.id, spec |-> r.spec, hash |-> r.hash,
             cd |-> None, reply |-> None]]
    /\ UNCHANGED tables

\* "Got junk on ... API": a heartbeat without an id, a found without an id, a
\* spec or an image id, a request without an id or a spec.
ReceiveJunk(k) ==
    /\ At(k, "idle")
    /\ Send(k, "NotFound", None)
    /\ UNCHANGED tables

\* assignScan: the count is read under the mutex, the mutex is released, and
\* only then does findWorker take it again.
Throttle(k) ==
    /\ At(k, "throttle")
    /\ IF CanSendHubJobs THEN Goto(k, "lookup") ELSE Send(k, "Wait", None)
    /\ UNCHANGED tables

\* Where a handler goes once it holds its controllerDaemon.
AfterLookup(op) ==
    CASE op = "found"   -> "check"
      [] op = "request" -> "find"
      [] OTHER          -> "image"

\* cd, ok := arb.controllerDaemons[id]: an unlocked read, kept in cd.
LookupKnown(k) ==
    LET q  == handler[k]
        cd == controllerDaemons[q.id]
    IN  /\ At(k, "lookup")
        /\ cd # None
        /\ IF q.op = "heartbeat"
           THEN Send(k, "Created", None)
           ELSE handler' = [handler EXCEPT ![k].cd = cd, ![k].pc = AfterLookup(q.op)]
        /\ UNCHANGED tables

LookupUnknown(k) ==
    LET q == handler[k]
    IN  /\ At(k, "lookup")
        /\ controllerDaemons[q.id] = None
        /\ CASE q.op = "heartbeat" -> Goto(k, "register")
             [] q.op = "found"     -> Send(k, "ServerError", None)
             [] OTHER              -> Send(k, "NotFound", None)
        /\ UNCHANGED tables

\* registerControllerAlive, having seen no entry: the new object replaces
\* whatever the map holds by now.
Register(k) ==
    LET c == handler[k].id
    IN  /\ At(k, "register")
        /\ daemon' = [daemon EXCEPT ![<<c, k>>] = newControllerDaemon(WorkerCount[c])]
        /\ controllerDaemons' = [controllerDaemons EXCEPT ![c] = <<c, k>>]
        /\ Send(k, "Created", None)
        /\ UNCHANGED <<images, requestedImages, assignedImages>>

\* foundImage: is the image assigned to this very controller?  The two map
\* reads are one step: an assignment without a request does not exist.
AssignedTo(s, c) ==
    /\ requestedImages[s] # None
    /\ assignedImages[requestedImages[s]] # None
    /\ assignedImages[requestedImages[s]].ControllerID = c

Check(k) ==
    LET q == handler[k]
    IN  /\ At(k, "check")
        /\ IF AssignedTo(q.spec, q.id)
           THEN Send(k, "TooMany", None)
           ELSE Goto(k, "save")
        /\ UNCHANGED tables

\* An image the arbiter has not seen is added, but only along with a new
\* request: an image removed while it is requested stays unknown.
saveFoundImage(k) ==
    LET s == handler[k].spec
        r == handler[k].cd
        h == IF requestedImages[s] = None THEN Md5[s] ELSE requestedImages[s]
    IN  /\ At(k, "save")
        /\ requestedImages' = [requestedImages EXCEPT ![s] = h]
        /\ images' = IF requestedImages[s] = None /\ images[s] = "absent"
                     THEN [images EXCEPT ![s] = "unscanned"]
                     ELSE images
        /\ daemon' = [daemon EXCEPT ![r] = AddScanRequest(daemon[r], s)]
        /\ Send(k, "Created", h)
        /\ UNCHANGED <<assignedImages, controllerDaemons>>

\* Mutant: findWorker does not ask whose the assignment is.
MayAssignTaken(s, c, r) ==
    /\ images[s] = "unscanned"
    /\ requestedImages[s] # None
    /\ AssignScanOk(daemon[r], s)

\* Mutant: findWorker does not ask whether the image is scanned.
MayAssignScanned(s, c, r) ==
    LET h == requestedImages[s]
    IN  /\ images[s] # "absent"
        /\ h # None
        /\ assignedImages[h] # None => assignedImages[h].ControllerID = c
        /\ AssignScanOk(daemon[r], s)

\* findWorker may hand s to the daemon r of controller c.
MayAssign(s, c, r) ==
    LET h == requestedImages[s]
    IN  /\ images[s] = "unscanned"
        /\ h # None
        /\ assignedImages[h] # None => assignedImages[h].ControllerID = c
        /\ AssignScanOk(daemon[r], s)

\* Mutant: the other controllers are not told that the scan is complete.
MaySkipUnqueued(s) == images[s] = "unscanned" /\ requestedImages[s] = None

\* Nothing is left to scan: "completed scan data" or "isn't in queue".
MaySkip(s) ==
    \/ images[s] = "scanned"
    \/ images[s] = "unscanned" /\ requestedImages[s] = None

findWorker(k) ==
    LET q == handler[k]
        h == requestedImages[q.spec]
    IN  /\ At(k, "find")
        /\ IF MayAssign(q.spec, q.id, q.cd)
           THEN /\ daemon' = [daemon EXCEPT ![q.cd] = AssignScan(daemon[q.cd], q.spec)]
                /\ assignedImages' = [assignedImages EXCEPT ![h] =
                        [ControllerID |-> q.id, ImageSpec |-> q.spec]]
                /\ Send(k, "Start", h)
           ELSE /\ Send(k, IF MaySkip(q.spec) THEN "Skip" ELSE "Wait", None)
                /\ UNCHANGED <<daemon, assignedImages>>
        /\ UNCHANGED <<images, requestedImages, controllerDaemons>>

\* scanDone, scanAbort and processingImage: image, ok := assignedImages[hash],
\* an unlocked read.  Whose assignment it is, nobody asks.  processingImage
\* then only sets UpdateTime, which is never read.
LookupImage(k) ==
    LET q == handler[k]
        a == assignedImages[q.hash]
    IN  /\ At(k, "image")
        /\ IF a = None
           THEN Send(k, "NotFound", None)
           ELSE IF q.op = "processing"
           THEN Send(k, "OK", None)
           ELSE handler' = [handler EXCEPT ![k].spec = a.ImageSpec, ![k].pc = "commit"]
        /\ UNCHANGED tables

\* setImageStatus: an image that is gone stays gone.
setImageStatus(s, result) ==
    images' = IF images[s] = "absent"
              THEN images
              ELSE [images EXCEPT ![s] = IF result THEN "scanned" ELSE "unscanned"]

\* The objects finalizeScan reaches through arb.controllerDaemons; the
\* reporting controller's own entry is passed over by its id.
Peers(c) == {controllerDaemons[p] : p \in Controller \ {c}} \ {None}

\* Mutant: the assignment is left in place.
finalizeScanKept(k) ==
    LET q == handler[k]
    IN  /\ At(k, "commit")
        /\ q.op = "done"
        /\ setImageStatus(q.spec, TRUE)
        /\ daemon' = [daemon EXCEPT ![q.cd] = CompleteScan(daemon[q.cd], q.spec)]
        /\ requestedImages' = [requestedImages EXCEPT ![q.spec] = None]
        /\ Send(k, "OK", None)
        /\ UNCHANGED <<assignedImages, controllerDaemons>>

finalizeScan(k) ==
    LET q == handler[k]
    IN  /\ At(k, "commit")
        /\ q.op = "done"
        /\ setImageStatus(q.spec, TRUE)
        /\ daemon' = [r \in Ref |->
                IF r = q.cd THEN CompleteScan(daemon[r], q.spec)
                ELSE IF r \in Peers(q.id) THEN SkipScan(daemon[r], q.spec)
                ELSE daemon[r]]
        /\ requestedImages' = [requestedImages EXCEPT ![q.spec] = None]
        /\ assignedImages' = [assignedImages EXCEPT ![q.hash] = None]
        /\ Send(k, "OK", None)
        /\ UNCHANGED controllerDaemons

\* Mutant: an abort takes the image off the queue.
releaseScanDequeued(k) ==
    LET q == handler[k]
    IN  /\ At(k, "commit")
        /\ q.op = "abort"
        /\ daemon' = [daemon EXCEPT ![q.cd] = AbortScan(daemon[q.cd], q.spec)]
        /\ requestedImages' = [requestedImages EXCEPT ![q.spec] = None]
        /\ assignedImages' = [assignedImages EXCEPT ![q.hash] = None]
        /\ Send(k, "OK", None)
        /\ UNCHANGED <<images, controllerDaemons>>

\* The request stays queued for the other controllers; the one that aborts
\* drops out of it.
releaseScanForPeer(k) ==
    LET q == handler[k]
    IN  /\ At(k, "commit")
        /\ q.op = "abort"
        /\ daemon' = [daemon EXCEPT ![q.cd] = AbortScan(daemon[q.cd], q.spec)]
        /\ assignedImages' = [assignedImages EXCEPT ![q.hash] = None]
        /\ Send(k, "OK", None)
        /\ UNCHANGED <<images, requestedImages, controllerDaemons>>

\* The response has reached the client, or there is no client any more.
Close(k) ==
    /\ At(k, "replied")
    /\ handler' = [handler EXCEPT ![k] = Idle]
    /\ UNCHANGED tables

-----------------------------------------------------------------------------
(***************************************************************************)
(* Calls from the watcher, the initial load and the notification workers.  *)
(***************************************************************************)

addImage(s) ==
    /\ images[s] = "absent"
    /\ images' = [images EXCEPT ![s] = "unscanned"]
    /\ UNCHANGED <<requestedImages, assignedImages, controllerDaemons, daemon, handler>>

RemoveImage(s) ==
    /\ images[s] # "absent"
    /\ images' = [images EXCEPT ![s] = "absent"]
    /\ UNCHANGED <<requestedImages, assignedImages, controllerDaemons, daemon, handler>>

DoneScan(s, result) ==
    /\ setImageStatus(s, result)
    /\ UNCHANGED <<requestedImages, assignedImages, controllerDaemons, daemon, handler>>

\* The process dies (a crash, or the Go runtime stopping it on a concurrent
\* map access) and its replica starts afresh: nothing is persisted.
Restart ==
    /\ images' = [s \in ImageSpec |-> "absent"]
    /\ requestedImages' = [s \in ImageSpec |-> None]
    /\ assignedImages' = [h \in Hash |-> None]
    /\ controllerDaemons' = [c \in Controller |-> None]
    /\ daemon' = [r \in Ref |-> None]
    /\ handler' = [k \in Conn |-> Idle]

-----------------------------------------------------------------------------

\* One step of a request that is being served.
Serve(k) ==
    \/ Throttle(k)
    \/ LookupKnown(k)
    \/ LookupUnknown(k)
    \/ Register(k)
    \/ Check(k)
    \/ saveFoundImage(k)
    \/ findWorker(k)
    \/ LookupImage(k)
    \/ finalizeScan(k)
    \/ releaseScanForPeer(k)

Next ==
    \/ \E k \in Conn :
        \/ \E r \in Request : Receive(k, r)
        \/ ReceiveJunk(k)
        \/ Serve(k)
        \/ Close(k)
    \/ \E s \in ImageSpec :
        \/ addImage(s)
        \/ RemoveImage(s)
        \/ \E result \in BOOLEAN : DoneScan(s, result)
    \/ Restart

Spec == Init /\ [][Next]_vars

-----------------------------------------------------------------------------

\* Type invariant: the shape of the arbiter's maps, of the daemon objects and
\* of the handlers' local variables.
TypeOK ==
    /\ images \in [ImageSpec -> ImageStatus]
    /\ requestedImages \in [ImageSpec -> Hash \cup {None}]
    /\ assignedImages \in [Hash -> Assignment \cup {None}]
    /\ controllerDaemons \in [Controller -> Ref \cup {None}]
    /\ daemon \in [Ref -> Daemon(ImageSpec) \cup {None}]
    /\ handler \in [Conn -> Handler]

\* No worker is lost or invented: whatever requests arrive, repeated, stale or
\* about another controller's image, every daemon's free workers plus its
\* assigned scans make up the number it registered with (AssignScan,
\* CompleteScan and AbortScan of controllerdaemon.go).
WorkersConserved ==
    \A r \in Ref : daemon[r] # None => Balanced(daemon[r], WorkerCount[r[1]])

\* Every assignment in the arbiter's map is paid for: it stands under the hash
\* of its image, the image is still requested, and some daemon object of its
\* controller has a worker tied to it.  Hence scanDone finds what findWorker
\* handed out, and findWorker and foundImage see every assignment.
AssignmentBacked ==
    \A h \in Hash : assignedImages[h] # None =>
        LET a == assignedImages[h]
        IN  /\ requestedImages[a.ImageSpec] = h
            /\ \E k \in Conn :
                  /\ daemon[<<a.ControllerID, k>>] # None
                  /\ a.ImageSpec \in daemon[<<a.ControllerID, k>>].assignedScans

\* Requests that have passed the check of CanSendHubJobs and are still to
\* reach findWorker.
pastThrottle ==
    {k \in Conn : handler[k].op = "request" /\ handler[k].pc \in {"lookup", "find"}}

\* What the check in assignScan really guarantees: the check and the
\* assignment are two locked sections, so the Hub's limit can be overrun, but
\* only by one job for each other request in flight.
HubJobsBounded ==
    assignedImageCount + Cardinality(pastThrottle) < MaxHubJobs + Cardinality(Conn)

\* An assignment is never handed over from one controller to another: it is
\* first given up by a done or an abort (findWorker's comparison of ids, which
\* "avoids dup scan as well as worker exhaustion"), or lost in a restart.
NoTakeover ==
    [][\A h \in Hash :
        (assignedImages[h] # None /\ assignedImages'[h] # None)
            => assignedImages'[h] = assignedImages[h]]_vars

\* An image leaves the arbiter's queue only once it is scanned, or gone from
\* the images map (a restart forgets both): an abort, a refused request and a
\* message of another controller all leave it there to be claimed.
RequestKept ==
    [][\A s \in ImageSpec :
        (requestedImages[s] # None /\ requestedImages'[s] = None)
            => images'[s] # "unscanned"]_vars
=============================================================================
