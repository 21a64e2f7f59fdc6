-------------------------- MODULE ScanProtocolProofs --------------------------
(***************************************************************************)
(* Proofs about ScanProtocol for every number of controllers, workers,     *)
(* images and connections, and every set of faults.  PInv says what a      *)
(* client and the goroutine that serves its call know of each other; the   *)
(* arbiter's own invariant carries over because every step of the protocol *)
(* is a step of Arbiter or leaves the arbiter alone.                       *)
(***************************************************************************)
EXTENDS ScanProtocol, ArbiterProofs

\* The operation a client's pc stands for.
OpAt(pc) ==
    CASE pc = "boot"  -> "heartbeat"
      [] pc = "alert" -> "found"
      [] OTHER        -> pc

\* What a client's own record holds at each point of its job.
JobAt(x, p) ==
    /\ x \in Controller <=> p.pc \in {"boot", "up"}
    /\ p.conn # None => p.pc \in CallState
    /\ p.pc \in {"heartbeat", "alert", "request", "scan", "done", "abort"} => p.spec \in ImageSpec
    /\ p.pc \in {"scan", "done", "abort"} => p.hash = Md5[p.spec]
    /\ p.pc = "idle" => p.spec = None

\* The goroutine q serves the call of a client p of controller c: while it
\* runs it holds what the client sent, and an order to start carries the hash
\* of the image the client asked for.
ServesCall(p, c, q) ==
    IF q.pc = "replied"
    THEN p.pc = "request" /\ q.reply = "Start" => q.hash = Md5[p.spec]
    ELSE /\ q.pc # "idle"
         /\ q.id = c
         /\ q.op = OpAt(p.pc)
         /\ p.pc \in {"alert", "request"} /\ q.pc \notin {"image", "commit"} => q.spec = p.spec
         /\ p.pc \in {"done", "abort"} => q.hash = p.hash

JobsOK == \A x \in Client : JobAt(x, client[x])

\* A client waits on a connection of its own, where its request is served.
ConnectionsOK ==
    \A x \in Client : client[x].conn # None =>
        /\ ServesCall(client[x], Host(x), handler[client[x].conn])
        /\ \A y \in Client : client[y].conn = client[x].conn => y = x

\* The hash of an image that has been scanned to the end.
CompletedHash(h) == \E s \in completed : h = Md5[s]

\* Whatever makes, or will make, the arbiter take an image for scanned comes
\* from a completed scan.
ScannedOK ==
    /\ \A x \in Client : client[x].pc = "done" => client[x].spec \in completed
    /\ \A k \in Conn :
          handler[k].op = "done" /\ handler[k].pc \notin {"idle", "replied"}
              => CompletedHash(handler[k].hash)
    /\ annotated \subseteq completed
    /\ \A s \in ImageSpec : notifying[s] # None /\ notifying[s] = "true" => s \in completed
    /\ NoFalseScanned

PInv ==
    /\ IInv
    /\ ProtocolTypeOK
    /\ JobsOK
    /\ ConnectionsOK
    /\ ScannedOK

-----------------------------------------------------------------------------
(***************************************************************************)
(* The arbiter in the protocol.                                            *)
(***************************************************************************)

\* A goroutine q that becomes r by writing its response: only findWorker
\* orders a start, and only saveFoundImage and heartbeats answer "Created".
Answered(q, r) ==
    /\ r.pc = "replied"
    /\ r.op = None
    /\ r.reply = "Start" =>
          q.pc = "find" /\ q.op = "request" /\ r.hash = Md5[q.spec]
    /\ r.reply = "Created" => q.pc = "save" \/ q.op = "heartbeat"

\* A goroutine q that becomes r by going on with its request.
Continues(q, r) ==
    /\ r.pc \notin {"idle", "replied"}
    /\ r.op = q.op /\ r.id = q.id /\ r.hash = q.hash /\ r.reply = q.reply
    /\ r.pc \notin {"image", "commit"} => q.pc \notin {"image", "commit"} /\ r.spec = q.spec
    /\ r.pc = "save" => q.pc = "check"

\* One step of a goroutine answers its request or goes on with it.
LEMMA ServeEffect ==
    ASSUME IInv, NEW k \in Conn, Serve(k)
    PROVE  /\ \A j \in Conn \ {k} : handler'[j] = handler[j]
           /\ handler[k].pc \notin {"idle", "replied"}
           /\ Answered(handler[k], handler'[k]) \/ Continues(handler[k], handler'[k])
<1> DEFINE q == handler[k]
           Goal == /\ \A j \in Conn \ {k} : handler'[j] = handler[j]
                   /\ handler[k].pc \notin {"idle", "replied"}
                   /\ Answered(handler[k], handler'[k]) \/ Continues(handler[k], handler'[k])
<1>1. /\ handler \in [Conn -> Handler] /\ q \in Handler
      /\ LocalsAt(q)
  BY DEF IInv, TypeOK, HandlersOK
<1>2. ASSUME NEW reply, NEW hash, Send(k, reply, hash)
      PROVE  /\ \A j \in Conn \ {k} : handler'[j] = handler[j]
             /\ handler'[k].pc = "replied" /\ handler'[k].op = None
             /\ handler'[k].reply = reply /\ handler'[k].hash = hash
  BY <1>1, <1>2 DEF Send, Idle
<1>3. ASSUME NEW pc, Goto(k, pc), pc \notin {"idle", "replied", "image", "commit"},
             q.pc \notin {"image", "commit"}, pc = "save" => q.pc = "check"
      PROVE  /\ \A j \in Conn \ {k} : handler'[j] = handler[j]
             /\ Continues(q, handler'[k])
  BY <1>1, <1>3 DEF Goto, Handler, Continues
<1> HIDE DEF q
<1>4. CASE Throttle(k)
  <2>1. CASE CanSendHubJobs
    BY <1>3, <1>4, <2>1 DEF Throttle, At, q
  <2>2. CASE ~CanSendHubJobs
    BY <1>2, <1>4, <2>2 DEF Throttle, At, Answered
  <2> QED
    BY <2>1, <2>2
<1>5. CASE LookupKnown(k)
  <2>1. CASE handler[k].op = "heartbeat"
    BY <1>2, <1>5, <2>1 DEF LookupKnown, At, Answered
  <2>2. CASE handler[k].op # "heartbeat"
    <3>1. handler[k].pc = "lookup" /\ AfterLookup(handler[k].op) \in {"check", "find", "image"}
      BY <1>5 DEF LookupKnown, At, AfterLookup
    <3>2. handler' = [handler EXCEPT ![k] =
              [@ EXCEPT !.cd = controllerDaemons[handler[k].id], !.pc = AfterLookup(handler[k].op)]]
      BY <1>1, <1>5, <2>2 DEF LookupKnown, Handler
    <3> QED
      BY <1>1, <3>1, <3>2 DEF Handler, Continues, q
  <2> QED
    BY <2>1, <2>2
<1>6. CASE LookupUnknown(k)
  <2>1. handler[k].pc = "lookup"
    BY <1>6 DEF LookupUnknown, At
  <2>2. CASE handler[k].op = "heartbeat"
    <3>1. Goto(k, "register")
      BY <1>6, <2>2 DEF LookupUnknown
    <3> QED
      BY <1>3, <2>1, <3>1 DEF q
  <2>3. CASE handler[k].op # "heartbeat"
    <3>1. Send(k, "ServerError", None) \/ Send(k, "NotFound", None)
      BY <1>6, <2>3 DEF LookupUnknown
    <3> QED
      BY <1>2, <2>1, <3>1 DEF Answered
  <2> QED
    BY <2>2, <2>3
<1>7. CASE Register(k)
  <2>1. handler[k].pc = "register" /\ Send(k, "Created", None)
    BY <1>7 DEF Register, At
  <2>2. handler[k].op = "heartbeat"
    BY <1>1, <2>1 DEF q, LocalsAt
  <2> QED
    BY <1>2, <2>1, <2>2 DEF Answered
<1>8. CASE Check(k)
  <2>1. CASE AssignedTo(handler[k].spec, handler[k].id)
    BY <1>2, <1>8, <2>1 DEF Check, At, Answered
  <2>2. CASE ~AssignedTo(handler[k].spec, handler[k].id)
    BY <1>3, <1>8, <2>2 DEF Check, At, q
  <2> QED
    BY <2>1, <2>2
<1>9. CASE saveFoundImage(k)
  BY <1>2, <1>9 DEF saveFoundImage, At, Answered
<1>10. CASE findWorker(k)
  <2>1. handler[k].pc = "find" /\ handler[k].op = "request" /\ handler[k].spec \in ImageSpec
    BY <1>1, <1>10 DEF findWorker, At, q, LocalsAt
  <2>2. CASE MayAssign(handler[k].spec, handler[k].id, handler[k].cd)
    <3>1. Send(k, "Start", requestedImages[handler[k].spec])
      BY <1>10, <2>2 DEF findWorker
    <3>2. requestedImages[handler[k].spec] = Md5[handler[k].spec]
      BY <2>1, <2>2 DEF MayAssign, IInv, RequestsOK
    <3> QED
      BY <1>2, <2>1, <3>1, <3>2 DEF Answered
  <2>3. CASE ~MayAssign(handler[k].spec, handler[k].id, handler[k].cd)
    <3>1. Send(k, "Skip", None) \/ Send(k, "Wait", None)
      BY <1>10, <2>3 DEF findWorker
    <3> QED
      BY <1>2, <2>1, <3>1 DEF Answered
  <2> QED
    BY <2>2, <2>3
<1>11. CASE LookupImage(k)
  <2>1. handler[k].pc = "image"
    BY <1>11 DEF LookupImage, At
  <2>2. CASE \/ assignedImages[handler[k].hash] = None
             \/ handler[k].op = "processing"
    <3>1. Send(k, "OK", None) \/ Send(k, "NotFound", None)
      BY <1>11, <2>2 DEF LookupImage
    <3> QED
      BY <1>2, <2>1, <3>1 DEF Answered
  <2>3. CASE ~(\/ assignedImages[handler[k].hash] = None
               \/ handler[k].op = "processing")
    <3>1. handler' = [handler EXCEPT ![k] =
              [@ EXCEPT !.spec = assignedImages[handler[k].hash].ImageSpec, !.pc = "commit"]]
      BY <1>1, <1>11, <2>3 DEF LookupImage, Handler
    <3> QED
      BY <1>1, <2>1, <3>1 DEF Handler, Continues, q
  <2> QED
    BY <2>2, <2>3
<1>12. CASE finalizeScan(k)
  BY <1>2, <1>12 DEF finalizeScan, At, Answered
<1>13. CASE releaseScanForPeer(k)
  BY <1>2, <1>13 DEF releaseScanForPeer, At, Answered
<1> QED
  BY <1>4, <1>5, <1>6, <1>7, <1>8, <1>9, <1>10, <1>11, <1>12, <1>13 DEF Serve

-----------------------------------------------------------------------------
(***************************************************************************)
(* The clients.                                                            *)
(***************************************************************************)

\* A worker without a job and a main goroutine that starts are in order.
LEMMA FreshClients ==
    /\ Booting \in ClientState /\ NoJob \in ClientState
    /\ \A c \in Controller : JobAt(c, Booting)
    /\ \A w \in Worker : JobAt(w, NoJob)
    /\ Booting.conn = None /\ NoJob.conn = None
    /\ Booting.pc = "boot" /\ NoJob.pc = "idle"
    /\ Booting.spec = None /\ NoJob.spec = None
<1>1. Booting = [pc |-> "boot", spec |-> None, hash |-> None, conn |-> None]
  BY DEF Booting
<1>2. NoJob = [pc |-> "idle", spec |-> None, hash |-> None, conn |-> None]
  BY DEF Booting, NoJob
<1>3. \A w \in Worker : w \notin Controller
  BY WorkersAssumption DEF WorkersAssumption
<1> QED
  BY <1>1, <1>2, <1>3 DEF ClientState, CallState, JobAt

\* What a response makes of a client that waits for one.
LEMMA AfterReplyJob ==
    ASSUME NEW x \in Client, NEW p \in ClientState, JobAt(x, p), p.pc \in CallState,
           NEW reply, NEW hash \in Hash \cup {None},
           p.pc = "request" /\ reply = "Start" => hash = Md5[p.spec]
    PROVE  LET r == AfterReply(p, reply, hash)
           IN  /\ r \in ClientState /\ JobAt(x, r)
               /\ r.conn = None /\ r.pc \notin {"done", "abort"}
               /\ r.spec \in {None, p.spec}
               /\ r.pc \notin {"idle", "up"} => r.spec = p.spec
               /\ r.pc = "scan" => p.pc = "request" /\ reply = "Start"
               /\ r.pc = "request" => p.pc = "request" \/ (p.pc = "alert" /\ reply = "Created")
               /\ r.pc # "heartbeat"
               /\ p.pc = "done" => r.pc = "idle"
<1> DEFINE r == AfterReply(p, reply, hash)
<1>1. CASE p.pc = "boot"
  <2>1. r = [pc |-> "up", spec |-> p.spec, hash |-> p.hash, conn |-> None]
    BY <1>1 DEF AfterReply, ClientState
  <2> QED
    BY <1>1, <2>1 DEF ClientState, CallState, JobAt
<1>2. CASE p.pc = "heartbeat"
  <2>1. r = [pc |-> "alert", spec |-> p.spec, hash |-> p.hash, conn |-> None]
    BY <1>2 DEF AfterReply, ClientState
  <2> QED
    BY <1>2, <2>1 DEF ClientState, CallState, JobAt
<1>3. CASE p.pc = "alert" /\ reply = "Created"
  <2>1. r = [pc |-> "request", spec |-> p.spec, hash |-> p.hash, conn |-> None]
    BY <1>3 DEF AfterReply, ClientState
  <2> QED
    BY <1>3, <2>1 DEF ClientState, CallState, JobAt
<1>4. CASE p.pc = "request" /\ reply = "Start"
  <2>1. r = [pc |-> "scan", spec |-> p.spec, hash |-> hash, conn |-> None]
    BY <1>4 DEF AfterReply, ClientState
  <2> QED
    BY <1>4, <2>1 DEF ClientState, CallState, JobAt
<1>5. CASE p.pc = "request" /\ reply = "Wait"
  <2>1. r = [pc |-> "request", spec |-> p.spec, hash |-> p.hash, conn |-> None]
    BY <1>5 DEF AfterReply, ClientState
  <2> QED
    BY <1>5, <2>1 DEF ClientState, CallState, JobAt
<1>6. CASE \/ p.pc \in {"done", "abort"}
           \/ p.pc = "alert" /\ reply # "Created"
           \/ p.pc = "request" /\ reply \notin {"Start", "Wait"}
  <2>1. r = NoJob
    BY <1>6 DEF AfterReply
  <2>2. x \in Worker
    BY <1>6 DEF JobAt, Client
  <2> QED
    BY <2>1, <2>2, FreshClients
<1> QED
  BY <1>1, <1>2, <1>3, <1>4, <1>5, <1>6 DEF CallState

\* What a failed call makes of a client.
LEMMA AfterErrorJob ==
    ASSUME NEW x \in Client, NEW p \in ClientState, JobAt(x, p), p.pc \in CallState
    PROVE  LET r == AfterError(p)
           IN  /\ r \in ClientState /\ JobAt(x, r)
               /\ r.conn = None
               /\ r.pc \in {"up", "heartbeat", "idle"}
               /\ r.spec \in {None, p.spec}
               /\ r.pc = "heartbeat" => r.spec = p.spec
<1> DEFINE r == AfterError(p)
<1>1. CASE p.pc = "boot"
  <2>1. r = [pc |-> "up", spec |-> p.spec, hash |-> p.hash, conn |-> None]
    BY <1>1 DEF AfterError, ClientState
  <2> QED
    BY <1>1, <2>1 DEF ClientState, CallState, JobAt
<1>2. CASE p.pc = "heartbeat"
  <2>1. r = [pc |-> "heartbeat", spec |-> p.spec, hash |-> p.hash, conn |-> None]
    BY <1>2 DEF AfterError, ClientState
  <2> QED
    BY <1>2, <2>1 DEF ClientState, CallState, JobAt
<1>3. CASE p.pc \notin {"boot", "heartbeat"}
  <2>1. r = NoJob
    BY <1>3 DEF AfterError
  <2>2. x \in Worker
    BY <1>3 DEF JobAt, Client, CallState
  <2> QED
    BY <2>1, <2>2, FreshClients
<1> QED
  BY <1>1, <1>2, <1>3

\* Every client belongs to a controller.
LEMMA HostType ==
    /\ \A x \in Client : Host(x) \in Controller
    /\ \A w \in Worker : w \in Client /\ w \notin Controller /\ Host(w) = HostOf[w]
    /\ \A c \in Controller : c \in Client /\ Host(c) = c
  BY WorkersAssumption DEF WorkersAssumption, Host, Client

\* What a client sends is a request of the arbiter's interface.
LEMMA RequestType ==
    ASSUME NEW x \in Client, client[x] \in ClientState, JobAt(x, client[x]),
           client[x].pc \in CallState
    PROVE  LET r == RequestOf(x)
           IN  /\ r \in Request
               /\ r.id = Host(x)
               /\ r.op = OpAt(client[x].pc)
               /\ client[x].pc \in {"alert", "request"} => r.spec = client[x].spec
               /\ client[x].pc \in {"done", "abort"} => r.hash = client[x].hash
<1> DEFINE p == client[x]
           r == RequestOf(x)
<1>1. Host(x) \in Controller
  BY HostType
<1>2. CASE p.pc \in {"boot", "heartbeat"}
  <2>1. r = [op |-> "heartbeat", id |-> Host(x), spec |-> None, hash |-> None]
    BY <1>2 DEF RequestOf
  <2> QED
    BY <1>1, <1>2, <2>1 DEF Request, OpAt
<1>3. CASE p.pc = "alert"
  <2>1. r = [op |-> "found", id |-> Host(x), spec |-> p.spec, hash |-> None]
    BY <1>3 DEF RequestOf
  <2> QED
    BY <1>1, <1>3, <2>1 DEF Request, OpAt, JobAt
<1>4. CASE p.pc = "request"
  <2>1. r = [op |-> "request", id |-> Host(x), spec |-> p.spec, hash |-> None]
    BY <1>4 DEF RequestOf
  <2> QED
    BY <1>1, <1>4, <2>1 DEF Request, OpAt, JobAt
<1>5. CASE p.pc \in {"done", "abort"}
  <2>1. r = [op |-> p.pc, id |-> Host(x), spec |-> None, hash |-> p.hash]
    BY <1>5 DEF RequestOf
  <2>2. p.hash \in Hash
    BY <1>5, Md5Assumption DEF JobAt
  <2> QED
    BY <1>1, <1>5, <2>1, <2>2 DEF Request, OpAt
<1> QED
  BY <1>2, <1>3, <1>4, <1>5 DEF CallState

\* Every step of the protocol is a step of the arbiter as Arbiter has it, with
\* an environment that sends what it likes, or none of the arbiter's.
LEMMA ArbiterStep ==
    ASSUME ProtocolTypeOK, JobsOK, ProtocolNext
    PROVE  [Next]_vars
<1>1. ASSUME NEW w \in Worker,
             TakeJob(w) \/ DropJob(w) \/ ScanCompletes(w) \/ ScanFails(w)
      PROVE  UNCHANGED vars
  BY <1>1 DEF TakeJob, DropJob, ScanCompletes, ScanFails
<1>2. ASSUME NEW x \in Client, Call(x)
      PROVE  Next
  <2>1. RequestOf(x) \in Request
    BY <1>2, RequestType DEF Call, ProtocolTypeOK, JobsOK
  <2>2. PICK k \in Conn : Receive(k, RequestOf(x))
    BY <1>2 DEF Call
  <2> QED
    BY <2>1, <2>2 DEF Next
<1>3. ASSUME NEW x \in Client, Return(x) \/ ReplyGarbled(x)
      PROVE  Next
  <2>1. client[x].conn \in Conn
    BY <1>3 DEF ProtocolTypeOK, ClientState, Return, ReplyGarbled
  <2> QED
    BY <1>3, <2>1 DEF Next, Return, ReplyGarbled
<1>4. ASSUME NEW x \in Client, CallFails(x)
      PROVE  UNCHANGED vars
  BY <1>4 DEF CallFails
<1>5. ASSUME NEW k \in Conn, ArbiterServes(k) \/ CloseOrphan(k)
      PROVE  Next
  BY <1>5 DEF Next, ArbiterServes, CloseOrphan
<1>6. ASSUME NEW c \in Controller, ControllerRestart(c) \/ \E s \in ImageSpec : Requeue(c, s)
      PROVE  UNCHANGED vars
  BY <1>6 DEF ControllerRestart, Requeue
<1>7. CASE ArbiterRestart
  BY <1>7 DEF Next, ArbiterRestart
<1>8. ASSUME NEW s \in ImageSpec, NotifyRead(s)
      PROVE  UNCHANGED vars
  BY <1>8 DEF NotifyRead
<1>9. ASSUME NEW s \in ImageSpec, NotifyDone(s) \/ ImageAdded(s) \/ ImageRemoved(s)
      PROVE  Next
  BY <1>9 DEF Next, NotifyDone, ImageAdded, ImageRemoved
<1> QED
  BY <1>1, <1>2, <1>3, <1>4, <1>5, <1>6, <1>7, <1>8, <1>9 DEF ProtocolNext

-----------------------------------------------------------------------------
(***************************************************************************)
(* The steps of the protocol.  The arbiter's part of PInv is preserved by  *)
(* ArbiterStep; what is left is the clients' part.                         *)
(***************************************************************************)

ClientsInv == ProtocolTypeOK /\ JobsOK /\ ConnectionsOK /\ ScannedOK

\* A fault uses up one of those that are left.
LEMMA FaultType ==
    ASSUME faultsLeft \in 0..MaxFaults, NEW kind, Fault(kind)
    PROVE  faultsLeft' \in 0..MaxFaults
  BY WorkersAssumption DEF Fault, WorkersAssumption

\* Clients that keep their calls, or have none any more, stay connected.
LEMMA CallsKept ==
    ASSUME ConnectionsOK,
           \A x \in Client :
               \/ client'[x].conn = None
               \/ /\ client'[x] = client[x]
                  /\ handler'[client[x].conn] = handler[client[x].conn]
    PROVE  ConnectionsOK'
<1> SUFFICES ASSUME NEW x \in Client, client'[x].conn # None
             PROVE  /\ ServesCall(client'[x], Host(x), handler'[client'[x].conn])
                    /\ \A y \in Client : client'[y].conn = client'[x].conn => y = x
  BY DEF ConnectionsOK
<1>1. client'[x] = client[x] /\ handler'[client[x].conn] = handler[client[x].conn]
  OBVIOUS
<1>2. ServesCall(client'[x], Host(x), handler'[client'[x].conn])
  BY <1>1 DEF ConnectionsOK
<1>3. ASSUME NEW y \in Client, client'[y].conn = client'[x].conn
      PROVE  y = x
  BY <1>1, <1>3 DEF ConnectionsOK
<1> QED
  BY <1>2, <1>3

\* One client moves on without a call, perhaps from a response it has taken.
LEMMA ClientStep ==
    ASSUME PInv, IInv', NEW x \in Client, NEW p \in ClientState,
           JobAt(x, p), p.conn = None, client' = [client EXCEPT ![x] = p],
           \/ handler' = handler
           \/ client[x].conn \in Conn /\ handler' = [handler EXCEPT ![client[x].conn] = Idle],
           p.pc = "done" => p.spec \in completed',
           completed \subseteq completed', completed' \subseteq ImageSpec,
           annotated' \subseteq completed',
           UNCHANGED <<images, notifying>>,
           queue' \in [Controller -> SUBSET ImageSpec],
           faultsLeft' \in 0..MaxFaults
    PROVE  ClientsInv'
<1>1. client \in [Client -> ClientState] /\ handler \in [Conn -> Handler]
  BY DEF PInv, ProtocolTypeOK, IInv, TypeOK
<1>2. ProtocolTypeOK'
  BY <1>1 DEF PInv, ProtocolTypeOK, IInv
<1>3. JobsOK'
  BY <1>1 DEF PInv, JobsOK
<1>4. ConnectionsOK'
  <2>1. ASSUME NEW y \in Client, client'[y].conn # None
        PROVE  client'[y] = client[y] /\ handler'[client[y].conn] = handler[client[y].conn]
    <3>1. y # x /\ client'[y] = client[y]
      BY <1>1, <2>1
    <3>2. client[y].conn # client[x].conn
      BY <2>1, <3>1 DEF PInv, ConnectionsOK
    <3>3. client[y].conn \in Conn
      BY <1>1, <2>1, <3>1 DEF ClientState
    <3> QED
      BY <1>1, <3>1, <3>2, <3>3
  <2> QED
    BY <2>1, CallsKept DEF PInv
<1>5. ScannedOK'
  <2>1. \A y \in Client : client'[y].pc = "done" => client'[y].spec \in completed'
    BY <1>1 DEF PInv, ScannedOK
  <2>2. ASSUME NEW k \in Conn, handler'[k].pc \notin {"idle", "replied"}
        PROVE  handler'[k] = handler[k]
    BY <1>1, <2>2 DEF Idle
  <2>3. \A k \in Conn :
            handler'[k].op = "done" /\ handler'[k].pc \notin {"idle", "replied"}
                => CompletedHash(handler[k].hash)'
    BY <2>2 DEF PInv, ScannedOK, CompletedHash
  <2> QED
    BY <2>1, <2>3 DEF PInv, ScannedOK, NoFalseScanned
<1> QED
  BY <1>2, <1>3, <1>4, <1>5 DEF ClientsInv

\* A worker takes a job, ends a scan, or has one fail.
LEMMA WorkerPInv ==
    ASSUME PInv, IInv', NEW w \in Worker,
           TakeJob(w) \/ DropJob(w) \/ ScanCompletes(w) \/ ScanFails(w)
    PROVE  ClientsInv'
<1>1. /\ w \in Client /\ w \notin Controller /\ HostOf[w] \in Controller
      /\ client \in [Client -> ClientState] /\ client[w] \in ClientState
      /\ JobAt(w, client[w])
      /\ queue \in [Controller -> SUBSET ImageSpec]
      /\ faultsLeft \in 0..MaxFaults
      /\ completed \subseteq ImageSpec /\ annotated \subseteq completed
  BY HostType, WorkersAssumption DEF PInv, ProtocolTypeOK, JobsOK, ScannedOK, WorkersAssumption
<1>2. CASE TakeJob(w)
  <2>1. PICK s \in queue[HostOf[w]] :
           /\ queue' = [queue EXCEPT ![HostOf[w]] = @ \ {s}]
           /\ client' = [client EXCEPT ![w] = [NoJob EXCEPT !.pc = "heartbeat", !.spec = s]]
    BY <1>2 DEF TakeJob
  <2> DEFINE p == [pc |-> "heartbeat", spec |-> s, hash |-> None, conn |-> None]
  <2>2. /\ client' = [client EXCEPT ![w] = p]
        /\ UNCHANGED <<images, handler, annotated, completed, notifying, faultsLeft>>
    BY <1>2, <2>1 DEF TakeJob, NoJob, Booting, vars
  <2>3. s \in ImageSpec /\ queue' \in [Controller -> SUBSET ImageSpec]
    BY <1>1, <2>1
  <2>4. p \in ClientState /\ JobAt(w, p) /\ p.conn = None /\ p.pc # "done"
    BY <1>1, <2>3 DEF ClientState, CallState, JobAt
  <2> HIDE DEF p
  <2> QED
    BY <1>1, <2>2, <2>3, <2>4, ClientStep
<1>3. CASE DropJob(w)
  <2>1. /\ UNCHANGED <<vars, client, annotated, completed, notifying>>
        /\ faultsLeft' \in 0..MaxFaults
        /\ queue' \in [Controller -> SUBSET ImageSpec]
    BY <1>1, <1>3, FaultType DEF DropJob
  <2>2. ConnectionsOK'
    BY <2>1, CallsKept DEF PInv, vars
  <2> QED
    BY <2>1, <2>2
    DEF PInv, IInv, ClientsInv, ProtocolTypeOK, JobsOK, ScannedOK, CompletedHash, NoFalseScanned, vars
<1>4. ASSUME NEW pc \in {"done", "abort"}, client[w].pc = "scan"
      PROVE  LET p == [client[w] EXCEPT !.pc = pc]
             IN  /\ p \in ClientState /\ JobAt(w, p)
                 /\ p.conn = None /\ p.pc = pc /\ p.spec = client[w].spec
                 /\ p.spec \in ImageSpec
  BY <1>1, <1>4 DEF ClientState, CallState, JobAt
<1>5. CASE ScanCompletes(w)
  <2> DEFINE p == [client[w] EXCEPT !.pc = "done"]
  <2>1. /\ client[w].pc = "scan"
        /\ client' = [client EXCEPT ![w] = p]
        /\ completed' = completed \cup {client[w].spec}
        /\ annotated' \in {annotated, annotated \cup {client[w].spec}}
        /\ UNCHANGED <<images, handler, queue, notifying, faultsLeft>>
    BY <1>1, <1>5 DEF ScanCompletes, vars
  <2>2. /\ p \in ClientState /\ JobAt(w, p)
        /\ p.conn = None /\ p.pc = "done" /\ p.spec = client[w].spec /\ p.spec \in ImageSpec
    BY <1>4, <2>1
  <2> HIDE DEF p
  <2> QED
    BY <1>1, <2>1, <2>2, ClientStep
<1>6. CASE ScanFails(w)
  <2> DEFINE p == [client[w] EXCEPT !.pc = "abort"]
  <2>1. /\ client[w].pc = "scan"
        /\ client' = [client EXCEPT ![w] = p]
        /\ UNCHANGED <<images, handler, queue, notifying, completed, annotated>>
        /\ faultsLeft' \in 0..MaxFaults
    BY <1>1, <1>6, FaultType DEF ScanFails, vars
  <2>2. p \in ClientState /\ JobAt(w, p) /\ p.conn = None /\ p.pc = "abort"
    BY <1>4, <2>1
  <2> HIDE DEF p
  <2> QED
    BY <1>1, <2>1, <2>2, ClientStep
<1> QED
  BY <1>2, <1>3, <1>5, <1>6

\* A client's call returns, is cut short, or fails.
LEMMA CallEndsPInv ==
    ASSUME PInv, IInv', NEW x \in Client, Return(x) \/ ReplyGarbled(x) \/ CallFails(x)
    PROVE  ClientsInv'
<1> DEFINE k == client[x].conn
<1>1. /\ client \in [Client -> ClientState] /\ client[x] \in ClientState
      /\ JobAt(x, client[x])
      /\ queue \in [Controller -> SUBSET ImageSpec]
      /\ faultsLeft \in 0..MaxFaults
      /\ completed \subseteq ImageSpec /\ annotated \subseteq completed
      /\ handler \in [Conn -> Handler]
  BY DEF PInv, ProtocolTypeOK, JobsOK, ScannedOK, IInv, TypeOK
<1>2. ASSUME k # None, Close(k)
      PROVE  /\ k \in Conn /\ client[x].pc \in CallState
             /\ handler[k].hash \in Hash \cup {None}
             /\ client[x].pc = "request" /\ handler[k].reply = "Start"
                   => handler[k].hash = Md5[client[x].spec]
             /\ handler' = [handler EXCEPT ![k] = Idle] /\ UNCHANGED images
  <2>1. k \in Conn
    BY <1>1, <1>2 DEF ClientState
  <2>2. handler[k].pc = "replied" /\ handler' = [handler EXCEPT ![k] = Idle] /\ UNCHANGED images
    BY <1>2 DEF Close, At, tables
  <2>3. ServesCall(client[x], Host(x), handler[k])
    BY <1>2 DEF PInv, ConnectionsOK
  <2> QED
    BY <1>1, <1>2, <2>1, <2>2, <2>3 DEF JobAt, ServesCall, Handler
<1>3. CASE Return(x)
  <2> DEFINE p == AfterReply(client[x], handler[k].reply, handler[k].hash)
  <2>1. /\ k # None /\ Close(k)
        /\ client' = [client EXCEPT ![x] = p]
        /\ UNCHANGED <<queue, annotated, completed, notifying, faultsLeft>>
    BY <1>1, <1>3 DEF Return
  <2>2. p \in ClientState /\ JobAt(x, p) /\ p.conn = None /\ p.pc # "done"
    BY <1>1, <1>2, <2>1, AfterReplyJob
  <2> HIDE DEF p
  <2> QED
    BY <1>1, <1>2, <2>1, <2>2, ClientStep
<1>4. CASE ReplyGarbled(x)
  <2> DEFINE p == AfterReply(client[x], "Wait", None)
  <2>1. /\ k # None /\ Close(k)
        /\ client' = [client EXCEPT ![x] = p]
        /\ UNCHANGED <<queue, annotated, completed, notifying>>
        /\ faultsLeft' \in 0..MaxFaults
    BY <1>1, <1>4, FaultType DEF ReplyGarbled
  <2>2. p \in ClientState /\ JobAt(x, p) /\ p.conn = None /\ p.pc # "done"
    BY <1>1, <1>2, <2>1, AfterReplyJob
  <2> HIDE DEF p
  <2> QED
    BY <1>1, <1>2, <2>1, <2>2, ClientStep
<1>5. CASE CallFails(x)
  <2> DEFINE p == AfterError(client[x])
  <2>1. /\ client[x].pc \in CallState
        /\ client' = [client EXCEPT ![x] = p]
        /\ UNCHANGED <<images, handler, queue, annotated, completed, notifying>>
        /\ faultsLeft' \in 0..MaxFaults
    BY <1>1, <1>5, FaultType DEF CallFails, vars
  <2>2. p \in ClientState /\ JobAt(x, p) /\ p.conn = None /\ p.pc # "done"
    BY <1>1, <2>1, AfterErrorJob
  <2> HIDE DEF p
  <2> QED
    BY <1>1, <2>1, <2>2, ClientStep
<1> QED
  BY <1>3, <1>4, <1>5

\* A request reaches the arbiter.
LEMMA CallPInv ==
    ASSUME PInv, IInv', NEW x \in Client, Call(x)
    PROVE  ClientsInv'
<1> DEFINE r == RequestOf(x)
<1>1. /\ client \in [Client -> ClientState] /\ client[x] \in ClientState
      /\ JobAt(x, client[x])
      /\ handler \in [Conn -> Handler]
  BY DEF PInv, ProtocolTypeOK, JobsOK, IInv, TypeOK
<1>2. PICK k \in Conn :
         /\ Orphan(k) /\ Receive(k, r)
         /\ client' = [client EXCEPT ![x].conn = k]
  BY DEF Call
<1>3. /\ client[x].pc \in CallState /\ client[x].conn = None
      /\ UNCHANGED <<queue, annotated, completed, notifying, faultsLeft>>
  BY DEF Call
<1>4. /\ r.id = Host(x) /\ r.op = OpAt(client[x].pc)
      /\ client[x].pc \in {"alert", "request"} => r.spec = client[x].spec
      /\ client[x].pc \in {"done", "abort"} => r.hash = client[x].hash
  BY <1>1, <1>3, RequestType
<1> HIDE DEF r
<1> DEFINE p == [client[x] EXCEPT !.conn = k]
           q == [op |-> r.op, pc |-> IF r.op = "request" THEN "throttle" ELSE "lookup",
                 id |-> r.id, spec |-> r.spec, hash |-> r.hash, cd |-> None, reply |-> None]
<1>5. /\ client' = [client EXCEPT ![x] = p]
      /\ p \in ClientState /\ JobAt(x, p)
      /\ p.conn = k /\ p.pc = client[x].pc /\ p.spec = client[x].spec /\ p.hash = client[x].hash
  BY <1>1, <1>2, <1>3 DEF ClientState, JobAt
<1>6. /\ handler' = [handler EXCEPT ![k] = q] /\ UNCHANGED images
      /\ q.pc \in {"throttle", "lookup"}
      /\ q.op = r.op /\ q.id = r.id /\ q.spec = r.spec /\ q.hash = r.hash
  BY <1>2 DEF Receive, tables
<1> HIDE DEF p, q
<1>7. ServesCall(p, Host(x), q)
  BY <1>4, <1>5, <1>6 DEF ServesCall
<1>8. ProtocolTypeOK' /\ JobsOK'
  BY <1>1, <1>3, <1>5 DEF PInv, ProtocolTypeOK, IInv, JobsOK
<1>9. ConnectionsOK'
  <2>1. ASSUME NEW y \in Client, client'[y].conn # None, y # x
        PROVE  /\ client'[y] = client[y] /\ client[y].conn # k
               /\ handler'[client[y].conn] = handler[client[y].conn]
    <3>1. client'[y] = client[y] /\ client[y].conn # k /\ client[y].conn \in Conn
      BY <1>1, <1>2, <1>5, <2>1 DEF Orphan, ClientState
    <3> QED
      BY <1>1, <1>6, <3>1
  <2>2. client'[x] = p /\ handler'[k] = q
    BY <1>1, <1>5, <1>6
  <2> QED
    BY <1>5, <1>7, <2>1, <2>2 DEF ConnectionsOK, PInv
<1>10. ScannedOK'
  <2>1. \A y \in Client : client'[y].pc = "done" => client'[y].spec \in completed
    BY <1>1, <1>5 DEF PInv, ScannedOK
  <2>2. ASSUME NEW j \in Conn, handler'[j].op = "done", handler'[j].pc \notin {"idle", "replied"}
        PROVE  CompletedHash(handler[j].hash)'
    <3>1. CASE j = k
      <4>1. handler'[j] = q /\ q.op = "done"
        BY <1>1, <1>6, <2>2, <3>1
      <4>2. client[x].pc = "done"
        BY <1>3, <1>4, <1>6, <4>1 DEF OpAt, CallState
      <4>3. q.hash = Md5[client[x].spec] /\ client[x].spec \in completed
        BY <1>1, <1>4, <1>6, <4>2 DEF JobAt, PInv, ScannedOK
      <4> QED
        BY <1>3, <4>1, <4>3 DEF CompletedHash
    <3>2. CASE j # k
      BY <1>1, <1>3, <1>6, <2>2, <3>2 DEF PInv, ScannedOK, CompletedHash
    <3> QED
      BY <3>1, <3>2
  <2> QED
    BY <1>3, <1>6, <2>1, <2>2 DEF PInv, ScannedOK, NoFalseScanned
<1> QED
  BY <1>8, <1>9, <1>10 DEF ClientsInv

\* A goroutine of the arbiter makes a scanned image only of one that a report
\* of a completed scan is about.
LEMMA ServeImages ==
    ASSUME IInv, NEW k \in Conn, Serve(k), NEW s \in ImageSpec,
           images'[s] = "scanned", images[s] # "scanned"
    PROVE  /\ handler[k].op = "done" /\ handler[k].pc = "commit"
           /\ handler[k].hash = Md5[s]
<1>1. images \in [ImageSpec -> ImageStatus]
  BY DEF IInv, TypeOK
<1>2. ~saveFoundImage(k)
  BY <1>1 DEF saveFoundImage
<1>3. finalizeScan(k)
  BY <1>2 DEF Serve, Throttle, LookupKnown, LookupUnknown, Register, Check, findWorker,
              LookupImage, releaseScanForPeer, tables
<1>4. handler[k].op = "done" /\ handler[k].pc = "commit" /\ s = handler[k].spec
  BY <1>1, <1>3 DEF finalizeScan, At, setImageStatus
<1> QED
  BY <1>4 DEF IInv, HandlersOK, LocalsAt

\* The arbiter goes on with a request.
LEMMA ServePInv ==
    ASSUME PInv, IInv', NEW k \in Conn, ArbiterServes(k)
    PROVE  ClientsInv'
<1>1. /\ IInv /\ Serve(k)
      /\ UNCHANGED <<queue, client, annotated, completed, notifying, faultsLeft>>
  BY DEF ArbiterServes, clientVars, PInv
<1>2. /\ \A j \in Conn \ {k} : handler'[j] = handler[j]
      /\ handler[k].pc \notin {"idle", "replied"}
      /\ Answered(handler[k], handler'[k]) \/ Continues(handler[k], handler'[k])
  BY <1>1, ServeEffect
<1>3. ProtocolTypeOK' /\ JobsOK'
  BY <1>1 DEF PInv, ProtocolTypeOK, IInv, JobsOK
<1>4. ConnectionsOK'
  <2> SUFFICES ASSUME NEW x \in Client, client[x].conn # None
               PROVE  ServesCall(client[x], Host(x), handler'[client[x].conn])
    BY <1>1 DEF PInv, ConnectionsOK
  <2>1. ServesCall(client[x], Host(x), handler[client[x].conn])
    BY DEF PInv, ConnectionsOK
  <2>2. client[x].conn \in Conn
    BY DEF PInv, ProtocolTypeOK, ClientState
  <2>3. CASE client[x].conn = k /\ Answered(handler[k], handler'[k])
    BY <1>2, <2>1, <2>3 DEF ServesCall, Answered
  <2>4. CASE client[x].conn = k /\ Continues(handler[k], handler'[k])
    BY <1>2, <2>1, <2>4 DEF ServesCall, Continues
  <2> QED
    BY <1>2, <2>1, <2>2, <2>3, <2>4
<1>5. ScannedOK'
  <2>1. \A j \in Conn :
            handler'[j].op = "done" /\ handler'[j].pc \notin {"idle", "replied"} =>
                /\ handler[j].op = "done" /\ handler[j].pc \notin {"idle", "replied"}
                /\ handler'[j].hash = handler[j].hash
    BY <1>2 DEF Answered, Continues
  <2>2. ASSUME NEW s \in ImageSpec, images'[s] = "scanned"
        PROVE  s \in completed
    <3>1. CASE images[s] = "scanned"
      BY <3>1 DEF PInv, ScannedOK, NoFalseScanned
    <3>2. CASE images[s] # "scanned"
      <4>1. CompletedHash(Md5[s])
        BY <1>1, <2>2, <3>2, ServeImages DEF PInv, ScannedOK
      <4> QED
        BY <4>1, Md5Assumption DEF CompletedHash, PInv, ProtocolTypeOK
    <3> QED
      BY <3>1, <3>2
  <2> QED
    BY <1>1, <2>1, <2>2 DEF PInv, ScannedOK, NoFalseScanned, CompletedHash
<1> QED
  BY <1>3, <1>4, <1>5 DEF ClientsInv

\* A connection nobody waits on is closed.
LEMMA CloseOrphanPInv ==
    ASSUME PInv, IInv', NEW k \in Conn, CloseOrphan(k)
    PROVE  ClientsInv'
<1>1. /\ Orphan(k) /\ handler' = [handler EXCEPT ![k] = Idle]
      /\ UNCHANGED <<images, queue, client, annotated, completed, notifying, faultsLeft>>
  BY DEF CloseOrphan, clientVars, Close, tables
<1>2. handler \in [Conn -> Handler]
  BY DEF PInv, IInv, TypeOK
<1>3. ProtocolTypeOK' /\ JobsOK'
  BY <1>1 DEF PInv, ProtocolTypeOK, IInv, JobsOK
<1>4. ConnectionsOK'
  <2>1. \A x \in Client : client[x].conn # None => client[x].conn \in Conn /\ client[x].conn # k
    BY <1>1 DEF Orphan, PInv, ProtocolTypeOK, ClientState
  <2> QED
    BY <1>1, <1>2, <2>1, CallsKept DEF PInv
<1>5. ScannedOK'
  <2>1. \A j \in Conn : handler'[j].pc \notin {"idle", "replied"} => handler'[j] = handler[j]
    BY <1>1, <1>2 DEF Idle
  <2> QED
    BY <1>1, <2>1 DEF PInv, ScannedOK, NoFalseScanned, CompletedHash
<1> QED
  BY <1>3, <1>4, <1>5 DEF ClientsInv

\* A controller dies and is started again, or one of its images is queued
\* again.
LEMMA ControllerPInv ==
    ASSUME PInv, IInv', NEW c \in Controller,
           ControllerRestart(c) \/ \E s \in ImageSpec : Requeue(c, s)
    PROVE  ClientsInv'
<1>1. /\ client \in [Client -> ClientState]
      /\ queue \in [Controller -> SUBSET ImageSpec]
      /\ faultsLeft \in 0..MaxFaults
      /\ OnNode[c] \subseteq ImageSpec
  BY WorkersAssumption DEF PInv, ProtocolTypeOK, WorkersAssumption
<1>2. CASE ControllerRestart(c)
  <2>1. /\ client' = [x \in Client |->
              IF Host(x) # c THEN client[x] ELSE IF x = c THEN Booting ELSE NoJob]
        /\ queue' \in [Controller -> SUBSET ImageSpec]
        /\ faultsLeft' \in 0..MaxFaults
        /\ UNCHANGED <<images, handler, annotated, completed, notifying>>
    BY <1>1, <1>2, FaultType DEF ControllerRestart, vars
  <2>2. ASSUME NEW x \in Client
        PROVE  \/ client'[x] = client[x]
               \/ /\ client'[x] \in ClientState /\ JobAt(x, client'[x])
                  /\ client'[x].conn = None /\ client'[x].pc # "done"
    BY <2>1, FreshClients, HostType DEF Client
  <2>3. client' \in [Client -> ClientState]
    BY <1>1, <2>1, FreshClients
  <2>4. ProtocolTypeOK' /\ JobsOK'
    BY <2>1, <2>2, <2>3 DEF PInv, ProtocolTypeOK, IInv, JobsOK
  <2>5. ConnectionsOK'
    BY <2>1, <2>2, CallsKept DEF PInv
  <2>6. ScannedOK'
    BY <2>1, <2>2 DEF PInv, ScannedOK, NoFalseScanned, CompletedHash
  <2> QED
    BY <2>4, <2>5, <2>6 DEF ClientsInv
<1>3. ASSUME NEW s \in ImageSpec, Requeue(c, s)
      PROVE  ClientsInv'
  <2>1. /\ UNCHANGED <<images, handler, client, annotated, completed, notifying>>
        /\ queue' \in [Controller -> SUBSET ImageSpec]
        /\ faultsLeft' \in 0..MaxFaults
    BY <1>1, <1>3, FaultType DEF Requeue, vars
  <2>2. ConnectionsOK'
    BY <2>1, CallsKept DEF PInv
  <2> QED
    BY <2>1, <2>2
    DEF PInv, IInv, ClientsInv, ProtocolTypeOK, JobsOK, ScannedOK, CompletedHash, NoFalseScanned
<1> QED
  BY <1>2, <1>3

\* The arbiter dies and is started again: every call in progress fails.
LEMMA ArbiterRestartPInv ==
    ASSUME PInv, IInv', ArbiterRestart
    PROVE  ClientsInv'
<1>1. /\ client \in [Client -> ClientState]
      /\ faultsLeft \in 0..MaxFaults
      /\ \A x \in Client : JobAt(x, client[x])
  BY DEF PInv, ProtocolTypeOK, JobsOK
<1>2. /\ client' = [x \in Client |->
              IF client[x].conn = None THEN client[x] ELSE AfterError(client[x])]
      /\ faultsLeft' \in 0..MaxFaults
      /\ images' = [s \in ImageSpec |-> "absent"]
      /\ handler' = [k \in Conn |-> Idle]
      /\ notifying' = [s \in ImageSpec |-> None]
      /\ UNCHANGED <<queue, annotated, completed>>
  BY <1>1, FaultType DEF ArbiterRestart, Restart
<1>3. ASSUME NEW x \in Client
      PROVE  /\ client'[x] \in ClientState /\ JobAt(x, client'[x])
             /\ client'[x].conn = None
             /\ client'[x].pc = "done" => client'[x] = client[x]
  <2>1. CASE client[x].conn = None
    BY <1>1, <1>2, <2>1
  <2>2. CASE client[x].conn # None
    <3>1. client[x].pc \in CallState
      BY <1>1, <2>2 DEF JobAt
    <3>2. client'[x] = AfterError(client[x])
      BY <1>2, <2>2
    <3> QED
      BY <1>1, <3>1, <3>2, AfterErrorJob
  <2> QED
    BY <2>1, <2>2
<1>4. client' \in [Client -> ClientState]
  BY <1>2, <1>3
<1>5. ProtocolTypeOK' /\ JobsOK'
  BY <1>2, <1>3, <1>4 DEF PInv, ProtocolTypeOK, IInv, JobsOK
<1>6. ConnectionsOK'
  BY <1>3, CallsKept DEF PInv
<1>7. ScannedOK'
  <2>1. \A k \in Conn : handler'[k].pc = "idle"
    BY <1>2 DEF Idle
  <2> QED
    BY <1>2, <1>3, <2>1 DEF PInv, ScannedOK, NoFalseScanned, CompletedHash
<1> QED
  BY <1>5, <1>6, <1>7 DEF ClientsInv

\* The notification jobs and the watcher change what the arbiter knows of an
\* image.
LEMMA ImagePInv ==
    ASSUME PInv, IInv', NEW s \in ImageSpec,
           NotifyRead(s) \/ NotifyDone(s) \/ ImageAdded(s) \/ ImageRemoved(s)
    PROVE  ClientsInv'
<1>1. /\ faultsLeft \in 0..MaxFaults
      /\ notifying \in [ImageSpec -> {"true", "false", None}]
      /\ images \in [ImageSpec -> ImageStatus]
      /\ annotated \subseteq completed
  BY DEF PInv, ProtocolTypeOK, ScannedOK, IInv, TypeOK
<1>2. UNCHANGED <<handler, queue, client, annotated, completed>>
  BY DEF NotifyRead, NotifyDone, ImageAdded, ImageRemoved, vars, clientVars,
         DoneScan, addImage, RemoveImage
<1>3. faultsLeft' \in 0..MaxFaults
  BY <1>1, FaultType DEF NotifyRead, NotifyDone, ImageAdded, ImageRemoved, clientVars
<1>4. /\ notifying' \in [ImageSpec -> {"true", "false", None}]
      /\ \A t \in ImageSpec : notifying'[t] # None /\ notifying'[t] = "true" => t \in completed
  <2>1. CASE NotifyRead(s)
    BY <1>1, <2>1 DEF NotifyRead, PInv, ScannedOK
  <2>2. CASE NotifyDone(s)
    BY <1>1, <2>2 DEF NotifyDone, PInv, ScannedOK
  <2>3. CASE ImageAdded(s) \/ ImageRemoved(s)
    BY <1>1, <2>3 DEF ImageAdded, ImageRemoved, clientVars, PInv, ScannedOK
  <2> QED
    BY <2>1, <2>2, <2>3
<1>5. ASSUME NEW t \in ImageSpec, images'[t] = "scanned"
      PROVE  t \in completed
  <2>1. CASE images[t] = "scanned"
    BY <2>1 DEF PInv, ScannedOK, NoFalseScanned
  <2>2. CASE images[t] # "scanned"
    <3>1. NotifyDone(s) /\ t = s /\ notifying[s] = "true" /\ notifying[s] # None
      BY <1>1, <1>5, <2>2
      DEF NotifyRead, NotifyDone, ImageAdded, ImageRemoved, vars,
          DoneScan, setImageStatus, addImage, RemoveImage
    <3> QED
      BY <3>1 DEF PInv, ScannedOK
  <2> QED
    BY <2>1, <2>2
<1>6. ProtocolTypeOK' /\ JobsOK'
  BY <1>2, <1>3, <1>4 DEF PInv, ProtocolTypeOK, IInv, JobsOK
<1>7. ConnectionsOK'
  BY <1>2, CallsKept DEF PInv
<1>8. ScannedOK'
  BY <1>2, <1>4, <1>5 DEF PInv, ScannedOK, NoFalseScanned, CompletedHash
<1> QED
  BY <1>6, <1>7, <1>8 DEF ClientsInv

-----------------------------------------------------------------------------

\* The clients and the arbiter are in order when they start.
LEMMA InitPInv == ProtocolInit => PInv
<1> SUFFICES ASSUME ProtocolInit PROVE PInv
  OBVIOUS
<1>1. IInv
  BY InitIInv DEF ProtocolInit
<1>2. /\ handler = [k \in Conn |-> Idle]
      /\ images = [s \in ImageSpec |-> "absent"]
      /\ InitClients
  BY DEF ProtocolInit, Init, NewArbiter
<1>3. \A x \in Client : /\ client[x] \in ClientState /\ JobAt(x, client[x])
                        /\ client[x].conn = None /\ client[x].pc # "done"
  BY <1>2, FreshClients DEF InitClients, Client
<1>4. ProtocolTypeOK
  <2>1. queue \in [Controller -> SUBSET ImageSpec] /\ faultsLeft \in 0..MaxFaults
    BY <1>2, WorkersAssumption DEF InitClients, WorkersAssumption
  <2>2. client \in [Client -> ClientState]
    BY <1>2, FreshClients DEF InitClients
  <2> QED
    BY <1>1, <1>2, <2>1, <2>2 DEF ProtocolTypeOK, IInv, InitClients
<1>5. JobsOK /\ ConnectionsOK
  BY <1>3 DEF JobsOK, ConnectionsOK
<1>6. ScannedOK
  BY <1>2, <1>3 DEF ScannedOK, NoFalseScanned, InitClients, Idle
<1> QED
  BY <1>1, <1>4, <1>5, <1>6 DEF PInv

\* Every step of the protocol preserves PInv.
LEMMA NextPInv == PInv /\ [ProtocolNext]_protocolVars => PInv'
<1> SUFFICES ASSUME PInv, [ProtocolNext]_protocolVars PROVE PInv'
  OBVIOUS
<1>1. CASE ProtocolNext
  <2>1. IInv'
    BY <1>1, ArbiterStep, NextIInv DEF PInv
  <2>2. ClientsInv'
    BY <1>1, <2>1, WorkerPInv, CallPInv, CallEndsPInv, ServePInv, CloseOrphanPInv,
       ControllerPInv, ArbiterRestartPInv, ImagePInv DEF ProtocolNext
  <2> QED
    BY <2>1, <2>2 DEF PInv, ClientsInv
<1>2. CASE UNCHANGED protocolVars
  <2>1. UNCHANGED vars /\ UNCHANGED clientVars
    BY <1>2 DEF protocolVars
  <2>2. IInv'
    BY <2>1, NextIInv DEF PInv
  <2>3. ConnectionsOK'
    BY <2>1, CallsKept DEF PInv, vars, clientVars
  <2> QED
    BY <2>1, <2>2, <2>3
    DEF PInv, IInv, vars, clientVars, ProtocolTypeOK, JobsOK, ScannedOK, CompletedHash, NoFalseScanned
<1> QED
  BY <1>1, <1>2

\* PInv holds throughout, whatever fails.
THEOREM ProtocolInvariant == ProtocolSpec => []PInv
  BY InitPInv, NextPInv, PTL DEF ProtocolSpec

\* The controllers and their goroutines keep their types.
THEOREM ProtocolTypeCorrect == ProtocolSpec => []ProtocolTypeOK
<1>1. PInv => ProtocolTypeOK
  BY DEF PInv
<1> QED
  BY <1>1, ProtocolInvariant, PTL

\* The arbiter of the protocol behaves as Arbiter says: what is proved there
\* for clients that send anything holds for the controllers' clients.
THEOREM ProtocolImplementsArbiter == ProtocolSpec => Spec
<1>1. ProtocolInit => Init
  BY DEF ProtocolInit
<1>2. PInv /\ [ProtocolNext]_protocolVars => [Next]_vars
  <2> SUFFICES ASSUME PInv, [ProtocolNext]_protocolVars PROVE [Next]_vars
    OBVIOUS
  <2>1. CASE ProtocolNext
    BY <2>1, ArbiterStep DEF PInv
  <2>2. CASE UNCHANGED protocolVars
    BY <2>2 DEF protocolVars
  <2> QED
    BY <2>1, <2>2
<1> QED
  BY <1>1, <1>2, ProtocolInvariant, PTL DEF ProtocolSpec, Spec

\* The arbiter never takes an image for scanned that no worker has scanned to
\* the end, for every set of faults.
THEOREM NeverFalselyScanned == ProtocolSpec => []NoFalseScanned
<1>1. PInv => NoFalseScanned
  BY DEF PInv, ScannedOK
<1> QED
  BY <1>1, ProtocolInvariant, PTL
=============================================================================
