-------------------------- MODULE ScanExclusionProofs --------------------------
(***************************************************************************)
(* No image is scanned by two workers at a time, and none is scanned       *)
(* again: proofs about ScanProtocol for any number of lost calls, garbled  *)
(* replies, failed scans and controllers that crash with their reports     *)
(* still on the way.  The arbiter must not restart, and an image must not  *)
(* be queued again while it is scanned (the run scanned_together).         *)
(*                                                                         *)
(* If calls are answered and nobody dies, the ledgers agree and no slot of *)
(* the Hub leaks; CrashedController.cfg shows what one death does.         *)
(***************************************************************************)
EXTENDS ScanProtocolProofs

\* Worker w scans, is about to report, or has the order to scan on its way.
Holder(w) ==
    \/ client[w].pc \in {"scan", "done", "abort"} /\ client[w].conn = None
    \/ /\ client[w].pc = "request"
       /\ client[w].conn # None
       /\ handler[client[w].conn].pc = "replied"
       /\ handler[client[w].conn].reply = "Start"

\* A scanDone or scanAbort is being served, whether or not its client is
\* still there.
Reporting(k) ==
    handler[k].op \in {"done", "abort"} /\ handler[k].pc \notin {"idle", "replied"}

\* Worker w has not been told that it may request its image: foundImage has
\* yet to look whether its controller holds the assignment already.
Unchecked(w) ==
    \/ client[w].pc = "heartbeat"
    \/ /\ client[w].pc = "alert"
       /\ client[w].conn # None =>
            /\ handler[client[w].conn].pc # "save"
            /\ ~ (/\ handler[client[w].conn].pc = "replied"
                  /\ handler[client[w].conn].reply = "Created")

\* A controller has one job for an image, waiting or taken.
OneJob ==
    \A w \in Worker : client[w].spec # None =>
        /\ client[w].spec \notin queue[HostOf[w]]
        /\ \A v \in Worker :
              HostOf[v] = HostOf[w] /\ client[v].spec = client[w].spec => v = w

\* A holder has the assignment, and no report is on its way to end it.
HoldersOK ==
    \A w \in Worker : Holder(w) =>
        /\ assignedImages[Md5[client[w].spec]] =
              [ControllerID |-> HostOf[w], ImageSpec |-> client[w].spec]
        /\ \A k \in Conn : Reporting(k) => handler[k].hash # Md5[client[w].spec]

\* A report on its way is the only one for its assignment, which is still in
\* place, and no other worker of the controller can come to hold it meanwhile.
ReportsOK ==
    \A k \in Conn : Reporting(k) =>
        /\ handler[k].hash \in Hash
        /\ assignedImages[handler[k].hash] # None
        /\ assignedImages[handler[k].hash].ControllerID = handler[k].id
        /\ \A j \in Conn : Reporting(j) /\ handler[j].hash = handler[k].hash => j = k
        /\ \A w \in Worker :
              /\ HostOf[w] = assignedImages[handler[k].hash].ControllerID
              /\ client[w].spec = assignedImages[handler[k].hash].ImageSpec
              => client[w].conn = k \/ Unchecked(w)

XInv == OneJob /\ HoldersOK /\ ReportsOK

-----------------------------------------------------------------------------

\* What a worker holds depends on its own record and on the goroutine that
\* serves its call.
LEMMA SameView ==
    ASSUME NEW w \in Worker, client'[w] = client[w],
           client[w].conn # None => handler'[client[w].conn] = handler[client[w].conn]
    PROVE  (Holder(w)' <=> Holder(w)) /\ (Unchecked(w)' <=> Unchecked(w))
  BY DEF Holder, Unchecked

\* A step that assigns nothing, starts no report and makes no new holder.
LEMMA QuietStep ==
    ASSUME PInv, PInv', HoldersOK, ReportsOK, UNCHANGED assignedImages,
           \A k \in Conn : handler'[k] = handler[k] \/ handler'[k].pc \in {"idle", "replied"},
           \A w \in Worker : Holder(w)' => Holder(w) /\ client'[w].spec = client[w].spec,
           \A w \in Worker, k \in Conn :
               Reporting(k) /\ client'[w].spec # None =>
                   \/ Unchecked(w)'
                   \/ /\ client'[w].spec = client[w].spec
                      /\ client[w].conn = k \/ Unchecked(w) => client'[w].conn = k
    PROVE  HoldersOK' /\ ReportsOK'
<1>1. ASSUME NEW k \in Conn, Reporting(k)'
      PROVE  handler'[k] = handler[k] /\ Reporting(k)
  BY <1>1 DEF Reporting
<1>2. HoldersOK'
  BY <1>1 DEF HoldersOK
<1>3. ReportsOK'
  <2> SUFFICES ASSUME NEW k \in Conn, Reporting(k)'
               PROVE  /\ handler[k].hash \in Hash
                      /\ assignedImages[handler[k].hash] # None
                      /\ assignedImages[handler[k].hash].ControllerID = handler[k].id
                      /\ \A j \in Conn : Reporting(j)' /\ handler'[j].hash = handler[k].hash => j = k
                      /\ \A w \in Worker :
                            /\ HostOf[w] = assignedImages[handler[k].hash].ControllerID
                            /\ client'[w].spec = assignedImages[handler[k].hash].ImageSpec
                            => client'[w].conn = k \/ Unchecked(w)'
    BY <1>1 DEF ReportsOK
  <2>1. Reporting(k)
    BY <1>1
  <2>2. \A j \in Conn : Reporting(j)' /\ handler'[j].hash = handler[k].hash => j = k
    BY <1>1, <2>1 DEF ReportsOK
  <2>3. /\ handler[k].hash \in Hash
        /\ assignedImages[handler[k].hash] # None
        /\ assignedImages[handler[k].hash].ControllerID = handler[k].id
    BY <2>1 DEF ReportsOK
  <2>4. ASSUME NEW w \in Worker, HostOf[w] = assignedImages[handler[k].hash].ControllerID,
               client'[w].spec = assignedImages[handler[k].hash].ImageSpec
        PROVE  client'[w].conn = k \/ Unchecked(w)'
    <3>1. client'[w].spec # None
      BY <2>3, <2>4, AssignmentFacts, SetsAssumption DEF PInv
    <3> QED
      BY <2>1, <2>4, <3>1 DEF ReportsOK
  <2> QED
    BY <2>2, <2>3, <2>4
<1> QED
  BY <1>2, <1>3

\* A worker keeps its call, is without a job, starts one, or moves on with the
\* image it has: to scan and to report only as a holder, to request only past
\* the check.
WorkerMoves(w) ==
    \/ /\ client'[w] = client[w]
       /\ client[w].conn # None => handler'[client[w].conn] = handler[client[w].conn]
    \/ client'[w].pc = "idle"
    \/ client'[w].pc = "heartbeat" /\ client'[w].conn = None
    \/ /\ client'[w].spec = client[w].spec /\ client'[w].conn = None
       /\ client[w].pc # "done"
       /\ client'[w].pc \in {"scan", "done", "abort"} => Holder(w)
       /\ client'[w].pc = "request" => ~Unchecked(w)
       /\ \A k \in Conn : Reporting(k) => client[w].conn # k

\* Goroutines of the arbiter stay where they are, or their connections are
\* closed.
HandlersRest ==
    \A k \in Conn : handler'[k] = handler[k] \/ handler'[k].pc \in {"idle", "replied"}

\* A step that leaves the arbiter alone, or only closes connections.
LEMMA WorkersStep ==
    ASSUME PInv, PInv', XInv, UNCHANGED assignedImages, HandlersRest,
           \A w \in Worker : WorkerMoves(w)
    PROVE  HoldersOK' /\ ReportsOK'
<1>1. ASSUME NEW w \in Worker
      PROVE  /\ Holder(w)' => Holder(w) /\ client'[w].spec = client[w].spec
             /\ \A k \in Conn :
                  Reporting(k) /\ client'[w].spec # None =>
                      \/ Unchecked(w)'
                      \/ /\ client'[w].spec = client[w].spec
                         /\ client[w].conn = k \/ Unchecked(w) => client'[w].conn = k
  <2>1. CASE /\ client'[w] = client[w]
             /\ client[w].conn # None => handler'[client[w].conn] = handler[client[w].conn]
    BY <2>1, SameView
  <2>2. CASE client'[w].pc = "idle"
    <3>1. client'[w].spec = None /\ client'[w].conn = None
      BY <2>2, HostType DEF PInv, JobsOK, JobAt, CallState
    <3> QED
      BY <2>2, <3>1 DEF Holder
  <2>3. CASE client'[w].pc = "heartbeat" /\ client'[w].conn = None
    BY <2>3 DEF Holder, Unchecked
  <2>4. CASE /\ client'[w].spec = client[w].spec /\ client'[w].conn = None
             /\ client[w].pc # "done"
             /\ client'[w].pc \in {"scan", "done", "abort"} => Holder(w)
             /\ client'[w].pc = "request" => ~Unchecked(w)
             /\ \A k \in Conn : Reporting(k) => client[w].conn # k
    <3>1. client'[w].pc \in {"idle", "heartbeat", "alert", "request", "scan", "done", "abort"}
      BY HostType DEF PInv, JobsOK, JobAt, ProtocolTypeOK, ClientState, CallState
    <3>2. CASE client'[w].pc = "idle"
      BY <2>2, <3>2
    <3>3. CASE client'[w].pc \in {"heartbeat", "alert"}
      BY <2>4, <3>3 DEF Holder, Unchecked
    <3>4. CASE client'[w].pc = "request"
      BY <2>4, <3>4 DEF Holder
    <3>5. CASE client'[w].pc \in {"scan", "done", "abort"}
      BY <2>4, <3>5 DEF Holder, Unchecked
    <3> QED
      BY <3>1, <3>2, <3>3, <3>4, <3>5
  <2> QED
    BY <2>1, <2>2, <2>3, <2>4 DEF WorkerMoves
<1> QED
  BY <1>1, QuietStep DEF XInv, HandlersRest

\* Jobs that end, or go on, leave a controller with one job for an image.
LEMMA OneJobKept ==
    ASSUME OneJob,
           \A w \in Worker : client'[w].spec \in {None, client[w].spec},
           \A w \in Worker : client'[w].spec # None => queue'[HostOf[w]] \subseteq queue[HostOf[w]]
    PROVE  OneJob'
<1> SUFFICES ASSUME NEW w \in Worker, client'[w].spec # None
             PROVE  /\ client'[w].spec \notin queue'[HostOf[w]]
                    /\ \A v \in Worker :
                          HostOf[v] = HostOf[w] /\ client'[v].spec = client'[w].spec => v = w
  BY DEF OneJob
<1>1. client'[w].spec = client[w].spec
  OBVIOUS
<1>2. client'[w].spec \notin queue'[HostOf[w]]
  BY <1>1 DEF OneJob
<1>3. ASSUME NEW v \in Worker, HostOf[v] = HostOf[w], client'[v].spec = client'[w].spec
      PROVE  v = w
  <2>1. client[v].spec = client[w].spec
    BY <1>1, <1>3
  <2> QED
    BY <1>1, <1>3, <2>1 DEF OneJob
<1> QED
  BY <1>2, <1>3

\* A worker takes a job, ends a scan, or has one fail.
LEMMA WorkerEffect ==
    ASSUME PInv, NEW w \in Worker,
           TakeJob(w) \/ DropJob(w) \/ ScanCompletes(w) \/ ScanFails(w)
    PROVE  /\ UNCHANGED <<assignedImages, images, handler, notifying>>
           /\ HandlersRest
           /\ \A v \in Worker : WorkerMoves(v)
<1>1. /\ client \in [Client -> ClientState] /\ w \in Client
      /\ JobAt(w, client[w])
      /\ \A v \in Worker : v \in Client
  BY HostType DEF PInv, ProtocolTypeOK, JobsOK
<1>2. UNCHANGED <<assignedImages, images, handler, notifying>> /\ HandlersRest
  BY DEF TakeJob, DropJob, ScanCompletes, ScanFails, vars, HandlersRest
<1>3. CASE TakeJob(w)
  <2>1. PICK s \in queue[HostOf[w]] :
           client' = [client EXCEPT ![w] = [NoJob EXCEPT !.pc = "heartbeat", !.spec = s]]
    BY <1>3 DEF TakeJob
  <2>2. /\ client'[w] = [pc |-> "heartbeat", spec |-> s, hash |-> None, conn |-> None]
        /\ \A v \in Worker : v # w => client'[v] = client[v]
    BY <1>1, <2>1 DEF NoJob, Booting
  <2>3. client'[w].pc = "heartbeat" /\ client'[w].conn = None
    BY <2>2
  <2> QED
    BY <1>2, <2>2, <2>3 DEF WorkerMoves
<1>4. CASE DropJob(w)
  BY <1>2, <1>4 DEF DropJob, WorkerMoves
<1>5. CASE ScanCompletes(w) \/ ScanFails(w)
  <2>1. /\ client[w].pc = "scan"
        /\ client'[w].pc \in {"done", "abort"}
        /\ client'[w].spec = client[w].spec /\ client'[w].conn = client[w].conn
        /\ \A v \in Worker : v # w => client'[v] = client[v]
    BY <1>1, <1>5 DEF ScanCompletes, ScanFails, ClientState
  <2>2. client[w].conn = None /\ Holder(w)
    BY <1>1, <2>1 DEF JobAt, CallState, Holder
  <2>3. \A k \in Conn : client[w].conn # k
    BY <2>2, SetsAssumption
  <2> QED
    BY <1>2, <2>1, <2>2, <2>3 DEF WorkerMoves
<1> QED
  BY <1>2, <1>3, <1>4, <1>5

\* Such a step preserves XInv.
LEMMA WorkerXInv ==
    ASSUME PInv, PInv', XInv, NEW w \in Worker,
           TakeJob(w) \/ DropJob(w) \/ ScanCompletes(w) \/ ScanFails(w)
    PROVE  XInv'
<1>1. /\ client \in [Client -> ClientState] /\ w \in Client /\ HostOf[w] \in Controller
      /\ queue \in [Controller -> SUBSET ImageSpec]
      /\ \A v \in Worker : v \in Client /\ HostOf[v] \in Controller
  BY HostType, WorkersAssumption DEF PInv, ProtocolTypeOK, WorkersAssumption
<1>2. HoldersOK' /\ ReportsOK'
  BY WorkerEffect, WorkersStep
<1>3. CASE TakeJob(w)
  <2>1. PICK s \in queue[HostOf[w]] :
           /\ queue' = [queue EXCEPT ![HostOf[w]] = @ \ {s}]
           /\ client' = [client EXCEPT ![w] = [NoJob EXCEPT !.pc = "heartbeat", !.spec = s]]
    BY <1>3 DEF TakeJob
  <2>2. /\ client'[w] = [pc |-> "heartbeat", spec |-> s, hash |-> None, conn |-> None]
        /\ \A v \in Worker : v # w => client'[v] = client[v]
    BY <1>1, <2>1 DEF NoJob, Booting
  <2>3. client'[w].spec = s
    BY <2>2
  <2>4. s \in ImageSpec /\ s # None
    BY <1>1, SetsAssumption
  <2>5. \A v \in Worker : HostOf[v] = HostOf[w] => client[v].spec # s
    BY <2>1, <2>4 DEF XInv, OneJob
  <2>6. \A v \in Worker : queue'[HostOf[v]] \subseteq queue[HostOf[v]]
    BY <1>1, <2>1
  <2>7. s \notin queue'[HostOf[w]]
    BY <1>1, <2>1
  <2>8. OneJob'
    BY <2>2, <2>3, <2>4, <2>5, <2>6, <2>7 DEF XInv, OneJob
  <2> QED
    BY <1>2, <2>8 DEF XInv
<1>4. CASE DropJob(w)
  <2>1. /\ UNCHANGED client
        /\ \A v \in Worker : queue'[HostOf[v]] \subseteq queue[HostOf[v]]
    BY <1>1, <1>4 DEF DropJob
  <2> QED
    BY <1>2, <2>1, OneJobKept DEF XInv
<1>5. CASE ScanCompletes(w) \/ ScanFails(w)
  <2>1. /\ \A v \in Worker : client'[v].spec = client[v].spec
        /\ UNCHANGED queue
    BY <1>1, <1>5 DEF ScanCompletes, ScanFails, ClientState
  <2> QED
    BY <1>2, <2>1, OneJobKept DEF XInv
<1> QED
  BY <1>3, <1>4, <1>5

\* A client's call returns, is cut short, or fails.
LEMMA CallEndsEffect ==
    ASSUME PInv, NEW x \in Client, Return(x) \/ ReplyGarbled(x) \/ CallFails(x)
    PROVE  /\ UNCHANGED <<assignedImages, images, queue, completed, notifying>>
           /\ HandlersRest
           /\ \A v \in Worker : WorkerMoves(v) /\ client'[v].spec \in {None, client[v].spec}
<1> DEFINE k == client[x].conn
<1>1. /\ client \in [Client -> ClientState] /\ client[x] \in ClientState
      /\ handler \in [Conn -> Handler]
      /\ JobAt(x, client[x])
      /\ \A v \in Worker : v \in Client
  BY HostType DEF PInv, ProtocolTypeOK, JobsOK, IInv, TypeOK
<1>2. UNCHANGED <<assignedImages, images, queue, completed, notifying>>
  BY DEF Return, ReplyGarbled, CallFails, Close, tables, vars
<1>3. ASSUME k # None, Close(k)
      PROVE  /\ k \in Conn /\ client[x].pc \in CallState
             /\ handler[k].pc = "replied" /\ handler[k].hash \in Hash \cup {None}
             /\ client[x].pc = "request" /\ handler[k].reply = "Start"
                   => handler[k].hash = Md5[client[x].spec]
             /\ HandlersRest
             /\ \A j \in Conn : Reporting(j) => j # k
             /\ \A v \in Worker : v # x /\ client[v].conn # None =>
                    handler'[client[v].conn] = handler[client[v].conn]
  <2>1. k \in Conn
    BY <1>1, <1>3 DEF ClientState
  <2>2. handler[k].pc = "replied" /\ handler' = [handler EXCEPT ![k] = Idle]
    BY <1>3 DEF Close, At
  <2>3. ServesCall(client[x], Host(x), handler[k])
    BY <1>3 DEF PInv, ConnectionsOK
  <2>4. \A v \in Worker : v # x /\ client[v].conn # None => client[v].conn \in Conn \ {k}
    BY <1>1, <1>3 DEF PInv, ConnectionsOK, ClientState
  <2>5. HandlersRest
    BY <1>1, <2>2 DEF HandlersRest, Idle
  <2> QED
    BY <1>1, <1>3, <2>1, <2>2, <2>3, <2>4, <2>5 DEF JobAt, ServesCall, Handler, Reporting
<1>4. ASSUME NEW reply, NEW hash \in Hash \cup {None}, k # None, Close(k),
             client[x].pc = "request" /\ reply = "Start" => hash = Md5[client[x].spec],
             reply \in {handler[k].reply, "Wait"},
             reply # handler[k].reply => client[x].pc = "request",
             client' = [client EXCEPT ![x] = AfterReply(client[x], reply, hash)]
      PROVE  HandlersRest /\ \A v \in Worker :
                 WorkerMoves(v) /\ client'[v].spec \in {None, client[v].spec}
  <2> DEFINE r == AfterReply(client[x], reply, hash)
  <2>1. /\ r.conn = None /\ r.pc \notin {"done", "abort"}
        /\ r.spec \in {None, client[x].spec}
        /\ r.pc \notin {"idle", "up"} => r.spec = client[x].spec
        /\ r.pc = "scan" => client[x].pc = "request" /\ reply = "Start"
        /\ r.pc = "request" =>
              client[x].pc = "request" \/ (client[x].pc = "alert" /\ reply = "Created")
        /\ client[x].pc = "done" => r.pc = "idle"
        /\ JobAt(x, r)
    BY <1>1, <1>3, <1>4, AfterReplyJob
  <2>2. client'[x] = r /\ \A v \in Worker : v # x => client'[v] = client[v]
    BY <1>1, <1>4
  <2> HIDE DEF r
  <2>3. x \in Worker => r.pc # "up"
    BY <2>1, HostType DEF JobAt
  <2>4. r.pc = "scan" => Holder(x)
    BY <1>3, <1>4, <2>1 DEF Holder
  <2>5. r.pc = "request" => ~Unchecked(x)
    BY <1>3, <1>4, <2>1 DEF Unchecked
  <2>6. \A j \in Conn : Reporting(j) => client[x].conn # j
    BY <1>3, <1>4
  <2>7. x \in Worker => WorkerMoves(x)
    BY <2>1, <2>2, <2>3, <2>4, <2>5, <2>6 DEF WorkerMoves
  <2>8. \A v \in Worker : v # x => WorkerMoves(v)
    BY <1>3, <1>4, <2>2 DEF WorkerMoves
  <2> QED
    BY <1>3, <1>4, <2>1, <2>2, <2>7, <2>8
<1>5. CASE Return(x)
  <2>1. /\ k # None /\ Close(k)
        /\ client' = [client EXCEPT ![x] = AfterReply(client[x], handler[k].reply, handler[k].hash)]
    BY <1>1, <1>5 DEF Return
  <2> QED
    BY <1>2, <1>3, <1>4, <2>1
<1>6. CASE ReplyGarbled(x)
  <2>1. /\ k # None /\ Close(k) /\ client[x].pc = "request"
        /\ client' = [client EXCEPT ![x] = AfterReply(client[x], "Wait", None)]
    BY <1>1, <1>6 DEF ReplyGarbled
  <2> QED
    BY <1>2, <1>4, <2>1
<1>7. CASE CallFails(x)
  <2> DEFINE r == AfterError(client[x])
  <2>1. /\ client' = [client EXCEPT ![x] = r]
        /\ client[x].pc \in CallState
        /\ UNCHANGED handler
    BY <1>1, <1>7 DEF CallFails, vars
  <2>2. /\ r.conn = None
        /\ r.pc \in {"up", "heartbeat", "idle"}
        /\ r.spec \in {None, client[x].spec}
        /\ JobAt(x, r)
    BY <1>1, <2>1, AfterErrorJob
  <2>3. client'[x] = r /\ \A v \in Worker : v # x => client'[v] = client[v]
    BY <1>1, <2>1
  <2> HIDE DEF r
  <2>4. x \in Worker => r.pc # "up"
    BY <2>2, HostType DEF JobAt
  <2> QED
    BY <1>2, <2>1, <2>2, <2>3, <2>4 DEF WorkerMoves, HandlersRest
<1> QED
  BY <1>5, <1>6, <1>7

\* Such a step preserves XInv.
LEMMA CallEndsXInv ==
    ASSUME PInv, PInv', XInv, NEW x \in Client, Return(x) \/ ReplyGarbled(x) \/ CallFails(x)
    PROVE  XInv'
<1>1. /\ UNCHANGED <<assignedImages, queue>> /\ HandlersRest
      /\ \A v \in Worker : WorkerMoves(v) /\ client'[v].spec \in {None, client[v].spec}
  BY CallEndsEffect
<1>2. HoldersOK' /\ ReportsOK'
  BY <1>1, WorkersStep
<1> QED
  BY <1>1, <1>2, OneJobKept DEF XInv

\* What a call changes: the connection is taken by the client alone, and the
\* goroutine that serves it is at the start of its handler.
LEMMA CallEffect ==
    ASSUME PInv, NEW x \in Client, Call(x)
    PROVE  \E k \in Conn :
             /\ client[x].conn = None /\ client[x].pc \in CallState
             /\ client'[x].conn = k /\ client'[x].pc = client[x].pc
             /\ client'[x].spec = client[x].spec /\ client'[x].hash = client[x].hash
             /\ \A y \in Client : y # x =>
                   /\ client'[y] = client[y]
                   /\ client[y].conn # None => handler'[client[y].conn] = handler[client[y].conn]
             /\ handler[k].pc = "idle"
             /\ handler'[k].pc \in {"throttle", "lookup"}
             /\ handler'[k].op = OpAt(client[x].pc) /\ handler'[k].id = Host(x)
             /\ client[x].pc \in {"done", "abort"} => handler'[k].hash = client[x].hash
             /\ \A j \in Conn : j # k => handler'[j] = handler[j]
             /\ UNCHANGED <<tables, queue, annotated, completed, notifying, faultsLeft>>
<1> DEFINE r == RequestOf(x)
<1>1. /\ client \in [Client -> ClientState] /\ client[x] \in ClientState
      /\ JobAt(x, client[x])
      /\ handler \in [Conn -> Handler]
  BY DEF PInv, ProtocolTypeOK, JobsOK, IInv, TypeOK
<1>2. PICK k \in Conn :
         /\ Orphan(k) /\ Receive(k, r)
         /\ client' = [client EXCEPT ![x].conn = k]
  BY DEF Call
<1>3. /\ client[x].pc \in CallState /\ client[x].conn = None
      /\ UNCHANGED <<queue, annotated, completed, notifying, faultsLeft>>
  BY DEF Call
<1>4. /\ r.id = Host(x) /\ r.op = OpAt(client[x].pc)
      /\ client[x].pc \in {"done", "abort"} => r.hash = client[x].hash
  BY <1>1, <1>3, RequestType
<1> HIDE DEF r
<1>5. /\ client'[x].conn = k /\ client'[x].pc = client[x].pc
      /\ client'[x].spec = client[x].spec /\ client'[x].hash = client[x].hash
      /\ \A y \in Client : y # x => client'[y] = client[y]
  BY <1>1, <1>2 DEF ClientState
<1>6. /\ handler[k].pc = "idle"
      /\ handler'[k].pc \in {"throttle", "lookup"}
      /\ handler'[k].op = r.op /\ handler'[k].id = r.id /\ handler'[k].hash = r.hash
      /\ \A j \in Conn : j # k => handler'[j] = handler[j]
      /\ UNCHANGED tables
  BY <1>1, <1>2 DEF Receive, At
<1>7. \A y \in Client : y # x /\ client[y].conn # None => client[y].conn \in Conn \ {k}
  BY <1>1, <1>2 DEF Orphan, ClientState
<1> QED
  BY <1>3, <1>4, <1>5, <1>6, <1>7

\* A request reaches the arbiter.
LEMMA CallXInv ==
    ASSUME PInv, PInv', XInv, NEW x \in Client, Call(x)
    PROVE  XInv'
<1>1. PICK k \in Conn :
             /\ client[x].conn = None /\ client[x].pc \in CallState
             /\ client'[x].conn = k /\ client'[x].pc = client[x].pc
             /\ client'[x].spec = client[x].spec /\ client'[x].hash = client[x].hash
             /\ \A y \in Client : y # x =>
                   /\ client'[y] = client[y]
                   /\ client[y].conn # None => handler'[client[y].conn] = handler[client[y].conn]
             /\ handler[k].pc = "idle"
             /\ handler'[k].pc \in {"throttle", "lookup"}
             /\ handler'[k].op = OpAt(client[x].pc) /\ handler'[k].id = Host(x)
             /\ client[x].pc \in {"done", "abort"} => handler'[k].hash = client[x].hash
             /\ \A j \in Conn : j # k => handler'[j] = handler[j]
             /\ UNCHANGED <<tables, queue>>
  BY CallEffect
<1>2. \A v \in Worker : v \in Client /\ Host(v) = HostOf[v]
  BY HostType
<1>3. OneJob'
  BY <1>1, <1>2, OneJobKept DEF XInv
<1>4. ASSUME NEW v \in Worker, v # x
      PROVE  (Holder(v)' <=> Holder(v)) /\ (Unchecked(v)' <=> Unchecked(v))
  BY <1>1, <1>2, <1>4, SameView
<1>5. x \in Worker => ~Holder(x)'
  BY <1>1, SetsAssumption DEF Holder
<1>6. ASSUME x \in Worker, Unchecked(x)
      PROVE  Unchecked(x)'
  BY <1>1, <1>6 DEF Unchecked
<1>7. UNCHANGED assignedImages
  BY <1>1 DEF tables
<1>8. ASSUME NEW j \in Conn, j # k
      PROVE  handler'[j] = handler[j] /\ (Reporting(j)' <=> Reporting(j))
  BY <1>1, <1>8 DEF Reporting
<1>9. ~Reporting(k)
  BY <1>1 DEF Reporting
<1>10. Reporting(k)' => client[x].pc \in {"done", "abort"}
  BY <1>1 DEF Reporting, OpAt, CallState
<1>11. ASSUME client[x].pc \in {"done", "abort"}
       PROVE  /\ x \in Worker /\ Holder(x)
              /\ client[x].hash = Md5[client[x].spec] /\ client[x].spec \in ImageSpec
              /\ client[x].hash \in Hash
              /\ assignedImages[client[x].hash] =
                    [ControllerID |-> HostOf[x], ImageSpec |-> client[x].spec]
              /\ \A j \in Conn : Reporting(j) => handler[j].hash # client[x].hash
  <2>1. JobAt(x, client[x])
    BY DEF PInv, JobsOK
  <2>2. x \in Worker /\ Holder(x)
    BY <1>1, <1>11, <2>1 DEF JobAt, Client, Holder
  <2> QED
    BY <1>11, <2>1, <2>2, Md5Assumption DEF JobAt, XInv, HoldersOK
<1>12. HoldersOK'
  <2> SUFFICES ASSUME NEW v \in Worker, Holder(v)'
               PROVE  /\ assignedImages[Md5[client'[v].spec]] =
                            [ControllerID |-> HostOf[v], ImageSpec |-> client'[v].spec]
                      /\ \A j \in Conn : Reporting(j)' => handler'[j].hash # Md5[client'[v].spec]
    BY <1>7 DEF HoldersOK
  <2>1. v # x /\ Holder(v) /\ client'[v] = client[v]
    BY <1>1, <1>2, <1>4, <1>5
  <2>2. ASSUME NEW j \in Conn, Reporting(j)'
        PROVE  handler'[j].hash # Md5[client[v].spec]
    <3>1. CASE j # k
      BY <1>8, <2>1, <2>2, <3>1 DEF XInv, HoldersOK
    <3>2. CASE j = k
      <4>1. SUFFICES ASSUME handler'[k].hash = Md5[client[v].spec]
                     PROVE  FALSE
        BY <3>2
      <4>2. client[x].pc \in {"done", "abort"} /\ handler'[k].hash = client[x].hash
        BY <1>1, <1>10, <2>2, <3>2
      <4>3. [ControllerID |-> HostOf[v], ImageSpec |-> client[v].spec]
              = [ControllerID |-> HostOf[x], ImageSpec |-> client[x].spec]
        BY <1>11, <2>1, <4>1, <4>2 DEF XInv, HoldersOK
      <4>4. HostOf[v] = HostOf[x] /\ client[v].spec = client[x].spec
        BY <4>3
      <4> QED
        BY <1>11, <2>1, <4>2, <4>4, SetsAssumption DEF XInv, OneJob
    <3> QED
      BY <3>1, <3>2
  <2> QED
    BY <2>1, <2>2 DEF XInv, HoldersOK
<1>13. ReportsOK'
  <2> SUFFICES ASSUME NEW j \in Conn, Reporting(j)'
               PROVE  /\ handler'[j].hash \in Hash
                      /\ assignedImages[handler'[j].hash] # None
                      /\ assignedImages[handler'[j].hash].ControllerID = handler'[j].id
                      /\ \A i \in Conn : Reporting(i)' /\ handler'[i].hash = handler'[j].hash => i = j
                      /\ \A v \in Worker :
                            /\ HostOf[v] = assignedImages[handler'[j].hash].ControllerID
                            /\ client'[v].spec = assignedImages[handler'[j].hash].ImageSpec
                            => client'[v].conn = j \/ Unchecked(v)'
    BY <1>7 DEF ReportsOK
  <2>1. CASE j # k
    <3>1. Reporting(j) /\ handler'[j] = handler[j]
      BY <1>8, <2>1
    <3>2. \A i \in Conn : Reporting(i)' /\ handler'[i].hash = handler'[j].hash => i = j
      BY <1>1, <1>8, <1>10, <1>11, <3>1 DEF XInv, ReportsOK
    <3>3. ASSUME NEW v \in Worker,
                 HostOf[v] = assignedImages[handler'[j].hash].ControllerID,
                 client'[v].spec = assignedImages[handler'[j].hash].ImageSpec
          PROVE  client'[v].conn = j \/ Unchecked(v)'
      <4>1. client'[v].spec = client[v].spec
        BY <1>1, <1>2
      <4>2. client[v].conn = j \/ Unchecked(v)
        BY <3>1, <3>3, <4>1 DEF XInv, ReportsOK
      <4>3. CASE v # x
        BY <1>1, <1>2, <1>4, <4>2, <4>3
      <4>4. CASE v = x
        BY <1>1, <1>6, <4>2, <4>4, SetsAssumption
      <4> QED
        BY <4>3, <4>4
    <3> QED
      BY <3>1, <3>2, <3>3 DEF XInv, ReportsOK
  <2>2. CASE j = k
    <3>1. client[x].pc \in {"done", "abort"} /\ handler'[k].hash = client[x].hash
      BY <1>1, <1>10, <2>2
    <3>2. assignedImages[client[x].hash] # None
      <4>1. assignedImages[client[x].hash] \in Assignment
        BY <1>11, <3>1, WorkersAssumption DEF Assignment, WorkersAssumption
      <4> QED
        BY <4>1, SetsAssumption
    <3>3. \A i \in Conn : Reporting(i)' /\ handler'[i].hash = handler'[k].hash => i = k
      BY <1>8, <1>11, <3>1
    <3>4. ASSUME NEW v \in Worker, HostOf[v] = HostOf[x], client'[v].spec = client[x].spec
          PROVE  client'[v].conn = k
      <4>1. client[v].spec = client[x].spec /\ client[x].spec # None
        BY <1>1, <1>2, <1>11, <3>1, <3>4, SetsAssumption
      <4>2. v = x
        BY <1>11, <3>1, <3>4, <4>1 DEF XInv, OneJob
      <4> QED
        BY <1>1, <4>2
    <3> QED
      BY <1>1, <1>2, <1>11, <2>2, <3>1, <3>2, <3>3, <3>4
  <2> QED
    BY <2>1, <2>2
<1> QED
  BY <1>3, <1>12, <1>13 DEF XInv

\* What a goroutine's step does to the assignments: most steps leave them as
\* they are,
ServeKeeps(k) ==
    /\ UNCHANGED assignedImages
    /\ handler'[k].pc = "replied" => handler'[k].reply # "Start"
    /\ handler'[k].pc = "save" => ~AssignedTo(handler[k].spec, handler[k].id)

\* findWorker makes one that is its controller's already or nobody's,
ServeGrants(k) ==
    /\ handler[k].pc = "find" /\ handler[k].op = "request"
    /\ handler[k].spec \in ImageSpec /\ handler[k].id \in Controller
    /\ MayAssign(handler[k].spec, handler[k].id, handler[k].cd)
    /\ requestedImages[handler[k].spec] = Md5[handler[k].spec]
    /\ assignedImages' = [assignedImages EXCEPT ![Md5[handler[k].spec]] =
          [ControllerID |-> handler[k].id, ImageSpec |-> handler[k].spec]]
    /\ handler'[k].pc = "replied" /\ handler'[k].reply = "Start" /\ UNCHANGED images

\* and a report ends the one it is about.
ServeEnds(k) ==
    /\ Reporting(k) /\ handler'[k].pc = "replied" /\ handler'[k].reply # "Start"
    /\ assignedImages' = [assignedImages EXCEPT ![handler[k].hash] = None]
    /\ handler[k].spec \in ImageSpec /\ handler[k].hash = Md5[handler[k].spec]
    /\ IF handler[k].op = "done" THEN setImageStatus(handler[k].spec, TRUE) ELSE UNCHANGED images

\* These are all.
LEMMA ServeAssignments ==
    ASSUME PInv, NEW k \in Conn, Serve(k)
    PROVE  ServeKeeps(k) \/ ServeGrants(k) \/ ServeEnds(k)
<1>1. handler \in [Conn -> Handler] /\ LocalsAt(handler[k]) /\ IInv
  BY DEF PInv, IInv, TypeOK, HandlersOK
<1>2. ASSUME NEW reply, NEW hash, Send(k, reply, hash)
      PROVE  handler'[k].pc = "replied" /\ handler'[k].reply = reply
  BY <1>1, <1>2 DEF Send, Idle
<1>3. CASE findWorker(k)
  <2>1. /\ handler[k].pc = "find" /\ handler[k].op = "request"
        /\ handler[k].spec \in ImageSpec /\ handler[k].id \in Controller
    BY <1>1, <1>3 DEF findWorker, At, LocalsAt
  <2>2. CASE MayAssign(handler[k].spec, handler[k].id, handler[k].cd)
    <3>1. requestedImages[handler[k].spec] = Md5[handler[k].spec]
      BY <1>1, <2>1, <2>2 DEF MayAssign, IInv, RequestsOK
    <3>2. handler'[k].pc = "replied" /\ handler'[k].reply = "Start"
      BY <1>2, <1>3, <2>2 DEF findWorker
    <3> QED
      BY <1>3, <2>1, <2>2, <3>1, <3>2 DEF findWorker, ServeGrants
  <2>3. CASE ~MayAssign(handler[k].spec, handler[k].id, handler[k].cd)
    <3>1. /\ UNCHANGED assignedImages
          /\ Send(k, "Skip", None) \/ Send(k, "Wait", None)
      BY <1>3, <2>3 DEF findWorker
    <3> QED
      BY <1>2, <3>1 DEF ServeKeeps
  <2> QED
    BY <2>2, <2>3
<1>4. CASE finalizeScan(k)
  <2>1. handler[k].pc = "commit" /\ handler[k].op = "done" /\ Send(k, "OK", None)
    BY <1>4 DEF finalizeScan, At
  <2>2. handler'[k].pc = "replied" /\ handler'[k].reply # "Start"
    BY <1>2, <2>1
  <2>3. handler[k].spec \in ImageSpec /\ handler[k].hash = Md5[handler[k].spec]
    BY <1>1, <2>1 DEF LocalsAt
  <2> QED
    BY <1>4, <2>1, <2>2, <2>3 DEF finalizeScan, Reporting, ServeEnds
<1>5. CASE releaseScanForPeer(k)
  <2>1. handler[k].pc = "commit" /\ handler[k].op = "abort" /\ Send(k, "OK", None)
    BY <1>5 DEF releaseScanForPeer, At
  <2>2. handler'[k].pc = "replied" /\ handler'[k].reply # "Start"
    BY <1>2, <2>1
  <2>3. handler[k].spec \in ImageSpec /\ handler[k].hash = Md5[handler[k].spec]
    BY <1>1, <2>1 DEF LocalsAt
  <2> QED
    BY <1>5, <2>1, <2>2, <2>3 DEF releaseScanForPeer, Reporting, ServeEnds
<1>6. CASE Check(k)
  <2>1. UNCHANGED assignedImages
    BY <1>6 DEF Check, tables
  <2>2. CASE AssignedTo(handler[k].spec, handler[k].id)
    BY <1>2, <1>6, <2>1, <2>2 DEF Check, ServeKeeps
  <2>3. CASE ~AssignedTo(handler[k].spec, handler[k].id)
    BY <1>1, <1>6, <2>1, <2>3 DEF Check, Goto, Handler, ServeKeeps
  <2> QED
    BY <2>2, <2>3
<1>7. CASE Throttle(k) \/ LookupKnown(k) \/ LookupUnknown(k) \/ Register(k)
             \/ saveFoundImage(k) \/ LookupImage(k)
  <2>1. UNCHANGED assignedImages
    BY <1>7 DEF Throttle, LookupKnown, LookupUnknown, Register, saveFoundImage, LookupImage, tables
  <2>2. handler[k].pc \in {"throttle", "lookup", "register", "save", "image"}
    BY <1>7 DEF Throttle, LookupKnown, LookupUnknown, Register, saveFoundImage, LookupImage, At
  <2>3. Answered(handler[k], handler'[k]) \/ Continues(handler[k], handler'[k])
    BY <1>1, ServeEffect
  <2> QED
    BY <2>1, <2>2, <2>3 DEF Answered, Continues, ServeKeeps
<1> QED
  BY <1>3, <1>4, <1>5, <1>6, <1>7 DEF Serve

\* What a goroutine's step does to the workers: a new holder is one whose
\* request has just been granted, and a worker gets past the check only when
\* its controller does not hold the assignment.
LEMMA ServeViews ==
    ASSUME PInv, NEW k \in Conn, Serve(k), UNCHANGED client
    PROVE  /\ \A j \in Conn : Reporting(j)' =>
                  /\ Reporting(j) /\ handler'[j].hash = handler[j].hash
                  /\ handler'[j].id = handler[j].id
           /\ \A w \in Worker : Holder(w)' /\ ~Holder(w) =>
                  /\ handler'[k].pc = "replied" /\ handler'[k].reply = "Start"
                  /\ client[w].pc = "request" /\ client[w].conn = k
                  /\ handler[k].spec = client[w].spec /\ handler[k].id = HostOf[w]
                  /\ handler[k].op = "request"
           /\ \A w \in Worker : Unchecked(w) /\ ~Unchecked(w)' =>
                  /\ handler'[k].pc = "save"
                  /\ handler[k].spec = client[w].spec /\ handler[k].id = HostOf[w]
<1>1. /\ \A j \in Conn \ {k} : handler'[j] = handler[j]
      /\ handler[k].pc \notin {"idle", "replied"}
      /\ Answered(handler[k], handler'[k]) \/ Continues(handler[k], handler'[k])
  BY ServeEffect DEF PInv
<1>2. \A j \in Conn : Reporting(j)' =>
            /\ Reporting(j) /\ handler'[j].hash = handler[j].hash
            /\ handler'[j].id = handler[j].id
  BY <1>1 DEF Reporting, Answered, Continues
<1>3. ASSUME NEW w \in Worker
      PROVE  /\ client[w].conn # None => client[w].conn \in Conn
             /\ client[w].conn # k => (Holder(w)' <=> Holder(w)) /\ (Unchecked(w)' <=> Unchecked(w))
             /\ client[w].conn = k => ServesCall(client[w], HostOf[w], handler[k])
  <2>1. w \in Client /\ Host(w) = HostOf[w]
    BY HostType
  <2>2. client[w].conn # None => client[w].conn \in Conn
    BY <2>1 DEF PInv, ProtocolTypeOK, ClientState
  <2>3. client[w].conn # k => (Holder(w)' <=> Holder(w)) /\ (Unchecked(w)' <=> Unchecked(w))
    BY <1>1, <2>2, SameView
  <2>4. client[w].conn = k => ServesCall(client[w], HostOf[w], handler[k])
    BY <2>1, SetsAssumption DEF PInv, ConnectionsOK
  <2> QED
    BY <2>2, <2>3, <2>4
<1>4. ASSUME NEW w \in Worker, Holder(w)', ~Holder(w)
      PROVE  /\ handler'[k].pc = "replied" /\ handler'[k].reply = "Start"
             /\ client[w].pc = "request" /\ client[w].conn = k
             /\ handler[k].spec = client[w].spec /\ handler[k].id = HostOf[w]
             /\ handler[k].op = "request"
  <2>1. client[w].conn = k /\ ServesCall(client[w], HostOf[w], handler[k])
    BY <1>3, <1>4
  <2>2. /\ handler'[k].pc = "replied" /\ handler'[k].reply = "Start"
        /\ client[w].pc = "request"
    BY <1>4, <2>1, SetsAssumption DEF Holder
  <2>3. handler[k].pc = "find" /\ handler[k].op = "request"
    BY <1>1, <2>2 DEF Answered, Continues
  <2> QED
    BY <1>1, <2>1, <2>2, <2>3 DEF ServesCall
<1>5. ASSUME NEW w \in Worker, Unchecked(w), ~Unchecked(w)'
      PROVE  /\ handler'[k].pc = "save"
             /\ handler[k].spec = client[w].spec /\ handler[k].id = HostOf[w]
  <2>1. client[w].conn = k /\ ServesCall(client[w], HostOf[w], handler[k])
    BY <1>3, <1>5
  <2>2. /\ client[w].pc = "alert" /\ handler[k].pc # "save"
        /\ handler'[k].pc = "save" \/ (handler'[k].pc = "replied" /\ handler'[k].reply = "Created")
    BY <1>5, <2>1, SetsAssumption DEF Unchecked
  <2>3. handler[k].op = "found" /\ handler[k].id = HostOf[w]
    BY <1>1, <2>1, <2>2 DEF ServesCall, OpAt
  <2>4. handler'[k].pc = "save"
    BY <1>1, <2>2, <2>3 DEF Answered, Continues
  <2>5. handler[k].pc = "check"
    BY <1>1, <2>4 DEF Answered, Continues
  <2> QED
    BY <2>1, <2>2, <2>3, <2>4, <2>5 DEF ServesCall
<1> QED
  BY <1>2, <1>4, <1>5

\* The arbiter goes on with a request.
LEMMA ServeXInv ==
    ASSUME PInv, PInv', XInv, NEW k \in Conn, ArbiterServes(k)
    PROVE  XInv'
<1>1. Serve(k) /\ UNCHANGED <<client, queue>>
  BY DEF ArbiterServes, clientVars
<1>2. OneJob'
  BY <1>1, OneJobKept DEF XInv
<1>3. \A j \in Conn : Reporting(j)' =>
          /\ Reporting(j) /\ handler'[j].hash = handler[j].hash
          /\ handler'[j].id = handler[j].id
  BY <1>1, ServeViews
<1>4. ASSUME NEW w \in Worker, Holder(w)', ~Holder(w)
      PROVE  /\ handler'[k].pc = "replied" /\ handler'[k].reply = "Start"
             /\ client[w].pc = "request" /\ client[w].conn = k
             /\ handler[k].spec = client[w].spec /\ handler[k].id = HostOf[w]
             /\ handler[k].op = "request"
  BY <1>1, <1>4, ServeViews
<1>5. ASSUME NEW w \in Worker, Unchecked(w), ~Unchecked(w)'
      PROVE  /\ handler'[k].pc = "save"
             /\ handler[k].spec = client[w].spec /\ handler[k].id = HostOf[w]
  BY <1>1, <1>5, ServeViews
<1>6. ASSUME NEW h \in Hash, assignedImages[h] # None
      PROVE  /\ assignedImages[h].ImageSpec \in ImageSpec
             /\ requestedImages[assignedImages[h].ImageSpec] = h
             /\ h = Md5[assignedImages[h].ImageSpec]
             /\ h # None
             /\ assignedImages[h] \in Assignment
  BY <1>6, AssignmentFacts, SetsAssumption DEF PInv
<1>7. assignedImages \in [Hash -> Assignment \cup {None}]
  BY DEF PInv, IInv, TypeOK
<1>8. CASE ServeKeeps(k)
  <2> USE DEF ServeKeeps
  <2>1. HoldersOK'
    BY <1>1, <1>3, <1>4, <1>8 DEF XInv, HoldersOK
  <2>2. ASSUME NEW j \in Conn, Reporting(j), NEW w \in Worker,
               HostOf[w] = assignedImages[handler[j].hash].ControllerID,
               client[w].spec = assignedImages[handler[j].hash].ImageSpec,
               client[w].conn # j
        PROVE  Unchecked(w)'
    <3>1. Unchecked(w)
      BY <2>2 DEF XInv, ReportsOK
    <3>2. ASSUME ~Unchecked(w)'
          PROVE  FALSE
      <4>1. ~AssignedTo(client[w].spec, HostOf[w])
        BY <1>5, <1>8, <3>1, <3>2
      <4>2. handler[j].hash \in Hash /\ assignedImages[handler[j].hash] # None
        BY <2>2 DEF XInv, ReportsOK
      <4> QED
        BY <1>6, <2>2, <4>1, <4>2 DEF AssignedTo
    <3> QED
      BY <3>2
  <2>3. ReportsOK'
    BY <1>1, <1>3, <1>8, <2>2 DEF XInv, ReportsOK
  <2> QED
    BY <1>2, <2>1, <2>3 DEF XInv
<1>9. CASE ServeGrants(k)
  <2> USE DEF ServeGrants
  <2> DEFINE s == handler[k].spec
             c == handler[k].id
             h == Md5[s]
             a == [ControllerID |-> c, ImageSpec |-> s]
  <2>1. h \in Hash
    BY <1>9, Md5Assumption
  <2>2. assignedImages[h] # None => assignedImages[h] = a
    <3>1. assignedImages[h] # None => assignedImages[h].ControllerID = c
      BY <1>9 DEF MayAssign
    <3>2. assignedImages[h] # None => assignedImages[h].ImageSpec = s
      BY <1>6, <1>9, <2>1, Md5Assumption
    <3> QED
      BY <1>6, <2>1, <3>1, <3>2 DEF Assignment
  <2>3. assignedImages'[h] = a /\ \A g \in Hash : g # h => assignedImages'[g] = assignedImages[g]
    BY <1>7, <1>9, <2>1
  <2>4. \A g \in Hash : assignedImages[g] # None => assignedImages'[g] = assignedImages[g]
    BY <2>2, <2>3
  <2>5. ASSUME NEW w \in Worker
        PROVE  Unchecked(w) => Unchecked(w)'
    BY <1>5, <1>9
  <2>6. ReportsOK'
    BY <1>1, <1>3, <2>4, <2>5 DEF XInv, ReportsOK
  <2>7. HoldersOK'
    <3> SUFFICES ASSUME NEW w \in Worker, Holder(w)'
                 PROVE  /\ assignedImages'[Md5[client[w].spec]] =
                              [ControllerID |-> HostOf[w], ImageSpec |-> client[w].spec]
                        /\ \A j \in Conn : Reporting(j)' => handler'[j].hash # Md5[client[w].spec]
      BY <1>1 DEF HoldersOK
    <3>1. CASE Holder(w)
      <4>1. client[w].spec \in ImageSpec /\ Md5[client[w].spec] \in Hash
        BY <3>1, HostType, Md5Assumption DEF PInv, JobsOK, JobAt, Holder
      <4>2. HostOf[w] \in Controller
        BY WorkersAssumption DEF WorkersAssumption
      <4>3. /\ assignedImages[Md5[client[w].spec]] =
                  [ControllerID |-> HostOf[w], ImageSpec |-> client[w].spec]
            /\ \A j \in Conn : Reporting(j) => handler[j].hash # Md5[client[w].spec]
        BY <3>1 DEF XInv, HoldersOK
      <4>4. assignedImages[Md5[client[w].spec]] # None
        BY <4>1, <4>2, <4>3, SetsAssumption DEF Assignment
      <4> QED
        BY <1>3, <2>4, <4>1, <4>3, <4>4
    <3>2. CASE ~Holder(w)
      <4>1. /\ client[w].pc = "request" /\ client[w].conn = k
            /\ s = client[w].spec /\ c = HostOf[w]
        BY <1>4, <3>2
      <4>2. ASSUME NEW j \in Conn, Reporting(j), handler[j].hash = h
            PROVE  FALSE
        <5>1. assignedImages[h] = a
          BY <2>2, <4>2 DEF XInv, ReportsOK
        <5>2. client[w].conn = j \/ Unchecked(w)
          BY <4>1, <4>2, <5>1 DEF XInv, ReportsOK
        <5>3. ~Unchecked(w)
          BY <4>1 DEF Unchecked
        <5>4. j # k
          BY <1>9, <4>2 DEF Reporting
        <5> QED
          BY <4>1, <5>2, <5>3, <5>4
      <4> QED
        BY <1>3, <2>3, <4>1, <4>2
    <3> QED
      BY <3>1, <3>2
  <2> QED
    BY <1>2, <2>6, <2>7 DEF XInv
<1>10. CASE ServeEnds(k)
  <2> USE DEF ServeEnds
  <2> DEFINE h == handler[k].hash
  <2>1. \A g \in Hash : g # h => assignedImages'[g] = assignedImages[g]
    BY <1>7, <1>10
  <2>2. ~Reporting(k)'
    BY <1>10 DEF Reporting
  <2>3. \A j \in Conn : Reporting(j)' => handler[j].hash # h
    BY <1>3, <1>10, <2>2 DEF XInv, ReportsOK
  <2>4. \A w \in Worker : Unchecked(w) => Unchecked(w)'
    BY <1>5, <1>10
  <2>5. ReportsOK'
    BY <1>1, <1>3, <2>1, <2>3, <2>4 DEF XInv, ReportsOK
  <2>6. ASSUME NEW w \in Worker, Holder(w)'
        PROVE  Holder(w) /\ Md5[client[w].spec] # h /\ Md5[client[w].spec] \in Hash
    <3>1. Holder(w)
      BY <1>4, <1>10, <2>6
    <3>2. Md5[client[w].spec] \in Hash
      BY <3>1, HostType, Md5Assumption DEF PInv, JobsOK, JobAt, Holder
    <3> QED
      BY <1>10, <3>1, <3>2 DEF XInv, HoldersOK
  <2>7. HoldersOK'
    BY <1>1, <1>3, <2>1, <2>6 DEF XInv, HoldersOK
  <2> QED
    BY <1>2, <2>5, <2>7 DEF XInv
<1> QED
  BY <1>1, <1>8, <1>9, <1>10, ServeAssignments

\* Nothing else touches what the workers hold: an orphaned connection is
\* closed, a controller is started again, an image changes its status.
LEMMA OtherEffect ==
    ASSUME PInv,
           \/ \E k \in Conn : CloseOrphan(k)
           \/ \E c \in Controller : ControllerRestart(c)
           \/ \E s \in ImageSpec :
                 NotifyRead(s) \/ NotifyDone(s) \/ ImageAdded(s) \/ ImageRemoved(s)
    PROVE  /\ UNCHANGED <<assignedImages, completed>>
           /\ HandlersRest
           /\ \A v \in Worker : /\ WorkerMoves(v)
                                /\ client'[v].spec \in {None, client[v].spec}
                                /\ client'[v].spec # None =>
                                      queue'[HostOf[v]] \subseteq queue[HostOf[v]]
<1> DEFINE Goal == /\ UNCHANGED <<assignedImages, completed>>
                   /\ HandlersRest
                   /\ \A v \in Worker : /\ WorkerMoves(v)
                                        /\ client'[v].spec \in {None, client[v].spec}
                                        /\ client'[v].spec # None =>
                                              queue'[HostOf[v]] \subseteq queue[HostOf[v]]
<1>1. /\ client \in [Client -> ClientState] /\ handler \in [Conn -> Handler]
      /\ queue \in [Controller -> SUBSET ImageSpec]
      /\ \A v \in Worker : /\ v \in Client /\ v \notin Controller
                           /\ HostOf[v] \in Controller /\ Host(v) = HostOf[v]
  BY HostType, WorkersAssumption DEF PInv, ProtocolTypeOK, IInv, TypeOK, WorkersAssumption
<1>2. ASSUME NEW k \in Conn, CloseOrphan(k)
      PROVE  Goal
  <2>1. /\ Orphan(k) /\ handler' = [handler EXCEPT ![k] = Idle]
        /\ UNCHANGED <<assignedImages, completed, queue, client>>
    BY <1>2 DEF CloseOrphan, clientVars, Close, tables
  <2>2. HandlersRest
    BY <1>1, <2>1 DEF Idle, HandlersRest
  <2>3. \A v \in Worker : client[v].conn # None => client[v].conn \in Conn \ {k}
    BY <1>1, <2>1 DEF Orphan, ClientState
  <2>4. \A v \in Worker : client[v].conn # None =>
            handler'[client[v].conn] = handler[client[v].conn]
    BY <1>1, <2>1, <2>3
  <2> QED
    BY <2>1, <2>2, <2>4 DEF WorkerMoves
<1>3. ASSUME NEW c \in Controller, ControllerRestart(c)
      PROVE  Goal
  <2>1. /\ client' = [x \in Client |->
              IF Host(x) # c THEN client[x] ELSE IF x = c THEN Booting ELSE NoJob]
        /\ queue' = [queue EXCEPT ![c] = OnNode[c] \ annotated]
        /\ UNCHANGED <<assignedImages, completed, handler>>
    BY <1>3 DEF ControllerRestart, vars
  <2>2. ASSUME NEW v \in Worker
        PROVE  client'[v] = IF HostOf[v] = c THEN NoJob ELSE client[v]
    BY <1>1, <2>1
  <2>3. HandlersRest /\ \A v \in Worker : WorkerMoves(v)
    BY <2>1, <2>2, FreshClients DEF HandlersRest, WorkerMoves
  <2> QED
    BY <1>1, <2>1, <2>2, <2>3, FreshClients
<1>4. ASSUME NEW s \in ImageSpec,
             NotifyRead(s) \/ NotifyDone(s) \/ ImageAdded(s) \/ ImageRemoved(s)
      PROVE  Goal
  <2>1. UNCHANGED <<assignedImages, completed, handler, queue, client>>
    BY <1>4 DEF NotifyRead, NotifyDone, ImageAdded, ImageRemoved, vars, clientVars,
                DoneScan, addImage, RemoveImage
  <2> QED
    BY <2>1 DEF HandlersRest, WorkerMoves
<1> QED
  BY <1>2, <1>3, <1>4

-----------------------------------------------------------------------------

\* The arbiter stays up, and no image is queued while a job for it may run.
StableArbiter == "restart" \notin Faults /\ "requeue" \notin Faults

\* At the start nobody holds anything.
LEMMA InitXInv == ProtocolInit => XInv
<1> SUFFICES ASSUME ProtocolInit PROVE XInv
  OBVIOUS
<1>1. /\ handler = [k \in Conn |-> Idle]
      /\ \A w \in Worker : client[w] = NoJob
  BY HostType DEF ProtocolInit, Init, NewArbiter, InitClients
<1>2. \A k \in Conn : ~Reporting(k)
  BY <1>1 DEF Reporting, Idle
<1>3. \A w \in Worker : ~Holder(w) /\ client[w].spec = None
  BY <1>1, FreshClients DEF Holder
<1> QED
  BY <1>2, <1>3 DEF XInv, OneJob, HoldersOK, ReportsOK

\* Every step preserves XInv, unless the arbiter restarts or an image is
\* queued again.
LEMMA NextXInv ==
    ASSUME StableArbiter
    PROVE  PInv /\ PInv' /\ XInv /\ [ProtocolNext]_protocolVars => XInv'
<1> SUFFICES ASSUME PInv, PInv', XInv, [ProtocolNext]_protocolVars PROVE XInv'
  OBVIOUS
<1>1. CASE ProtocolNext
  <2>1. ~ArbiterRestart /\ \A c \in Controller, s \in ImageSpec : ~Requeue(c, s)
    BY DEF StableArbiter, ArbiterRestart, Requeue, Fault
  <2> QED
    BY <1>1, <2>1, WorkerXInv, CallXInv, CallEndsXInv, ServeXInv, OtherEffect,
       WorkersStep, OneJobKept DEF ProtocolNext, XInv
<1>2. CASE UNCHANGED protocolVars
  <2>1. UNCHANGED <<assignedImages, handler, client, queue>>
    BY <1>2 DEF protocolVars, vars, clientVars
  <2>2. HandlersRest /\ \A v \in Worker : WorkerMoves(v)
    BY <2>1 DEF HandlersRest, WorkerMoves
  <2>3. HoldersOK' /\ ReportsOK'
    BY <2>1, <2>2, WorkersStep
  <2> QED
    BY <2>1, <2>3, OneJobKept DEF XInv
<1> QED
  BY <1>1, <1>2

\* XInv holds throughout.
LEMMA ExclusionInvariant ==
    ASSUME StableArbiter
    PROVE  ProtocolSpec => [](PInv /\ XInv)
<1>1. ProtocolInit => PInv /\ XInv
  BY InitPInv, InitXInv
<1>2. PInv /\ XInv /\ [ProtocolNext]_protocolVars => (PInv /\ XInv)'
  BY NextPInv, NextXInv
<1> QED
  BY <1>1, <1>2, PTL DEF ProtocolSpec

\* A worker that scans, or is about to report, holds the assignment: lost and
\* garbled calls, crashes of its own and of other controllers, and the reports
\* they leave behind do not take it away.
THEOREM ScannersHoldAssignments ==
    ASSUME StableArbiter
    PROVE  ProtocolSpec => []ScannerHoldsAssignment
<1>1. PInv /\ XInv => ScannerHoldsAssignment
  <2> SUFFICES ASSUME PInv, XInv, NEW w \in Worker,
                      client[w].pc \in {"scan", "done", "abort"}, client[w].conn = None
               PROVE  assignedImages[client[w].hash] =
                        [ControllerID |-> HostOf[w], ImageSpec |-> client[w].spec]
    BY DEF ScannerHoldsAssignment
  <2>1. client[w].hash = Md5[client[w].spec]
    BY HostType DEF PInv, JobsOK, JobAt
  <2>2. Holder(w)
    BY DEF Holder
  <2> QED
    BY <2>1, <2>2 DEF XInv, HoldersOK
<1> QED
  BY <1>1, ExclusionInvariant, PTL

\* No image is ever scanned by two workers at the same time.
THEOREM OneScanner ==
    ASSUME StableArbiter
    PROVE  ProtocolSpec => []MutualExclusion
<1>1. PInv /\ XInv => MutualExclusion
  <2> SUFFICES ASSUME PInv, XInv, NEW s \in ImageSpec
               PROVE  Cardinality(Scanning(s)) <= 1
    BY DEF MutualExclusion
  <2>1. ASSUME NEW v \in Scanning(s), NEW w \in Scanning(s)
        PROVE  v = w
    <3>1. /\ v \in Worker /\ w \in Worker
          /\ client[v].pc = "scan" /\ client[w].pc = "scan"
          /\ client[v].spec = s /\ client[w].spec = s
      BY DEF Scanning
    <3>2. client[v].conn = None /\ client[w].conn = None
      BY <3>1, HostType DEF PInv, JobsOK, JobAt, CallState
    <3>3. Holder(v) /\ Holder(w)
      BY <3>1, <3>2 DEF Holder
    <3>4. [ControllerID |-> HostOf[v], ImageSpec |-> s] = [ControllerID |-> HostOf[w], ImageSpec |-> s]
      BY <3>1, <3>3 DEF XInv, HoldersOK
    <3>5. HostOf[v] = HostOf[w]
      BY <3>4
    <3> QED
      BY <3>1, <3>5, SetsAssumption DEF XInv, OneJob
  <2>2. CASE Scanning(s) = {}
    BY <2>2, FS_EmptySet
  <2>3. CASE Scanning(s) # {}
    <3>1. PICK w : w \in Scanning(s)
      BY <2>3
    <3>2. Scanning(s) = {w}
      BY <2>1, <3>1
    <3>3. Cardinality({w}) = 1
      BY FS_Singleton
    <3> QED
      BY <3>2, <3>3
  <2> QED
    BY <2>2, <2>3
<1> QED
  BY <1>1, ExclusionInvariant, PTL

-----------------------------------------------------------------------------
(***************************************************************************)
(* An image that has been scanned to the end is not scanned again, as long *)
(* as nothing but a scan reports on it and it is not removed               *)
(* (ScannedTwice.cfg shows what a notification job does).                  *)
(***************************************************************************)

\* The image of an assignment is known to the arbiter.
AssignedKnown ==
    \A h \in Hash : assignedImages[h] # None => images[assignedImages[h].ImageSpec] # "absent"

\* A completed scan is recorded, or its assignment is still in place, even
\* when the report that should end it was lost, and no worker of the
\* controller that holds it gets past foundImage.
CompletedHeld ==
    \A s \in completed :
        \/ images[s] = "scanned"
        \/ /\ assignedImages[Md5[s]] # None
           /\ \A w \in Worker :
                HostOf[w] = assignedImages[Md5[s]].ControllerID /\ client[w].spec = s =>
                    Unchecked(w) \/ client[w].pc = "done"

\* Nobody scans, or is to scan, or reports a failure of, what is completed.
HoldersUncompleted ==
    \A w \in Worker : Holder(w) /\ client[w].pc # "done" => client[w].spec \notin completed

AbortsUncompleted ==
    \A k \in Conn : Reporting(k) /\ handler[k].op = "abort" => ~CompletedHash(handler[k].hash)

NothingNotified == \A s \in ImageSpec : notifying[s] = None

OnceInv ==
    /\ NothingNotified
    /\ AssignedKnown
    /\ CompletedHeld
    /\ HoldersUncompleted
    /\ AbortsUncompleted

\* A step that completes and assigns nothing and starts no report.
LEMMA QuietOnce ==
    ASSUME PInv, PInv', OnceInv, UNCHANGED <<assignedImages, completed, notifying>>,
           \A s \in ImageSpec : \/ images'[s] = images[s]
                                \/ images[s] = "absent" /\ images'[s] = "unscanned",
           HandlersRest, \A w \in Worker : WorkerMoves(w)
    PROVE  OnceInv'
<1>1. ASSUME NEW k \in Conn, Reporting(k)'
      PROVE  handler'[k] = handler[k] /\ Reporting(k)
  BY <1>1 DEF Reporting, HandlersRest
<1>2. ASSUME NEW w \in Worker
      PROVE  /\ Holder(w)' /\ client'[w].pc # "done" =>
                  Holder(w) /\ client[w].pc # "done" /\ client'[w].spec = client[w].spec
             /\ client'[w].spec # None =>
                  \/ Unchecked(w)'
                  \/ /\ client'[w].spec = client[w].spec
                     /\ Unchecked(w) \/ client[w].pc = "done" => client'[w].pc = "done"
  <2>1. CASE /\ client'[w] = client[w]
             /\ client[w].conn # None => handler'[client[w].conn] = handler[client[w].conn]
    BY <2>1, SameView
  <2>2. CASE client'[w].pc = "idle"
    <3>1. client'[w].spec = None
      BY <2>2, HostType DEF PInv, JobsOK, JobAt
    <3> QED
      BY <2>2, <3>1 DEF Holder
  <2>3. CASE client'[w].pc = "heartbeat" /\ client'[w].conn = None
    BY <2>3 DEF Holder, Unchecked
  <2>4. CASE /\ client'[w].spec = client[w].spec /\ client'[w].conn = None
             /\ client[w].pc # "done"
             /\ client'[w].pc \in {"scan", "done", "abort"} => Holder(w)
             /\ client'[w].pc = "request" => ~Unchecked(w)
             /\ \A k \in Conn : Reporting(k) => client[w].conn # k
    <3>1. client'[w].pc \in {"idle", "heartbeat", "alert", "request", "scan", "done", "abort"}
      BY HostType DEF PInv, JobsOK, JobAt, ProtocolTypeOK, ClientState, CallState
    <3>2. CASE client'[w].pc = "idle"
      BY <2>2, <3>2
    <3>3. CASE client'[w].pc \in {"heartbeat", "alert"}
      BY <2>4, <3>3 DEF Holder, Unchecked
    <3>4. CASE client'[w].pc = "request"
      BY <2>4, <3>4 DEF Holder
    <3>5. CASE client'[w].pc \in {"scan", "done", "abort"}
      BY <2>4, <3>5 DEF Holder, Unchecked
    <3> QED
      BY <3>1, <3>2, <3>3, <3>4, <3>5
  <2> QED
    BY <2>1, <2>2, <2>3, <2>4 DEF WorkerMoves
<1>3. NothingNotified' /\ HoldersUncompleted' /\ AbortsUncompleted'
  BY <1>1, <1>2
  DEF OnceInv, NothingNotified, HoldersUncompleted, AbortsUncompleted, CompletedHash
<1>4. AssignedKnown'
  <2> SUFFICES ASSUME NEW h \in Hash, assignedImages[h] # None
               PROVE  images'[assignedImages[h].ImageSpec] # "absent"
    BY DEF AssignedKnown
  <2>1. assignedImages[h].ImageSpec \in ImageSpec
    BY AssignmentFacts DEF PInv
  <2> QED
    BY <2>1 DEF OnceInv, AssignedKnown
<1>5. CompletedHeld'
  <2> SUFFICES ASSUME NEW s \in completed, images'[s] # "scanned"
               PROVE  /\ assignedImages[Md5[s]] # None
                      /\ \A w \in Worker :
                            /\ HostOf[w] = assignedImages[Md5[s]].ControllerID
                            /\ client'[w].spec = s
                            => Unchecked(w)' \/ client'[w].pc = "done"
    BY DEF CompletedHeld
  <2>1. s \in ImageSpec /\ s # None
    BY SetsAssumption DEF PInv, ProtocolTypeOK
  <2>2. images[s] # "scanned"
    BY <2>1
  <2> QED
    BY <1>2, <2>1, <2>2 DEF OnceInv, CompletedHeld
<1> QED
  BY <1>3, <1>4, <1>5 DEF OnceInv

\* Nothing but a removal makes the arbiter forget an image, and nothing else
\* than a notification takes back that it is scanned.
LEMMA ServeKnown ==
    ASSUME PInv, NEW k \in Conn, Serve(k), NEW s \in ImageSpec
    PROVE  /\ images[s] # "absent" => images'[s] # "absent"
           /\ images[s] = "scanned" => images'[s] = "scanned"
<1>1. images \in [ImageSpec -> ImageStatus]
  BY DEF PInv, IInv, TypeOK
<1>2. CASE saveFoundImage(k)
  BY <1>1, <1>2 DEF saveFoundImage
<1>3. CASE finalizeScan(k)
  BY <1>1, <1>3 DEF finalizeScan, setImageStatus
<1> QED
  BY <1>2, <1>3 DEF Serve, Throttle, LookupKnown, LookupUnknown, Register, Check, findWorker,
                    LookupImage, releaseScanForPeer, tables

\* A scan ends: its worker held the assignment, and nobody else has, or can
\* come to, a job for it.
LEMMA ScanCompletesOnce ==
    ASSUME PInv, PInv', XInv, OnceInv, NEW w \in Worker, ScanCompletes(w)
    PROVE  OnceInv'
<1> DEFINE s == client[w].spec
<1>1. /\ client \in [Client -> ClientState] /\ w \in Client /\ JobAt(w, client[w])
      /\ \A v \in Worker : v \in Client
      /\ completed \subseteq ImageSpec
  BY HostType DEF PInv, ProtocolTypeOK, JobsOK
<1>2. /\ client[w].pc = "scan" /\ client'[w].pc = "done" /\ client'[w].spec = s
      /\ \A v \in Worker : v # w => client'[v] = client[v]
      /\ completed' = completed \cup {s}
      /\ UNCHANGED <<images, assignedImages, handler, notifying>>
  BY <1>1 DEF ScanCompletes, vars, ClientState
<1>3. client[w].conn = None /\ Holder(w) /\ s \in ImageSpec /\ s # None /\ Md5[s] \in Hash
  BY <1>1, <1>2, SetsAssumption, Md5Assumption DEF JobAt, CallState, Holder
<1>4. /\ assignedImages[Md5[s]] = [ControllerID |-> HostOf[w], ImageSpec |-> s]
      /\ \A k \in Conn : Reporting(k) => handler[k].hash # Md5[s]
  BY <1>3 DEF XInv, HoldersOK
<1>5. HostOf[w] \in Controller
  BY WorkersAssumption DEF WorkersAssumption
<1>6. assignedImages[Md5[s]] \in Assignment
  BY <1>3, <1>4, <1>5 DEF Assignment
<1>7. assignedImages[Md5[s]] # None /\ assignedImages[Md5[s]].ControllerID = HostOf[w]
  BY <1>4, <1>6, SetsAssumption
<1>8. \A v \in Worker : HostOf[v] = HostOf[w] /\ client[v].spec = s => v = w
  BY <1>3 DEF XInv, OneJob
<1>9. ASSUME NEW v \in Worker, v # w
      PROVE  (Holder(v)' <=> Holder(v)) /\ (Unchecked(v)' <=> Unchecked(v))
  BY <1>2, <1>9, SameView
<1>10. NothingNotified' /\ AssignedKnown'
  BY <1>2 DEF OnceInv, NothingNotified, AssignedKnown
<1>11. CompletedHeld'
  <2> SUFFICES ASSUME NEW u \in completed', images[u] # "scanned"
               PROVE  /\ assignedImages[Md5[u]] # None
                      /\ \A v \in Worker :
                            /\ HostOf[v] = assignedImages[Md5[u]].ControllerID
                            /\ client'[v].spec = u
                            => Unchecked(v)' \/ client'[v].pc = "done"
    BY <1>2 DEF CompletedHeld
  <2>1. CASE u = s
    BY <1>2, <1>7, <1>8, <2>1
  <2>2. CASE u \in completed
    BY <1>2, <1>9, <2>2 DEF OnceInv, CompletedHeld
  <2> QED
    BY <1>2, <2>1, <2>2
<1>12. HoldersUncompleted'
  <2> SUFFICES ASSUME NEW v \in Worker, Holder(v)', client'[v].pc # "done"
               PROVE  client'[v].spec \notin completed'
    BY DEF HoldersUncompleted
  <2>1. v # w /\ client'[v] = client[v] /\ Holder(v)
    BY <1>2, <1>9
  <2>2. client[v].spec \notin completed
    BY <2>1 DEF OnceInv, HoldersUncompleted
  <2>3. ASSUME client[v].spec = s
        PROVE  FALSE
    <3>1. [ControllerID |-> HostOf[v], ImageSpec |-> s] = [ControllerID |-> HostOf[w], ImageSpec |-> s]
      BY <1>4, <2>1, <2>3 DEF XInv, HoldersOK
    <3>2. HostOf[v] = HostOf[w]
      BY <3>1
    <3> QED
      BY <1>8, <2>1, <2>3, <3>2
  <2> QED
    BY <1>2, <2>1, <2>2, <2>3
<1>13. AbortsUncompleted'
  <2> SUFFICES ASSUME NEW k \in Conn, Reporting(k), handler[k].op = "abort"
               PROVE  \A u \in completed' : handler[k].hash # Md5[u]
    BY <1>2 DEF AbortsUncompleted, Reporting, CompletedHash
  <2>1. \A u \in completed : handler[k].hash # Md5[u]
    BY DEF OnceInv, AbortsUncompleted, CompletedHash
  <2> QED
    BY <1>2, <1>4, <2>1
<1> QED
  BY <1>10, <1>11, <1>12, <1>13 DEF OnceInv

\* A request reaches the arbiter: the failure of a scan is reported only of an
\* image nobody has scanned to the end.
LEMMA CallOnce ==
    ASSUME PInv, PInv', XInv, OnceInv, NEW x \in Client, Call(x)
    PROVE  OnceInv'
<1>1. PICK k \in Conn :
             /\ client[x].conn = None /\ client[x].pc \in CallState
             /\ client'[x].conn = k /\ client'[x].pc = client[x].pc
             /\ client'[x].spec = client[x].spec
             /\ \A y \in Client : y # x =>
                   /\ client'[y] = client[y]
                   /\ client[y].conn # None => handler'[client[y].conn] = handler[client[y].conn]
             /\ handler'[k].pc \in {"throttle", "lookup"}
             /\ handler'[k].op = OpAt(client[x].pc)
             /\ client[x].pc \in {"done", "abort"} => handler'[k].hash = client[x].hash
             /\ \A j \in Conn : j # k => handler'[j] = handler[j]
             /\ UNCHANGED <<tables, completed, notifying>>
  BY CallEffect
<1>2. \A v \in Worker : v \in Client
  BY HostType
<1>3. UNCHANGED <<images, assignedImages>>
  BY <1>1 DEF tables
<1>4. ASSUME NEW v \in Worker
      PROVE  /\ Holder(v)' => Holder(v)
             /\ Unchecked(v) => Unchecked(v)'
             /\ client'[v].spec = client[v].spec /\ client'[v].pc = client[v].pc
  <2>1. CASE v # x
    BY <1>1, <1>2, <2>1, SameView
  <2>2. CASE v = x
    <3>1. ~Holder(x)' /\ (Unchecked(x) => Unchecked(x)')
      BY <1>1, SetsAssumption DEF Holder, Unchecked
    <3> QED
      BY <1>1, <2>2, <3>1
  <2> QED
    BY <2>1, <2>2
<1>5. NothingNotified' /\ AssignedKnown'
  BY <1>1, <1>3 DEF OnceInv, NothingNotified, AssignedKnown
<1>6. CompletedHeld' /\ HoldersUncompleted'
  BY <1>1, <1>3, <1>4 DEF OnceInv, CompletedHeld, HoldersUncompleted
<1>7. AbortsUncompleted'
  <2> SUFFICES ASSUME NEW j \in Conn, Reporting(j)', handler'[j].op = "abort"
               PROVE  \A u \in completed : handler'[j].hash # Md5[u]
    BY <1>1 DEF AbortsUncompleted, CompletedHash
  <2>1. CASE j # k
    <3>1. handler'[j] = handler[j] /\ Reporting(j)
      BY <1>1, <2>1 DEF Reporting
    <3> QED
      BY <3>1 DEF OnceInv, AbortsUncompleted, CompletedHash
  <2>2. CASE j = k
    <3>1. client[x].pc = "abort" /\ handler'[k].hash = client[x].hash
      BY <1>1, <2>2 DEF OpAt, CallState
    <3>2. x \in Worker /\ client[x].hash = Md5[client[x].spec] /\ client[x].spec \in ImageSpec
      BY <3>1 DEF PInv, JobsOK, JobAt, Client
    <3>3. client[x].spec \notin completed
      BY <1>1, <3>1, <3>2 DEF Holder, OnceInv, HoldersUncompleted
    <3>4. completed \subseteq ImageSpec
      BY DEF PInv, ProtocolTypeOK
    <3> QED
      BY <2>2, <3>1, <3>2, <3>3, <3>4, Md5Assumption
  <2> QED
    BY <2>1, <2>2
<1> QED
  BY <1>5, <1>6, <1>7 DEF OnceInv

\* The arbiter goes on with a request: what it grants is not completed, and
\* the report of a completed scan is what ends its assignment.
LEMMA ServeOnce ==
    ASSUME PInv, PInv', XInv, OnceInv, NEW k \in Conn, ArbiterServes(k)
    PROVE  OnceInv'
<1>1. /\ Serve(k) /\ UNCHANGED <<client, completed, notifying>>
      /\ completed \subseteq ImageSpec
      /\ assignedImages \in [Hash -> Assignment \cup {None}]
      /\ images \in [ImageSpec -> ImageStatus]
  BY DEF ArbiterServes, clientVars, PInv, ProtocolTypeOK, IInv, TypeOK
<1>2. \A w \in Worker : Holder(w)' /\ ~Holder(w) =>
          /\ handler'[k].pc = "replied" /\ handler'[k].reply = "Start"
          /\ client[w].pc = "request" /\ client[w].conn = k
          /\ handler[k].spec = client[w].spec /\ handler[k].id = HostOf[w]
          /\ handler[k].op = "request"
  BY <1>1, ServeViews
<1>3. \A w \in Worker : Unchecked(w) /\ ~Unchecked(w)' =>
          /\ handler'[k].pc = "save"
          /\ handler[k].spec = client[w].spec /\ handler[k].id = HostOf[w]
  BY <1>1, ServeViews
<1>4. \A s \in ImageSpec : /\ images[s] # "absent" => images'[s] # "absent"
                           /\ images[s] = "scanned" => images'[s] = "scanned"
  BY <1>1, ServeKnown
<1>5. ASSUME NEW h \in Hash, assignedImages[h] # None
      PROVE  /\ assignedImages[h].ImageSpec \in ImageSpec
             /\ requestedImages[assignedImages[h].ImageSpec] = h
             /\ h = Md5[assignedImages[h].ImageSpec]
             /\ h # None
  BY <1>5, AssignmentFacts, SetsAssumption DEF PInv
<1>6. NothingNotified'
  BY <1>1 DEF OnceInv, NothingNotified
<1>7. AbortsUncompleted'
  <2> SUFFICES ASSUME NEW j \in Conn, Reporting(j)', handler'[j].op = "abort"
               PROVE  Reporting(j) /\ handler[j].op = "abort" /\ handler'[j].hash = handler[j].hash
    BY <1>1 DEF OnceInv, AbortsUncompleted, CompletedHash
  <2>1. /\ \A i \in Conn \ {k} : handler'[i] = handler[i]
        /\ handler[k].pc \notin {"idle", "replied"}
        /\ Answered(handler[k], handler'[k]) \/ Continues(handler[k], handler'[k])
    BY <1>1, ServeEffect DEF PInv
  <2> QED
    BY <2>1 DEF Reporting, Answered, Continues
<1>8. CASE ServeKeeps(k)
  <2>1. UNCHANGED assignedImages
    BY <1>8 DEF ServeKeeps
  <2>2. AssignedKnown'
    BY <1>4, <1>5, <2>1 DEF OnceInv, AssignedKnown
  <2>3. HoldersUncompleted'
    BY <1>1, <1>2, <1>8 DEF OnceInv, HoldersUncompleted, ServeKeeps
  <2>4. CompletedHeld'
    <3> SUFFICES ASSUME NEW s \in completed, images'[s] # "scanned"
                 PROVE  /\ assignedImages[Md5[s]] # None
                        /\ \A w \in Worker :
                              /\ HostOf[w] = assignedImages[Md5[s]].ControllerID
                              /\ client[w].spec = s
                              => Unchecked(w)' \/ client[w].pc = "done"
      BY <1>1, <2>1 DEF CompletedHeld
    <3>1. images[s] # "scanned" /\ Md5[s] \in Hash
      BY <1>1, <1>4, Md5Assumption
    <3>2. assignedImages[Md5[s]] # None
      BY <3>1 DEF OnceInv, CompletedHeld
    <3>3. assignedImages[Md5[s]].ImageSpec = s /\ requestedImages[s] = Md5[s] /\ Md5[s] # None
      BY <1>1, <1>5, <3>1, <3>2, Md5Assumption
    <3>4. ASSUME NEW w \in Worker, HostOf[w] = assignedImages[Md5[s]].ControllerID,
                 client[w].spec = s, client[w].pc # "done", ~Unchecked(w)'
          PROVE  FALSE
      <4>1. Unchecked(w)
        BY <3>1, <3>4 DEF OnceInv, CompletedHeld
      <4>2. ~AssignedTo(s, HostOf[w])
        BY <1>3, <1>8, <3>4, <4>1 DEF ServeKeeps
      <4> QED
        BY <3>2, <3>3, <3>4, <4>2 DEF AssignedTo
    <3> QED
      BY <3>2, <3>4
  <2> QED
    BY <1>6, <1>7, <2>2, <2>3, <2>4 DEF OnceInv
<1>9. CASE ServeGrants(k)
  <2> DEFINE s == handler[k].spec
             c == handler[k].id
             h == Md5[s]
             a == [ControllerID |-> c, ImageSpec |-> s]
  <2>1. /\ s \in ImageSpec /\ c \in Controller /\ h \in Hash /\ requestedImages[s] = h
        /\ images[s] = "unscanned" /\ UNCHANGED images
        /\ assignedImages[h] # None => assignedImages[h].ControllerID = c
        /\ handler'[k].pc = "replied"
    BY <1>9, Md5Assumption DEF ServeGrants, MayAssign
  <2>2. assignedImages'[h] = a /\ \A g \in Hash : g # h => assignedImages'[g] = assignedImages[g]
    BY <1>1, <1>9, <2>1 DEF ServeGrants
  <2>3. a # None
    BY <2>1, SetsAssumption DEF Assignment
  <2>4. \A w \in Worker : Unchecked(w) => Unchecked(w)'
    BY <1>3, <2>1
  <2>5. AssignedKnown'
    <3> SUFFICES ASSUME NEW g \in Hash, assignedImages'[g] # None
                 PROVE  images[assignedImages'[g].ImageSpec] # "absent"
      BY <2>1 DEF AssignedKnown
    <3>1. CASE g = h
      BY <2>1, <2>2, <3>1
    <3>2. CASE g # h
      BY <2>2, <3>2 DEF OnceInv, AssignedKnown
    <3> QED
      BY <3>1, <3>2
  <2>6. s \in completed =>
          /\ assignedImages[h] # None /\ assignedImages[h].ControllerID = c
          /\ \A w \in Worker : HostOf[w] = c /\ client[w].spec = s =>
                Unchecked(w) \/ client[w].pc = "done"
    BY <2>1 DEF OnceInv, CompletedHeld
  <2>7. HoldersUncompleted'
    <3> SUFFICES ASSUME NEW w \in Worker, Holder(w)', client[w].pc # "done"
                 PROVE  client[w].spec \notin completed
      BY <1>1 DEF HoldersUncompleted
    <3>1. CASE Holder(w)
      BY <3>1 DEF OnceInv, HoldersUncompleted
    <3>2. CASE ~Holder(w)
      <4>1. client[w].pc = "request" /\ client[w].spec = s /\ HostOf[w] = c
        BY <1>2, <3>2
      <4>2. ~Unchecked(w)
        BY <4>1 DEF Unchecked
      <4> QED
        BY <2>6, <4>1, <4>2
    <3> QED
      BY <3>1, <3>2
  <2>8. CompletedHeld'
    <3> SUFFICES ASSUME NEW u \in completed, images[u] # "scanned"
                 PROVE  /\ assignedImages'[Md5[u]] # None
                        /\ \A w \in Worker :
                              /\ HostOf[w] = assignedImages'[Md5[u]].ControllerID
                              /\ client[w].spec = u
                              => Unchecked(w)' \/ client[w].pc = "done"
      BY <1>1, <2>1 DEF CompletedHeld
    <3>1. CASE u = s
      BY <2>2, <2>3, <2>4, <2>6, <3>1
    <3>2. CASE u # s
      <4>1. Md5[u] \in Hash /\ Md5[u] # h
        BY <1>1, <2>1, <3>2, Md5Assumption
      <4> QED
        BY <2>2, <2>4, <4>1 DEF OnceInv, CompletedHeld
    <3> QED
      BY <3>1, <3>2
  <2> QED
    BY <1>6, <1>7, <2>5, <2>7, <2>8 DEF OnceInv
<1>10. CASE ServeEnds(k)
  <2> DEFINE s == handler[k].spec
             h == handler[k].hash
  <2>1. /\ Reporting(k) /\ s \in ImageSpec /\ h = Md5[s] /\ h \in Hash
        /\ handler'[k].pc = "replied" /\ handler'[k].reply # "Start"
    BY <1>10, Md5Assumption DEF ServeEnds
  <2>2. assignedImages'[h] = None /\ \A g \in Hash : g # h => assignedImages'[g] = assignedImages[g]
    BY <1>1, <1>10, <2>1 DEF ServeEnds
  <2>3. assignedImages[h] # None
    BY <2>1 DEF XInv, ReportsOK
  <2>4. assignedImages[h].ImageSpec = s
    BY <1>5, <2>1, <2>3, Md5Assumption
  <2>5. images[s] # "absent"
    BY <2>1, <2>3, <2>4 DEF OnceInv, AssignedKnown
  <2>6. s \in completed => images'[s] = "scanned"
    <3>1. CASE handler[k].op = "done"
      BY <1>1, <1>10, <2>1, <2>5, <3>1 DEF ServeEnds, setImageStatus
    <3>2. CASE handler[k].op = "abort"
      BY <2>1, <3>2 DEF OnceInv, AbortsUncompleted, CompletedHash
    <3> QED
      BY <2>1, <3>1, <3>2 DEF Reporting
  <2>7. \A w \in Worker : Unchecked(w) => Unchecked(w)'
    BY <1>3, <2>1
  <2>8. AssignedKnown'
    BY <1>4, <1>5, <2>2 DEF OnceInv, AssignedKnown
  <2>9. HoldersUncompleted'
    BY <1>1, <1>2, <2>1 DEF OnceInv, HoldersUncompleted
  <2>10. CompletedHeld'
    <3> SUFFICES ASSUME NEW u \in completed, images'[u] # "scanned"
                 PROVE  /\ assignedImages'[Md5[u]] # None
                        /\ \A w \in Worker :
                              /\ HostOf[w] = assignedImages'[Md5[u]].ControllerID
                              /\ client[w].spec = u
                              => Unchecked(w)' \/ client[w].pc = "done"
      BY <1>1 DEF CompletedHeld
    <3>1. u # s
      BY <2>6
    <3>2. Md5[u] \in Hash /\ Md5[u] # h /\ images[u] # "scanned"
      BY <1>1, <1>4, <2>1, <3>1, Md5Assumption
    <3> QED
      BY <2>2, <2>7, <3>2 DEF OnceInv, CompletedHeld
  <2> QED
    BY <1>6, <1>7, <2>8, <2>9, <2>10 DEF OnceInv
<1> QED
  BY <1>1, <1>8, <1>9, <1>10, ServeAssignments

\* Nothing but the workers reports on an image, and none is removed.
OnlyScansReport == "notify" \notin Faults /\ "remove" \notin Faults

\* At the start nothing is completed or assigned.
LEMMA InitOnce == ProtocolInit => OnceInv
<1> SUFFICES ASSUME ProtocolInit PROVE OnceInv
  OBVIOUS
<1>1. /\ handler = [k \in Conn |-> Idle]
      /\ assignedImages = [h \in Hash |-> None]
      /\ completed = {} /\ notifying = [s \in ImageSpec |-> None]
  BY DEF ProtocolInit, Init, NewArbiter, InitClients
<1> QED
  BY <1>1 DEF OnceInv, NothingNotified, AssignedKnown, CompletedHeld, HoldersUncompleted,
              AbortsUncompleted, CompletedHash

\* Every step preserves OnceInv.
LEMMA NextOnce ==
    ASSUME StableArbiter, OnlyScansReport
    PROVE  PInv /\ PInv' /\ XInv /\ OnceInv /\ [ProtocolNext]_protocolVars => OnceInv'
<1> SUFFICES ASSUME PInv, PInv', XInv, OnceInv, [ProtocolNext]_protocolVars PROVE OnceInv'
  OBVIOUS
<1>1. /\ ~ArbiterRestart /\ \A c \in Controller, s \in ImageSpec : ~Requeue(c, s)
      /\ \A s \in ImageSpec : ~NotifyRead(s) /\ ~NotifyDone(s) /\ ~ImageRemoved(s)
  BY DEF StableArbiter, OnlyScansReport, ArbiterRestart, Requeue, NotifyRead, NotifyDone,
         ImageRemoved, Fault, OnceInv, NothingNotified
<1>2. ASSUME NEW w \in Worker, TakeJob(w) \/ DropJob(w) \/ ScanFails(w)
      PROVE  OnceInv'
  <2>1. UNCHANGED completed
    BY <1>2 DEF TakeJob, DropJob, ScanFails
  <2>2. /\ UNCHANGED <<assignedImages, images, handler, notifying>>
        /\ HandlersRest /\ \A v \in Worker : WorkerMoves(v)
    BY <1>2, WorkerEffect
  <2> QED
    BY <2>1, <2>2, QuietOnce
<1>3. ASSUME NEW x \in Client, Return(x) \/ ReplyGarbled(x) \/ CallFails(x)
      PROVE  OnceInv'
  <2>1. UNCHANGED <<images, completed, notifying>>
    BY <1>3 DEF Return, ReplyGarbled, CallFails, Close, tables, vars
  <2>2. UNCHANGED assignedImages /\ HandlersRest /\ \A v \in Worker : WorkerMoves(v)
    BY <1>3, CallEndsEffect
  <2> QED
    BY <2>1, <2>2, QuietOnce
<1>4. ASSUME \/ \E k \in Conn : CloseOrphan(k)
             \/ \E c \in Controller : ControllerRestart(c)
             \/ \E s \in ImageSpec : ImageAdded(s)
      PROVE  OnceInv'
  <2>1. /\ UNCHANGED notifying
        /\ \A s \in ImageSpec : \/ images'[s] = images[s]
                                \/ images[s] = "absent" /\ images'[s] = "unscanned"
    <3>1. images \in [ImageSpec -> ImageStatus]
      BY DEF PInv, IInv, TypeOK
    <3>2. CASE \E s \in ImageSpec : ImageAdded(s)
      BY <3>1, <3>2 DEF ImageAdded, addImage, clientVars
    <3> QED
      BY <1>4, <3>2 DEF CloseOrphan, ControllerRestart, Close, tables, vars, clientVars
  <2>2. /\ UNCHANGED <<assignedImages, completed>>
        /\ HandlersRest /\ \A v \in Worker : WorkerMoves(v)
    <3>1. \/ \E k \in Conn : CloseOrphan(k)
          \/ \E c \in Controller : ControllerRestart(c)
          \/ \E s \in ImageSpec :
                NotifyRead(s) \/ NotifyDone(s) \/ ImageAdded(s) \/ ImageRemoved(s)
      BY <1>4
    <3> QED
      BY <3>1, OtherEffect
  <2> QED
    BY <2>1, <2>2, QuietOnce
<1>5. CASE UNCHANGED protocolVars
  <2>1. UNCHANGED <<assignedImages, completed, notifying, images, handler, client>>
    BY <1>5 DEF protocolVars, vars, clientVars
  <2>2. HandlersRest /\ \A v \in Worker : WorkerMoves(v)
    BY <2>1 DEF HandlersRest, WorkerMoves
  <2> QED
    BY <2>1, <2>2, QuietOnce
<1> QED
  BY <1>1, <1>2, <1>3, <1>4, <1>5, ScanCompletesOnce, CallOnce, ServeOnce DEF ProtocolNext

\* No worker starts to scan an image that has been scanned to the end: the
\* loss of the report of a scan, the crash of the controller that was to send
\* it, and the reports of others do not bring the image back.
THEOREM ScannedOnceHolds ==
    ASSUME StableArbiter, OnlyScansReport
    PROVE  ProtocolSpec => ScannedOnce
<1> DEFINE Inv == PInv /\ XInv /\ OnceInv
           Once == \A w \in Worker : (client[w].pc # "scan" /\ client'[w].pc = "scan")
                      => client'[w].spec \notin completed
<1>1. ProtocolInit => Inv
  BY InitPInv, InitXInv, InitOnce
<1>2. Inv /\ [ProtocolNext]_protocolVars => Inv'
  BY NextPInv, NextXInv, NextOnce
<1>3. Inv /\ Inv' /\ [ProtocolNext]_protocolVars => [Once]_protocolVars
  <2> SUFFICES ASSUME Inv, Inv', ProtocolNext, NEW w \in Worker,
                      client[w].pc # "scan", client'[w].pc = "scan"
               PROVE  client'[w].spec \notin completed
    OBVIOUS
  <2>1. client'[w].conn = None
    BY HostType DEF PInv, JobsOK, JobAt, CallState
  <2>2. Holder(w)'
    BY <2>1 DEF Holder
  <2>3. client'[w].spec \notin completed'
    BY <2>2 DEF OnceInv, HoldersUncompleted
  <2>4. completed \subseteq completed'
    BY DEF ProtocolNext, TakeJob, DropJob, ScanCompletes, ScanFails, Call, Return, CallFails,
           ReplyGarbled, ArbiterServes, CloseOrphan, ControllerRestart, Requeue, ArbiterRestart,
           NotifyRead, NotifyDone, ImageAdded, ImageRemoved, clientVars
  <2> QED
    BY <2>3, <2>4
<1> QED
  BY <1>1, <1>2, <1>3, PTL DEF ProtocolSpec, ScannedOnce

-----------------------------------------------------------------------------
(***************************************************************************)
(* The two ledgers agree and no slot leaks, as long as calls are answered  *)
(* and nobody dies: a controller then registers once, before its workers   *)
(* start, and every assignment has a worker that will end it.              *)
(***************************************************************************)

\* No call fails and no process dies.
Reliable == StableArbiter /\ "lossy" \notin Faults /\ "crash" \notin Faults

\* Controller.Start: the workers start after the heartbeat is answered.
BootFirst == \A w \in Worker : client[HostOf[w]].pc = "boot" => client[w].pc = "idle"

\* Every goroutine of the arbiter serves a client that waits for it.
AllAwaited == \A k \in Conn : handler[k].pc # "idle" => \E x \in Client : client[x].conn = k

\* A controller whose first heartbeat has been answered is registered.
Registered ==
    \A c \in Controller :
        \/ client[c].pc = "up"
        \/ client[c].conn # None /\ handler[client[c].conn].pc = "replied"
        => controllerDaemons[c] # None

\* ... only once, and has one daemon object.
RegisteredOnce ==
    /\ \A k \in Conn : handler[k].pc = "register" => controllerDaemons[handler[k].id] = None
    /\ \A c \in Controller, k \in Conn :
          daemon[<<c, k>>] # None => controllerDaemons[c] = <<c, k>>

\* Worker w holds the assignment h or its report on it is being served.
WillEnd(w, h) ==
    \/ Holder(w)
    \/ /\ client[w].conn # None
       /\ Reporting(client[w].conn)
       /\ handler[client[w].conn].hash = h

EveryAssignmentEnds ==
    \A h \in Hash : assignedImages[h] # None =>
        \E w \in Worker : /\ HostOf[w] = assignedImages[h].ControllerID
                          /\ client[w].spec = assignedImages[h].ImageSpec
                          /\ WillEnd(w, h)

RInv ==
    /\ BootFirst
    /\ AllAwaited
    /\ Registered
    /\ RegisteredOnce
    /\ EveryAssignmentEnds
    /\ LedgersAgree

\* A step that leaves the arbiter's goroutines and ledgers alone, in which no
\* worker gives up what it holds.
LEMMA QuietReliable ==
    ASSUME RInv, UNCHANGED <<assignedImages, controllerDaemons, daemon, handler>>,
           \A x \in Client : client'[x].conn = client[x].conn,
           \A c \in Controller : client'[c] = client[c],
           \A w \in Worker : client[w].conn # None => client'[w] = client[w],
           \A w \in Worker : client[w].spec # None => client'[w].spec = client[w].spec,
           \A w \in Worker : Holder(w) => Holder(w)' /\ client'[w].spec = client[w].spec,
           \A w \in Worker : client'[w].pc # "idle" =>
               client[w].pc # "idle" \/ client[HostOf[w]].pc = "up"
    PROVE  RInv'
<1>1. \A w \in Worker : HostOf[w] \in Controller
  BY WorkersAssumption DEF WorkersAssumption
<1>2. BootFirst' /\ AllAwaited'
  BY <1>1 DEF RInv, BootFirst, AllAwaited
<1>3. Registered' /\ RegisteredOnce' /\ LedgersAgree'
  BY DEF RInv, Registered, RegisteredOnce, LedgersAgree
<1>4. EveryAssignmentEnds'
  <2> SUFFICES ASSUME NEW h \in Hash, assignedImages[h] # None
               PROVE  \E w \in Worker : /\ HostOf[w] = assignedImages[h].ControllerID
                                        /\ client'[w].spec = assignedImages[h].ImageSpec
                                        /\ WillEnd(w, h)'
    BY DEF EveryAssignmentEnds
  <2>1. PICK w \in Worker : /\ HostOf[w] = assignedImages[h].ControllerID
                            /\ client[w].spec = assignedImages[h].ImageSpec
                            /\ WillEnd(w, h)
    BY DEF RInv, EveryAssignmentEnds
  <2>2. CASE Holder(w)
    BY <2>1, <2>2 DEF WillEnd
  <2>3. CASE ~Holder(w)
    <3>1. client'[w] = client[w]
      BY <2>1, <2>3 DEF WillEnd
    <3> QED
      BY <2>1, <2>3, <3>1 DEF WillEnd, Reporting
  <2> QED
    BY <2>2, <2>3
<1> QED
  BY <1>2, <1>3, <1>4 DEF RInv

\* A worker takes a job, drops one, ends a scan or has one fail.
LEMMA WorkerReliable ==
    ASSUME PInv, PInv', RInv, NEW w \in Worker,
           TakeJob(w) \/ DropJob(w) \/ ScanCompletes(w) \/ ScanFails(w)
    PROVE  RInv'
<1>1. /\ client \in [Client -> ClientState] /\ w \in Client /\ w \notin Controller
      /\ JobAt(w, client[w])
      /\ \A v \in Worker : v \in Client
      /\ \A c \in Controller : c \in Client /\ c # w
  BY HostType DEF PInv, ProtocolTypeOK, JobsOK, Client
<1>2. UNCHANGED <<assignedImages, controllerDaemons, daemon, handler>>
  BY DEF TakeJob, DropJob, ScanCompletes, ScanFails, vars
<1>3. ASSUME NEW r, client' = [client EXCEPT ![w] = r], r.conn = None, client[w].conn = None,
             client[w].spec # None => r.spec = client[w].spec,
             client[w].pc = "scan" => r.pc \in {"done", "abort"} /\ r.spec = client[w].spec,
             client[w].pc \in {"idle", "scan"},
             client[w].pc = "idle" => client[HostOf[w]].pc = "up"
      PROVE  RInv'
  <2>1. client'[w] = r /\ \A x \in Client : x # w => client'[x] = client[x]
    BY <1>1, <1>3
  <2>2. \A v \in Worker : v # w => (Holder(v)' <=> Holder(v))
    BY <1>1, <1>2, <2>1, SameView
  <2>3. Holder(w) => Holder(w)' /\ client'[w].spec = client[w].spec
    BY <1>3, <2>1 DEF Holder
  <2> QED
    BY <1>1, <1>2, <1>3, <2>1, <2>2, <2>3, QuietReliable
<1>4. CASE TakeJob(w)
  <2>1. PICK s \in queue[HostOf[w]] :
           client' = [client EXCEPT ![w] = [NoJob EXCEPT !.pc = "heartbeat", !.spec = s]]
    BY <1>4 DEF TakeJob
  <2> DEFINE r == [NoJob EXCEPT !.pc = "heartbeat", !.spec = s]
  <2>2. r.conn = None
    BY DEF NoJob, Booting
  <2>3. client[w].pc = "idle" /\ client[HostOf[w]].pc = "up"
    BY <1>4 DEF TakeJob
  <2>4. client[w].conn = None /\ client[w].spec = None
    BY <1>1, <2>3 DEF JobAt, CallState
  <2> HIDE DEF r
  <2> QED
    BY <1>3, <2>1, <2>2, <2>3, <2>4 DEF r
<1>5. CASE DropJob(w)
  <2>1. UNCHANGED client
    BY <1>5 DEF DropJob
  <2>2. \A v \in Worker : Holder(v) => Holder(v)'
    BY <1>2, <2>1 DEF Holder
  <2> QED
    BY <1>2, <2>1, <2>2, QuietReliable
<1>6. CASE ScanCompletes(w) \/ ScanFails(w)
  <2>1. PICK pc \in {"done", "abort"} : client' = [client EXCEPT ![w].pc = pc]
    BY <1>6 DEF ScanCompletes, ScanFails
  <2> DEFINE r == [client[w] EXCEPT !.pc = pc]
  <2>2. client[w].pc = "scan"
    BY <1>6 DEF ScanCompletes, ScanFails
  <2>3. client[w].conn = None
    BY <1>1, <2>2 DEF JobAt, CallState
  <2>4. r.conn = None /\ r.pc = pc /\ r.spec = client[w].spec
    BY <1>1, <2>3 DEF ClientState
  <2>5. client' = [client EXCEPT ![w] = r]
    BY <1>1, <2>1
  <2> HIDE DEF r
  <2> QED
    BY <1>3, <2>2, <2>3, <2>4, <2>5
<1> QED
  BY <1>4, <1>5, <1>6

\* A request reaches the arbiter.
LEMMA CallReliable ==
    ASSUME PInv, PInv', RInv, NEW x \in Client, Call(x)
    PROVE  RInv'
<1>1. PICK k \in Conn :
             /\ client[x].conn = None /\ client[x].pc \in CallState
             /\ client'[x].conn = k /\ client'[x].pc = client[x].pc
             /\ client'[x].spec = client[x].spec
             /\ \A y \in Client : y # x =>
                   /\ client'[y] = client[y]
                   /\ client[y].conn # None => handler'[client[y].conn] = handler[client[y].conn]
             /\ handler'[k].pc \in {"throttle", "lookup"}
             /\ handler'[k].op = OpAt(client[x].pc)
             /\ client[x].pc \in {"done", "abort"} => handler'[k].hash = client[x].hash
             /\ \A j \in Conn : j # k => handler'[j] = handler[j]
             /\ UNCHANGED tables
  BY CallEffect
<1>2. /\ \A v \in Worker : v \in Client /\ HostOf[v] \in Client
      /\ \A c \in Controller : c \in Client
  BY HostType, WorkersAssumption DEF WorkersAssumption, Client
<1>3. UNCHANGED <<assignedImages, controllerDaemons, daemon>>
  BY <1>1 DEF tables
<1>4. BootFirst'
  BY <1>1, <1>2 DEF RInv, BootFirst
<1>5. AllAwaited'
  <2> SUFFICES ASSUME NEW j \in Conn, handler'[j].pc # "idle"
               PROVE  \E y \in Client : client'[y].conn = j
    BY DEF AllAwaited
  <2>1. CASE j = k
    BY <1>1, <2>1
  <2>2. CASE j # k
    <3>1. PICK y \in Client : client[y].conn = j
      BY <1>1, <2>2 DEF RInv, AllAwaited
    <3>2. y # x
      BY <1>1, <3>1, SetsAssumption
    <3> QED
      BY <1>1, <3>1, <3>2
  <2> QED
    BY <2>1, <2>2
<1>6. Registered'
  <2> SUFFICES ASSUME NEW c \in Controller,
                      \/ client'[c].pc = "up"
                      \/ client'[c].conn # None /\ handler'[client'[c].conn].pc = "replied"
               PROVE  controllerDaemons[c] # None
    BY <1>3 DEF Registered
  <2>1. CASE c = x
    BY <1>1, <2>1 DEF CallState
  <2>2. CASE c # x
    BY <1>1, <1>2, <2>2 DEF RInv, Registered
  <2> QED
    BY <2>1, <2>2
<1>7. RegisteredOnce'
  BY <1>1, <1>3 DEF RInv, RegisteredOnce
<1>8. LedgersAgree'
  BY <1>3 DEF RInv, LedgersAgree
<1>9. EveryAssignmentEnds'
  <2> SUFFICES ASSUME NEW h \in Hash, assignedImages[h] # None
               PROVE  \E w \in Worker : /\ HostOf[w] = assignedImages[h].ControllerID
                                        /\ client'[w].spec = assignedImages[h].ImageSpec
                                        /\ WillEnd(w, h)'
    BY <1>3 DEF EveryAssignmentEnds
  <2>1. PICK w \in Worker : /\ HostOf[w] = assignedImages[h].ControllerID
                            /\ client[w].spec = assignedImages[h].ImageSpec
                            /\ WillEnd(w, h)
    BY DEF RInv, EveryAssignmentEnds
  <2>2. CASE w # x
    <3>1. client'[w] = client[w] /\ (Holder(w)' <=> Holder(w))
      BY <1>1, <1>2, <2>2, SameView
    <3>2. client[w].conn # None => handler'[client[w].conn] = handler[client[w].conn]
      BY <1>1, <1>2, <2>2
    <3> QED
      BY <2>1, <3>1, <3>2 DEF WillEnd, Reporting
  <2>3. CASE w = x
    <3>1. client[x].pc \in {"done", "abort"}
      BY <1>1, <2>1, <2>3 DEF WillEnd, Holder, CallState
    <3>2. h = Md5[client[x].spec] /\ client[x].hash = h
      BY <2>1, <2>3, <3>1, AssignmentFacts DEF PInv, JobsOK, JobAt
    <3>3. Reporting(k)'
      BY <1>1, <3>1 DEF Reporting, OpAt
    <3>4. k # None
      BY SetsAssumption
    <3> QED
      BY <1>1, <2>1, <2>3, <3>1, <3>2, <3>3, <3>4 DEF WillEnd
  <2> QED
    BY <2>2, <2>3
<1> QED
  BY <1>4, <1>5, <1>6, <1>7, <1>8, <1>9 DEF RInv

\* A response reaches its client: an order to start makes it scan, and the
\* answer to a report comes when the assignment is gone.
LEMMA ReturnReliable ==
    ASSUME PInv, PInv', RInv, NEW x \in Client, Return(x)
    PROVE  RInv'
<1> DEFINE k == client[x].conn
           r == AfterReply(client[x], handler[k].reply, handler[k].hash)
<1>1. /\ client \in [Client -> ClientState] /\ client[x] \in ClientState
      /\ handler \in [Conn -> Handler]
      /\ JobAt(x, client[x])
      /\ \A v \in Worker : v \in Client /\ HostOf[v] \in Controller
      /\ \A c \in Controller : c \in Client /\ c \notin Worker
  BY HostType, WorkersAssumption DEF WorkersAssumption, PInv, ProtocolTypeOK, JobsOK, IInv, TypeOK, Client
<1>2. /\ k # None /\ handler[k].pc = "replied"
      /\ handler' = [handler EXCEPT ![k] = Idle]
      /\ client' = [client EXCEPT ![x] = r]
      /\ UNCHANGED <<assignedImages, controllerDaemons, daemon>>
  BY <1>1 DEF Return, Close, At, tables
<1>3. k \in Conn /\ client[x].pc \in CallState
  BY <1>1, <1>2 DEF ClientState, JobAt
<1>4. /\ client'[x] = r /\ \A y \in Client : y # x => client'[y] = client[y]
      /\ handler'[k].pc = "idle" /\ \A j \in Conn : j # k => handler'[j] = handler[j]
  BY <1>1, <1>2, <1>3 DEF Idle
<1>5. \A y \in Client : y # x /\ client[y].conn # None => client[y].conn \in Conn \ {k}
  BY <1>1, <1>2 DEF PInv, ConnectionsOK, ClientState
<1>6. /\ r.conn = None
      /\ client[x].pc = "boot" <=> r.pc = "up"
      /\ client[x].pc = "request" /\ handler[k].reply = "Start" =>
            r.pc = "scan" /\ r.spec = client[x].spec
  BY <1>1, <1>3 DEF AfterReply, NoJob, Booting, ClientState, CallState
<1> HIDE DEF r
<1>7. BootFirst'
  <2> SUFFICES ASSUME NEW w \in Worker, client'[HostOf[w]].pc = "boot"
               PROVE  client'[w].pc = "idle"
    BY DEF BootFirst
  <2>1. HostOf[w] # x
    BY <1>1, <1>3, <1>4, <1>6 DEF JobAt, CallState
  <2>2. client[HostOf[w]].pc = "boot"
    BY <1>1, <1>4, <2>1
  <2>3. client[w].pc = "idle"
    BY <2>2 DEF RInv, BootFirst
  <2>4. w # x
    BY <1>3, <2>3 DEF CallState
  <2> QED
    BY <1>1, <1>4, <2>3, <2>4
<1>8. AllAwaited'
  <2> SUFFICES ASSUME NEW j \in Conn, handler'[j].pc # "idle"
               PROVE  \E y \in Client : client'[y].conn = j
    BY DEF AllAwaited
  <2>1. j # k /\ handler[j].pc # "idle"
    BY <1>4
  <2>2. PICK y \in Client : client[y].conn = j
    BY <2>1 DEF RInv, AllAwaited
  <2> QED
    BY <1>4, <2>1, <2>2
<1>9. Registered'
  <2> SUFFICES ASSUME NEW c \in Controller,
                      \/ client'[c].pc = "up"
                      \/ client'[c].conn # None /\ handler'[client'[c].conn].pc = "replied"
               PROVE  controllerDaemons[c] # None
    BY <1>2 DEF Registered
  <2>1. CASE c = x
    BY <1>2, <2>1 DEF RInv, Registered
  <2>2. CASE c # x
    <3>1. client'[c] = client[c]
      BY <1>1, <1>4, <2>2
    <3>2. client[c].conn # None => handler'[client[c].conn] = handler[client[c].conn]
      BY <1>1, <1>4, <1>5, <2>2
    <3> QED
      BY <3>1, <3>2 DEF RInv, Registered
  <2> QED
    BY <2>1, <2>2
<1>10. RegisteredOnce' /\ LedgersAgree'
  BY <1>2, <1>4 DEF RInv, RegisteredOnce, LedgersAgree
<1>11. EveryAssignmentEnds'
  <2> SUFFICES ASSUME NEW h \in Hash, assignedImages[h] # None
               PROVE  \E w \in Worker : /\ HostOf[w] = assignedImages[h].ControllerID
                                        /\ client'[w].spec = assignedImages[h].ImageSpec
                                        /\ WillEnd(w, h)'
    BY <1>2 DEF EveryAssignmentEnds
  <2>1. PICK w \in Worker : /\ HostOf[w] = assignedImages[h].ControllerID
                            /\ client[w].spec = assignedImages[h].ImageSpec
                            /\ WillEnd(w, h)
    BY DEF RInv, EveryAssignmentEnds
  <2>2. CASE w # x
    <3>1. client'[w] = client[w]
      BY <1>1, <1>4, <2>2
    <3>2. client[w].conn # None => handler'[client[w].conn] = handler[client[w].conn]
      BY <1>1, <1>4, <1>5, <2>2
    <3>3. Holder(w)' <=> Holder(w)
      BY <3>1, <3>2, SameView
    <3> QED
      BY <2>1, <3>1, <3>2, <3>3 DEF WillEnd, Reporting
  <2>3. CASE w = x
    <3>1. client[x].pc = "request" /\ handler[k].reply = "Start"
      BY <1>2, <2>1, <2>3 DEF WillEnd, Holder, Reporting
    <3>2. client'[x].pc = "scan" /\ client'[x].conn = None /\ client'[x].spec = client[x].spec
      BY <1>4, <1>6, <3>1
    <3> QED
      BY <2>1, <2>3, <3>2 DEF WillEnd, Holder
  <2> QED
    BY <2>2, <2>3
<1> QED
  BY <1>7, <1>8, <1>9, <1>10, <1>11 DEF RInv

\* The scans a controller is charged with, as its daemon object has them.
Charged(c) ==
    IF controllerDaemons[c] = None THEN {} ELSE daemon[controllerDaemons[c]].assignedScans

\* A goroutine past its lookup holds the one daemon object of its controller.
LEMMA HoldsTheDaemon ==
    ASSUME PInv, RegisteredOnce, NEW k \in Conn,
           handler[k].pc \in {"check", "save", "find", "image", "commit"}
    PROVE  /\ handler[k].id \in Controller
           /\ handler[k].cd = controllerDaemons[handler[k].id]
           /\ handler[k].cd # None /\ handler[k].cd \in Ref
           /\ daemon[handler[k].cd] \in Daemon(ImageSpec)
           /\ \A c \in Controller : c # handler[k].id => controllerDaemons[c] # handler[k].cd
<1>1. handler[k].id \in Controller /\ HoldsDaemon(handler[k])
  BY DEF PInv, IInv, HandlersOK, LocalsAt
<1>2. PICK j \in Conn : handler[k].cd = <<handler[k].id, j>> /\ daemon[<<handler[k].id, j>>] # None
  BY <1>1 DEF HoldsDaemon
<1>3. handler[k].cd = controllerDaemons[handler[k].id]
  BY <1>1, <1>2 DEF RegisteredOnce
<1>4. handler[k].cd \in Ref /\ handler[k].cd # None
  BY <1>1, <1>2, SetsAssumption DEF Ref
<1>5. daemon[handler[k].cd] \in Daemon(ImageSpec)
  BY <1>2, <1>4 DEF PInv, IInv, TypeOK
<1>6. \A c \in Controller : c # handler[k].id => controllerDaemons[c] # handler[k].cd
  <2> SUFFICES ASSUME NEW c \in Controller, c # handler[k].id, controllerDaemons[c] = handler[k].cd
               PROVE  FALSE
    OBVIOUS
  <2>1. PICK i \in Conn : controllerDaemons[c] = <<c, i>>
    BY <1>4 DEF PInv, IInv, RegistryOK
  <2> QED
    BY <1>2, <2>1
<1> QED
  BY <1>1, <1>3, <1>4, <1>5, <1>6

\* The agreement of the two ledgers, in these words.
LEMMA ChargedAgrees ==
    LedgersAgree <=>
        \A c \in Controller, s \in ImageSpec :
            s \in Charged(c) <=> assignedImages[Md5[s]] = [ControllerID |-> c, ImageSpec |-> s]
  BY DEF LedgersAgree, Charged

\* A controller registers when it has no daemon object: its own first
\* heartbeat is the only one that can find it unknown.
LEMMA RegisterReliable ==
    ASSUME PInv, PInv', RInv, NEW k \in Conn, Register(k), UNCHANGED client
    PROVE  RegisteredOnce' /\ LedgersAgree'
<1> DEFINE c == handler[k].id
<1>1. /\ handler \in [Conn -> Handler]
      /\ controllerDaemons \in [Controller -> Ref \cup {None}]
      /\ daemon \in [Ref -> Daemon(ImageSpec) \cup {None}]
  BY DEF PInv, IInv, TypeOK
<1>2. /\ handler[k].pc = "register" /\ c \in Controller /\ handler[k].op = "heartbeat"
      /\ controllerDaemons[c] = None
  BY DEF PInv, IInv, HandlersOK, LocalsAt, Register, At, RInv, RegisteredOnce
<1>3. \A i \in Conn : daemon[<<c, i>>] = None
  BY <1>2 DEF PInv, IInv, RegistryOK
<1>4. /\ daemon' = [daemon EXCEPT ![<<c, k>>] = newControllerDaemon(WorkerCount[c])]
      /\ controllerDaemons' = [controllerDaemons EXCEPT ![c] = <<c, k>>]
      /\ handler'[k].pc = "replied" /\ \A j \in Conn : j # k => handler'[j] = handler[j]
      /\ UNCHANGED assignedImages
  BY <1>1 DEF Register, Send, Idle
<1>5. ASSUME NEW j \in Conn, handler[j].pc = "register", handler[j].id = c
      PROVE  client[c].conn = j
  <2>1. PICK x \in Client : client[x].conn = j
    BY <1>5 DEF RInv, AllAwaited
  <2>2. Host(x) = c /\ OpAt(client[x].pc) = "heartbeat" /\ JobAt(x, client[x])
    <3>1. ServesCall(client[x], Host(x), handler[j]) /\ JobAt(x, client[x])
      BY <2>1, SetsAssumption DEF PInv, ConnectionsOK, JobsOK
    <3>2. handler[j].op = "heartbeat"
      BY <1>5 DEF PInv, IInv, HandlersOK, LocalsAt
    <3> QED
      BY <1>5, <3>1, <3>2 DEF ServesCall
  <2>3. CASE x \in Controller
    BY <2>1, <2>2, <2>3 DEF Host
  <2>4. CASE x \in Worker
    <3>1. Host(x) = HostOf[x] /\ x \notin Controller
      BY <2>4, HostType
    <3>2. client[x].pc = "heartbeat"
      BY <2>2, <3>1 DEF OpAt, JobAt
    <3>3. client[c].pc # "boot"
      BY <2>2, <2>4, <3>1, <3>2 DEF RInv, BootFirst
    <3>4. client[c].pc = "up"
      BY <1>2, <3>3 DEF PInv, JobsOK, JobAt, Client
    <3> QED
      BY <1>2, <3>4 DEF RInv, Registered
  <2> QED
    BY <2>3, <2>4 DEF Client
<1>6. RegisteredOnce'
  <2>1. ASSUME NEW j \in Conn, handler'[j].pc = "register"
        PROVE  controllerDaemons'[handler'[j].id] = None
    <3>1. j # k /\ handler'[j] = handler[j]
      BY <1>4, <2>1
    <3>2. handler[j].id # c
      BY <1>2, <1>5, <2>1, <3>1
    <3>3. controllerDaemons[handler[j].id] = None /\ handler[j].id \in Controller
      BY <2>1, <3>1 DEF RInv, RegisteredOnce, PInv, IInv, HandlersOK, LocalsAt
    <3> QED
      BY <1>1, <1>2, <1>4, <3>1, <3>2, <3>3
  <2>2. ASSUME NEW d \in Controller, NEW i \in Conn, daemon'[<<d, i>>] # None
        PROVE  controllerDaemons'[d] = <<d, i>>
    <3>1. <<d, i>> \in Ref /\ <<c, k>> \in Ref
      BY <1>2 DEF Ref
    <3>2. CASE d = c
      <4>1. i = k
        BY <1>1, <1>3, <1>4, <2>2, <3>1, <3>2
      <4> QED
        BY <1>1, <1>2, <1>4, <3>2, <4>1
    <3>3. CASE d # c
      <4>1. daemon[<<d, i>>] # None
        BY <1>1, <1>4, <2>2, <3>1, <3>3
      <4> QED
        BY <1>1, <1>2, <1>4, <3>3, <4>1 DEF RInv, RegisteredOnce
    <3> QED
      BY <3>2, <3>3
  <2> QED
    BY <2>1, <2>2 DEF RegisteredOnce
<1>7. \A d \in Controller : Charged(d)' = Charged(d)
  <2> SUFFICES ASSUME NEW d \in Controller PROVE Charged(d)' = Charged(d)
    OBVIOUS
  <2>1. <<c, k>> \in Ref /\ <<c, k>> # None
    BY <1>2, SetsAssumption DEF Ref
  <2>2. CASE d = c
    <3>1. daemon'[<<c, k>>].assignedScans = {} /\ controllerDaemons'[c] = <<c, k>>
      BY <1>1, <1>2, <1>4, <2>1 DEF newControllerDaemon
    <3> QED
      BY <1>2, <2>1, <2>2, <3>1 DEF Charged
  <2>3. CASE d # c
    <3>1. controllerDaemons'[d] = controllerDaemons[d]
      BY <1>1, <1>2, <1>4, <2>3
    <3>2. controllerDaemons[d] # None => daemon'[controllerDaemons[d]] = daemon[controllerDaemons[d]]
      <4> SUFFICES ASSUME controllerDaemons[d] # None
                   PROVE  daemon'[controllerDaemons[d]] = daemon[controllerDaemons[d]]
        OBVIOUS
      <4>1. PICK i \in Conn : controllerDaemons[d] = <<d, i>>
        BY DEF PInv, IInv, RegistryOK
      <4>2. <<d, i>> \in Ref /\ <<d, i>> # <<c, k>>
        BY <2>3 DEF Ref
      <4> QED
        BY <1>1, <1>4, <4>1, <4>2
    <3> QED
      BY <3>1, <3>2 DEF Charged
  <2> QED
    BY <2>2, <2>3
<1>8. LedgersAgree'
  <2>1. \A d \in Controller, s \in ImageSpec :
            s \in Charged(d) <=> assignedImages[Md5[s]] = [ControllerID |-> d, ImageSpec |-> s]
    BY ChargedAgrees DEF RInv
  <2>2. \A d \in Controller, s \in ImageSpec :
            s \in Charged(d)' <=> assignedImages'[Md5[s]] = [ControllerID |-> d, ImageSpec |-> s]
    BY <1>4, <1>7, <2>1
  <2> QED
    BY <2>2 DEF LedgersAgree, Charged
<1> QED
  BY <1>6, <1>8

\* A goroutine that writes to the daemon object it holds, and at most to the
\* announcements of the others, changes what its own controller is charged
\* with and nothing else.
LEMMA OwnLedger ==
    ASSUME PInv, RegisteredOnce, NEW k \in Conn, NEW c, c = handler[k].id,
           handler[k].pc \in {"save", "find", "commit"},
           NEW new \in Daemon(ImageSpec), daemon'[handler[k].cd] = new,
           \A r \in Ref \ {handler[k].cd} :
               /\ daemon'[r] # None => daemon[r] # None
               /\ daemon[r] # None => daemon'[r].assignedScans = daemon[r].assignedScans,
           UNCHANGED controllerDaemons,
           \A j \in Conn : handler'[j].pc = "register" => handler'[j] = handler[j]
    PROVE  /\ RegisteredOnce'
           /\ Charged(c)' = new.assignedScans
           /\ Charged(c) = daemon[handler[k].cd].assignedScans
           /\ \A d \in Controller : d # c => Charged(d)' = Charged(d)
<1> DEFINE r == handler[k].cd
<1>1. /\ c \in Controller /\ r = controllerDaemons[c]
      /\ r # None /\ r \in Ref
      /\ daemon[r] \in Daemon(ImageSpec)
      /\ \A d \in Controller : d # c => controllerDaemons[d] # r
  BY HoldsTheDaemon
<1>2. daemon[r] # None
  BY <1>1, SetsAssumption
<1>3. RegisteredOnce'
  <2>1. ASSUME NEW d \in Controller, NEW j \in Conn, daemon'[<<d, j>>] # None
        PROVE  controllerDaemons[d] = <<d, j>>
    <3>1. <<d, j>> \in Ref
      BY DEF Ref
    <3>2. daemon[<<d, j>>] # None
      BY <1>2, <2>1, <3>1
    <3> QED
      BY <3>2 DEF RegisteredOnce
  <2> QED
    BY <2>1 DEF RegisteredOnce
<1>4. ASSUME NEW d \in Controller, d # c
      PROVE  Charged(d)' = Charged(d)
  <2>1. CASE controllerDaemons[d] = None
    BY <2>1 DEF Charged
  <2>2. CASE controllerDaemons[d] # None
    <3>1. PICK j \in Conn : controllerDaemons[d] = <<d, j>> /\ daemon[<<d, j>>] # None
      BY <2>2 DEF PInv, IInv, RegistryOK
    <3>2. <<d, j>> \in Ref \ {r}
      BY <1>1, <1>4, <3>1 DEF Ref
    <3> QED
      BY <2>2, <3>1, <3>2 DEF Charged
  <2> QED
    BY <2>1, <2>2
<1>5. Charged(c)' = new.assignedScans /\ Charged(c) = daemon[r].assignedScans
  BY <1>1 DEF Charged
<1> QED
  BY <1>3, <1>4, <1>5

\* The ledgers, step by step of a goroutine: both are charged, and both are
\* relieved, in the same locked section.
LEMMA LedgersReliable ==
    ASSUME PInv, PInv', XInv, RInv, NEW k \in Conn, ArbiterServes(k)
    PROVE  RegisteredOnce' /\ LedgersAgree'
<1>1. /\ Serve(k) /\ UNCHANGED client
      /\ handler \in [Conn -> Handler]
      /\ daemon \in [Ref -> Daemon(ImageSpec) \cup {None}]
      /\ assignedImages \in [Hash -> Assignment \cup {None}]
      /\ LocalsAt(handler[k])
  BY DEF ArbiterServes, clientVars, PInv, IInv, TypeOK, HandlersOK
<1>2. /\ \A j \in Conn \ {k} : handler'[j] = handler[j]
      /\ Answered(handler[k], handler'[k]) \/ Continues(handler[k], handler'[k])
  BY <1>1, ServeEffect DEF PInv
<1>3. CASE Throttle(k) \/ LookupKnown(k) \/ LookupUnknown(k) \/ Check(k) \/ LookupImage(k)
  <2>1. UNCHANGED <<assignedImages, controllerDaemons, daemon>>
    BY <1>3 DEF Throttle, LookupKnown, LookupUnknown, Check, LookupImage, tables
  <2>2. handler'[k].pc = "register" => controllerDaemons[handler'[k].id] = None
    <3>1. CASE LookupUnknown(k)
      BY <1>2, <3>1 DEF LookupUnknown, Answered, Continues
    <3>2. CASE ~LookupUnknown(k)
      <4>1. ASSUME NEW reply, NEW hash, Send(k, reply, hash)
            PROVE  handler'[k].pc # "register"
        BY <1>1, <4>1 DEF Send, Idle
      <4>2. ASSUME NEW pc \in {"lookup", "save"}, Goto(k, pc)
            PROVE  handler'[k].pc # "register"
        BY <1>1, <4>2 DEF Goto, Handler
      <4>3. CASE Throttle(k)
        BY <4>1, <4>2, <4>3 DEF Throttle
      <4>4. CASE LookupKnown(k)
        <5>1. CASE handler[k].op = "heartbeat"
          BY <4>1, <4>4, <5>1 DEF LookupKnown
        <5>2. CASE handler[k].op # "heartbeat"
          <6>1. handler' = [handler EXCEPT ![k] =
                    [@ EXCEPT !.cd = controllerDaemons[handler[k].id], !.pc = AfterLookup(handler[k].op)]]
            BY <1>1, <4>4, <5>2 DEF LookupKnown, Handler
          <6>2. AfterLookup(handler[k].op) # "register"
            BY DEF AfterLookup
          <6> QED
            BY <1>1, <6>1, <6>2 DEF Handler
        <5> QED
          BY <5>1, <5>2
      <4>5. CASE Check(k)
        BY <4>1, <4>2, <4>5 DEF Check
      <4>6. CASE LookupImage(k)
        BY <1>1, <4>1, <4>6 DEF LookupImage, Handler
      <4> QED
        BY <1>3, <3>2, <4>3, <4>4, <4>5, <4>6
    <3> QED
      BY <3>1, <3>2
  <2> QED
    BY <1>2, <2>1, <2>2 DEF RInv, RegisteredOnce, LedgersAgree
<1>4. CASE Register(k)
  BY <1>1, <1>4, RegisterReliable
<1>5. CASE saveFoundImage(k) \/ findWorker(k) \/ finalizeScan(k) \/ releaseScanForPeer(k)
  <2> DEFINE r == handler[k].cd
             s == handler[k].spec
  <2>0. PICK c : c = handler[k].id
    OBVIOUS
  <2>1. /\ handler[k].pc \in {"save", "find", "commit"} /\ s \in ImageSpec
        /\ UNCHANGED controllerDaemons
    BY <1>1, <1>5 DEF saveFoundImage, findWorker, finalizeScan, releaseScanForPeer, At, LocalsAt
  <2>2. c \in Controller /\ r \in Ref /\ daemon[r] \in Daemon(ImageSpec)
    BY <2>0, <2>1, HoldsTheDaemon DEF RInv
  <2>3. \A j \in Conn : handler'[j].pc = "register" => handler'[j] = handler[j]
    <3>1. ASSUME NEW reply, NEW hash, Send(k, reply, hash)
          PROVE  handler'[k].pc = "replied"
      BY <1>1, <3>1 DEF Send, Idle
    <3>2. handler'[k].pc = "replied"
      BY <1>5, <3>1 DEF saveFoundImage, findWorker, finalizeScan, releaseScanForPeer
    <3> QED
      BY <1>2, <3>2
  <2>4. ASSUME NEW new \in Daemon(ImageSpec), daemon'[r] = new,
               \A q \in Ref \ {r} :
                   /\ daemon'[q] # None => daemon[q] # None
                   /\ daemon[q] # None => daemon'[q].assignedScans = daemon[q].assignedScans
        PROVE  /\ RegisteredOnce'
               /\ Charged(c)' = new.assignedScans /\ Charged(c) = daemon[r].assignedScans
               /\ \A d \in Controller : d # c => Charged(d)' = Charged(d)
    BY <2>0, <2>1, <2>3, <2>4, OwnLedger DEF RInv
  <2>5. \A d \in Controller, u \in ImageSpec :
            u \in Charged(d) <=> assignedImages[Md5[u]] = [ControllerID |-> d, ImageSpec |-> u]
    BY ChargedAgrees DEF RInv
  <2>6. Md5[s] \in Hash /\ \A u \in ImageSpec : Md5[u] \in Hash /\ (u # s => Md5[u] # Md5[s])
    BY <2>1, Md5Assumption
  <2>7. ASSUME \A d \in Controller, u \in ImageSpec :
                  u \in Charged(d)' <=> assignedImages'[Md5[u]] = [ControllerID |-> d, ImageSpec |-> u]
        PROVE  LedgersAgree'
    BY <2>7 DEF LedgersAgree, Charged
  <2>8. CASE saveFoundImage(k)
    <3> DEFINE new == AddScanRequest(daemon[r], s)
    <3>1. new \in Daemon(ImageSpec) /\ new.assignedScans = daemon[r].assignedScans
      BY <2>1, <2>2 DEF AddScanRequest, Daemon
    <3>2. daemon' = [daemon EXCEPT ![r] = new] /\ UNCHANGED assignedImages
      BY <2>8 DEF saveFoundImage
    <3> HIDE DEF new
    <3>3. /\ RegisteredOnce' /\ Charged(c)' = Charged(c)
          /\ \A d \in Controller : d # c => Charged(d)' = Charged(d)
      BY <1>1, <2>2, <2>4, <3>1, <3>2
    <3> QED
      BY <2>5, <2>7, <3>2, <3>3
  <2>9. CASE findWorker(k) /\ ~MayAssign(s, c, r)
    <3>1. UNCHANGED <<daemon, assignedImages>>
      BY <2>0, <2>9 DEF findWorker
    <3>2. /\ RegisteredOnce' /\ Charged(c)' = Charged(c)
          /\ \A d \in Controller : d # c => Charged(d)' = Charged(d)
      BY <2>2, <2>4, <3>1
    <3> QED
      BY <2>5, <2>7, <3>1, <3>2
  <2>10. CASE findWorker(k) /\ MayAssign(s, c, r)
    <3> DEFINE new == AssignScan(daemon[r], s)
    <3>1. /\ new \in Daemon(ImageSpec) /\ new.assignedScans = daemon[r].assignedScans \cup {s}
          /\ requestedImages[s] = Md5[s]
      BY <2>0, <2>10, AssignFacts DEF PInv
    <3>2. /\ daemon' = [daemon EXCEPT ![r] = new]
          /\ assignedImages' = [assignedImages EXCEPT ![Md5[s]] = [ControllerID |-> c, ImageSpec |-> s]]
      BY <2>0, <2>10, <3>1 DEF findWorker
    <3> HIDE DEF new
    <3>3. /\ RegisteredOnce' /\ Charged(c)' = Charged(c) \cup {s}
          /\ \A d \in Controller : d # c => Charged(d)' = Charged(d)
      BY <1>1, <2>2, <2>4, <3>1, <3>2
    <3>4. \A d \in Controller : d # c => s \notin Charged(d)
      <4>1. assignedImages[Md5[s]] # None => assignedImages[Md5[s]].ControllerID = c
        BY <2>10, <3>1 DEF MayAssign
      <4>2. \A d \in Controller : [ControllerID |-> d, ImageSpec |-> s] # None
        BY <2>1, SetsAssumption DEF Assignment
      <4>3. ASSUME NEW d \in Controller, s \in Charged(d)
            PROVE  d = c
        <5>1. assignedImages[Md5[s]] = [ControllerID |-> d, ImageSpec |-> s]
          BY <2>1, <2>5, <4>3
        <5>2. assignedImages[Md5[s]].ControllerID = d
          BY <5>1
        <5> QED
          BY <4>1, <4>2, <5>1, <5>2
      <4> QED
        BY <4>3
    <3>5. ASSUME NEW d \in Controller, NEW u \in ImageSpec
          PROVE  u \in Charged(d)' <=>
                    assignedImages'[Md5[u]] = [ControllerID |-> d, ImageSpec |-> u]
      <4>1. CASE u # s
        <5>1. assignedImages'[Md5[u]] = assignedImages[Md5[u]]
          BY <1>1, <2>6, <3>2, <4>1
        <5> QED
          BY <2>5, <3>3, <4>1, <5>1
      <4>2. CASE u = s
        <5>1. assignedImages'[Md5[s]] = [ControllerID |-> c, ImageSpec |-> s]
          BY <1>1, <2>6, <3>2
        <5> QED
          BY <3>3, <3>4, <4>2, <5>1
      <4> QED
        BY <4>1, <4>2
    <3> QED
      BY <2>7, <3>3, <3>5
  <2>11. CASE finalizeScan(k) \/ releaseScanForPeer(k)
    <3> DEFINE new == CompleteScan(daemon[r], s)
               h == handler[k].hash
    <3>1. new \in Daemon(ImageSpec) /\ new.assignedScans = daemon[r].assignedScans \ {s}
      <4>1. new \in Daemon(ImageSpec)
        BY <2>1, <2>2, DaemonType
      <4>2. new.assignedScans = daemon[r].assignedScans \ {s}
        BY <2>2 DEF CompleteScan, Daemon
      <4> QED
        BY <4>1, <4>2
    <3>2. daemon'[r] = new
      BY <1>1, <2>2, <2>11 DEF finalizeScan, releaseScanForPeer, CompleteScan, AbortScan
    <3>3. \A q \in Ref \ {r} :
             /\ daemon'[q] # None => daemon[q] # None
             /\ daemon[q] # None => daemon'[q].assignedScans = daemon[q].assignedScans
      <4>1. CASE releaseScanForPeer(k)
        BY <1>1, <2>2, <4>1 DEF releaseScanForPeer
      <4>2. CASE finalizeScan(k)
        <5> SUFFICES ASSUME NEW q \in Ref \ {r}
                     PROVE  /\ daemon'[q] # None => daemon[q] # None
                            /\ daemon[q] # None => daemon'[q].assignedScans = daemon[q].assignedScans
          OBVIOUS
        <5>1. daemon'[q] = IF q \in Peers(c) THEN SkipScan(daemon[q], s) ELSE daemon[q]
          BY <2>0, <4>2 DEF finalizeScan
        <5>2. CASE q \notin Peers(c)
          BY <5>1, <5>2
        <5>3. CASE q \in Peers(c)
          <6>1. PICK p \in Controller : controllerDaemons[p] = q /\ q # None
            BY <5>3 DEF Peers
          <6>2. daemon[q] # None
            BY <6>1 DEF PInv, IInv, RegistryOK
          <6>3. daemon[q] \in Daemon(ImageSpec)
            BY <1>1, <6>2
          <6>4. SkipScan(daemon[q], s).assignedScans = daemon[q].assignedScans
            BY <6>3 DEF SkipScan, Daemon
          <6> QED
            BY <5>1, <5>3, <6>2, <6>4
        <5> QED
          BY <5>2, <5>3
      <4> QED
        BY <2>11, <4>1, <4>2
    <3> HIDE DEF new
    <3>4. /\ RegisteredOnce' /\ Charged(c)' = Charged(c) \ {s}
          /\ \A d \in Controller : d # c => Charged(d)' = Charged(d)
      BY <2>4, <3>1, <3>2, <3>3
    <3>5. Reporting(k) /\ h = Md5[s] /\ assignedImages' = [assignedImages EXCEPT ![h] = None]
      BY <1>1, <2>11 DEF finalizeScan, releaseScanForPeer, At, Reporting, LocalsAt
    <3>6. assignedImages[h].ControllerID = c
      BY <2>0, <3>5 DEF XInv, ReportsOK
    <3>7. ASSUME NEW d \in Controller, s \in Charged(d)
          PROVE  d = c
      <4>1. assignedImages[Md5[s]] = [ControllerID |-> d, ImageSpec |-> s]
        BY <2>1, <2>5, <3>7
      <4>2. assignedImages[Md5[s]].ControllerID = d
        BY <4>1
      <4> QED
        BY <3>5, <3>6, <4>2
    <3>8. ASSUME NEW d \in Controller, NEW u \in ImageSpec
          PROVE  u \in Charged(d)' <=>
                    assignedImages'[Md5[u]] = [ControllerID |-> d, ImageSpec |-> u]
      <4>1. CASE u # s
        <5>1. assignedImages'[Md5[u]] = assignedImages[Md5[u]]
          BY <1>1, <2>6, <3>5, <4>1
        <5> QED
          BY <2>5, <3>4, <4>1, <5>1
      <4>2. CASE u = s
        <5>1. assignedImages'[Md5[s]] = None
          BY <1>1, <2>6, <3>5
        <5>2. [ControllerID |-> d, ImageSpec |-> s] # None
          BY <2>1, SetsAssumption DEF Assignment
        <5>3. s \notin Charged(d)'
          BY <3>4, <3>7
        <5> QED
          BY <4>2, <5>1, <5>2, <5>3
      <4> QED
        BY <4>1, <4>2
    <3> QED
      BY <2>7, <3>4, <3>8
  <2> QED
    BY <1>5, <2>8, <2>9, <2>10, <2>11
<1> QED
  BY <1>1, <1>3, <1>4, <1>5 DEF Serve

\* The report of a controller that is registered, on an assignment that is in
\* place, is not turned away.
LEMMA ReportGoesOn ==
    ASSUME PInv, NEW k \in Conn, Serve(k), Reporting(k), UNCHANGED assignedImages,
           handler[k].hash \in Hash, assignedImages[handler[k].hash] # None,
           controllerDaemons[handler[k].id] # None
    PROVE  Reporting(k)' /\ handler'[k].hash = handler[k].hash
<1>1. /\ handler \in [Conn -> Handler] /\ LocalsAt(handler[k])
      /\ assignedImages \in [Hash -> Assignment \cup {None}]
      /\ handler[k].op \in {"done", "abort"}
  BY DEF PInv, IInv, TypeOK, HandlersOK, Reporting
<1>2. Answered(handler[k], handler'[k]) \/ Continues(handler[k], handler'[k])
  BY ServeEffect DEF PInv
<1>3. Continues(handler[k], handler'[k]) => Reporting(k)' /\ handler'[k].hash = handler[k].hash
  BY <1>1 DEF Continues, Reporting
<1>4. CASE LookupKnown(k)
  <2>1. handler' = [handler EXCEPT ![k] =
            [@ EXCEPT !.cd = controllerDaemons[handler[k].id], !.pc = AfterLookup(handler[k].op)]]
    BY <1>1, <1>4 DEF LookupKnown, Handler
  <2>2. AfterLookup(handler[k].op) = "image"
    BY <1>1 DEF AfterLookup
  <2>3. handler'[k].pc = "image"
    BY <1>1, <2>1, <2>2 DEF Handler
  <2> QED
    BY <1>2, <1>3, <2>3 DEF Answered
<1>5. CASE LookupImage(k)
  <2>1. handler'[k].pc = "commit"
    BY <1>1, <1>5 DEF LookupImage, Handler
  <2> QED
    BY <1>2, <1>3, <2>1 DEF Answered
<1>6. ~finalizeScan(k) /\ ~releaseScanForPeer(k)
  BY <1>1 DEF finalizeScan, releaseScanForPeer
<1>7. ~Throttle(k) /\ ~LookupUnknown(k) /\ ~Register(k) /\ ~Check(k) /\ ~saveFoundImage(k) /\ ~findWorker(k)
  BY <1>1 DEF Throttle, LookupUnknown, Register, Check, saveFoundImage, findWorker, At, LocalsAt
<1> QED
  BY <1>4, <1>5, <1>6, <1>7 DEF Serve

\* The arbiter goes on with a request.
LEMMA ServeReliable ==
    ASSUME PInv, PInv', XInv, RInv, NEW k \in Conn, ArbiterServes(k)
    PROVE  RInv'
<1>1. /\ Serve(k) /\ UNCHANGED client
      /\ handler \in [Conn -> Handler]
      /\ assignedImages \in [Hash -> Assignment \cup {None}]
      /\ controllerDaemons \in [Controller -> Ref \cup {None}]
      /\ LocalsAt(handler[k])
      /\ client \in [Client -> ClientState]
      /\ \A v \in Worker : /\ v \in Client /\ v \notin Controller /\ Host(v) = HostOf[v]
                           /\ HostOf[v] \in Controller
  BY HostType, WorkersAssumption
  DEF ArbiterServes, clientVars, PInv, IInv, TypeOK, HandlersOK, ProtocolTypeOK, WorkersAssumption
<1>2. /\ \A j \in Conn \ {k} : handler'[j] = handler[j]
      /\ handler[k].pc \notin {"idle", "replied"}
      /\ Answered(handler[k], handler'[k]) \/ Continues(handler[k], handler'[k])
  BY <1>1, ServeEffect DEF PInv
<1>3. BootFirst' /\ AllAwaited'
  BY <1>1, <1>2 DEF RInv, BootFirst, AllAwaited
<1>4. RegisteredOnce' /\ LedgersAgree'
  BY LedgersReliable
<1>5. \A c \in Controller : controllerDaemons[c] # None => controllerDaemons'[c] # None
  <2>1. CASE Register(k)
    <3>1. controllerDaemons' = [controllerDaemons EXCEPT ![handler[k].id] = <<handler[k].id, k>>]
      BY <2>1 DEF Register
    <3>2. handler[k].id \in Controller
      BY <1>1, <1>2 DEF LocalsAt
    <3>3. <<handler[k].id, k>> # None
      BY <3>2, SetsAssumption DEF Ref
    <3> QED
      BY <1>1, <3>1, <3>2, <3>3
  <2>2. CASE ~Register(k)
    BY <1>1, <2>2 DEF Serve, Throttle, LookupKnown, LookupUnknown, Check, saveFoundImage, findWorker,
                      LookupImage, finalizeScan, releaseScanForPeer, tables
  <2> QED
    BY <2>1, <2>2
<1>6. Registered'
  <2> SUFFICES ASSUME NEW c \in Controller, client[c].conn # None,
                      handler'[client[c].conn].pc = "replied"
               PROVE  controllerDaemons'[c] # None
    BY <1>1, <1>5 DEF RInv, Registered
  <2>1. client[c].conn \in Conn /\ c \in Client /\ Host(c) = c
    BY <1>1 DEF ClientState, Client, Host
  <2>2. CASE client[c].conn # k
    BY <1>2, <1>5, <2>1, <2>2 DEF RInv, Registered
  <2>3. CASE client[c].conn = k
    <3>1. ServesCall(client[c], c, handler[k]) /\ JobAt(c, client[c])
      BY <2>1, <2>3 DEF PInv, ConnectionsOK, JobsOK
    <3>2. handler[k].op = "heartbeat" /\ handler[k].id = c
      BY <1>2, <2>3, <3>1 DEF ServesCall, JobAt, OpAt, CallState
    <3>3. LookupKnown(k) \/ LookupUnknown(k) \/ Register(k)
      BY <1>1, <3>2 DEF Serve, LocalsAt, At, Throttle, Check, saveFoundImage, findWorker, LookupImage,
                        finalizeScan, releaseScanForPeer
    <3>4. CASE LookupKnown(k)
      BY <1>5, <3>2, <3>4 DEF LookupKnown
    <3>5. CASE LookupUnknown(k)
      <4>1. Goto(k, "register")
        BY <3>2, <3>5 DEF LookupUnknown
      <4>2. handler'[k].pc = "register"
        BY <1>1, <4>1 DEF Goto, Handler
      <4> QED
        BY <2>3, <4>2
    <3>6. CASE Register(k)
      <4>1. controllerDaemons'[c] = <<c, k>>
        BY <1>1, <3>2, <3>6 DEF Register
      <4> QED
        BY <4>1, SetsAssumption DEF Ref
    <3> QED
      BY <3>3, <3>4, <3>5, <3>6
  <2> QED
    BY <2>2, <2>3
<1>7. ASSUME NEW w \in Worker, Holder(w)
      PROVE  Holder(w)'
  <2>1. client[w].conn # k
    BY <1>2, <1>7, SetsAssumption DEF Holder
  <2>2. client[w].conn # None => client[w].conn \in Conn
    BY <1>1 DEF ClientState
  <2> QED
    BY <1>1, <1>2, <1>7, <2>1, <2>2, SameView
<1>8. ASSUME NEW h \in Hash, NEW w \in Worker, WillEnd(w, h), assignedImages[h] # None,
             Reporting(k) /\ handler[k].hash = h => UNCHANGED assignedImages
      PROVE  WillEnd(w, h)'
  <2>1. CASE Holder(w)
    BY <1>7, <2>1 DEF WillEnd
  <2>2. CASE ~Holder(w)
    <3>1. /\ client[w].conn # None /\ client[w].conn \in Conn
          /\ Reporting(client[w].conn) /\ handler[client[w].conn].hash = h
      BY <1>1, <1>8, <2>2 DEF WillEnd, ClientState
    <3>2. CASE client[w].conn # k
      BY <1>1, <1>2, <3>1, <3>2 DEF WillEnd, Reporting
    <3>3. CASE client[w].conn = k
      <4>1. ServesCall(client[w], HostOf[w], handler[k]) /\ JobAt(w, client[w])
        BY <1>1, <3>1, <3>3 DEF PInv, ConnectionsOK, JobsOK
      <4>2. handler[k].id = HostOf[w] /\ client[w].pc # "idle"
        BY <1>2, <3>1, <4>1 DEF ServesCall, JobAt, CallState
      <4>3. client[HostOf[w]].pc = "up"
        <5>1. client[HostOf[w]].pc # "boot"
          BY <4>2 DEF RInv, BootFirst
        <5> QED
          BY <1>1, <5>1 DEF PInv, JobsOK, JobAt, Client
      <4>4. controllerDaemons[handler[k].id] # None
        BY <1>1, <4>2, <4>3 DEF RInv, Registered
      <4>5. Reporting(k)' /\ handler'[k].hash = h
        BY <1>1, <1>8, <3>1, <3>3, <4>4, ReportGoesOn
      <4> QED
        BY <1>1, <3>1, <3>3, <4>5 DEF WillEnd
    <3> QED
      BY <3>2, <3>3
  <2> QED
    BY <2>1, <2>2
<1>9. EveryAssignmentEnds'
  <2> SUFFICES ASSUME NEW h \in Hash, assignedImages'[h] # None
               PROVE  \E w \in Worker : /\ HostOf[w] = assignedImages'[h].ControllerID
                                        /\ client[w].spec = assignedImages'[h].ImageSpec
                                        /\ WillEnd(w, h)'
    BY <1>1 DEF EveryAssignmentEnds
  <2>1. ASSUME assignedImages'[h] = assignedImages[h],
               Reporting(k) /\ handler[k].hash = h => UNCHANGED assignedImages
        PROVE  \E w \in Worker : /\ HostOf[w] = assignedImages'[h].ControllerID
                                 /\ client[w].spec = assignedImages'[h].ImageSpec
                                 /\ WillEnd(w, h)'
    BY <1>8, <2>1 DEF RInv, EveryAssignmentEnds
  <2>2. CASE ServeKeeps(k)
    BY <2>1, <2>2 DEF ServeKeeps
  <2>3. CASE ServeEnds(k)
    <3>1. handler[k].hash # h
      BY <1>1, <2>3 DEF ServeEnds
    <3>2. assignedImages'[h] = assignedImages[h]
      BY <1>1, <2>3, <3>1 DEF ServeEnds
    <3> QED
      BY <2>1, <3>1, <3>2
  <2>4. CASE ServeGrants(k)
    <3>1. CASE h # Md5[handler[k].spec]
      <4>1. assignedImages'[h] = assignedImages[h]
        BY <1>1, <2>4, <3>1 DEF ServeGrants
      <4>2. ~Reporting(k)
        BY <2>4 DEF ServeGrants, Reporting
      <4> QED
        BY <2>1, <4>1, <4>2
    <3>2. CASE h = Md5[handler[k].spec]
      <4>1. PICK x \in Client : client[x].conn = k
        BY <1>2 DEF RInv, AllAwaited
      <4>2. ServesCall(client[x], Host(x), handler[k]) /\ JobAt(x, client[x])
        BY <4>1, SetsAssumption DEF PInv, ConnectionsOK, JobsOK
      <4>3. handler[k].pc = "find" /\ handler[k].op = "request"
        BY <2>4 DEF ServeGrants
      <4>4. handler[k].id = Host(x) /\ OpAt(client[x].pc) = "request"
        BY <4>2, <4>3 DEF ServesCall
      <4>5. client[x].pc = "request"
        BY <4>4 DEF OpAt
      <4>6. x \in Worker /\ handler[k].spec = client[x].spec /\ HostOf[x] = handler[k].id
        BY <1>1, <4>2, <4>3, <4>4, <4>5 DEF ServesCall, JobAt, Client
      <4>7. assignedImages'[h] = [ControllerID |-> handler[k].id, ImageSpec |-> handler[k].spec]
        BY <1>1, <2>4, <3>2 DEF ServeGrants
      <4>8. Holder(x)'
        BY <1>1, <2>4, <4>1, <4>5, SetsAssumption DEF ServeGrants, Holder
      <4>9. WillEnd(x, h)'
        BY <4>8 DEF WillEnd
      <4> QED
        BY <4>6, <4>7, <4>9
    <3> QED
      BY <3>1, <3>2
  <2> QED
    BY <1>1, <2>2, <2>3, <2>4, ServeAssignments
<1> QED
  BY <1>3, <1>4, <1>6, <1>9 DEF RInv

\* At the start every controller is booting.
LEMMA InitReliable == ProtocolInit => RInv
<1> SUFFICES ASSUME ProtocolInit PROVE RInv
  OBVIOUS
<1>1. /\ handler = [k \in Conn |-> Idle]
      /\ assignedImages = [h \in Hash |-> None]
      /\ controllerDaemons = [c \in Controller |-> None]
      /\ daemon = [r \in Ref |-> None]
      /\ client = [x \in Client |-> IF x \in Controller THEN Booting ELSE NoJob]
  BY DEF ProtocolInit, Init, NewArbiter, InitClients
<1>2. /\ \A c \in Controller : client[c] = Booting
      /\ \A w \in Worker : client[w] = NoJob
  BY <1>1, HostType DEF Client
<1>3. BootFirst /\ AllAwaited /\ Registered
  <2>1. /\ \A k \in Conn : handler[k].pc = "idle"
        /\ \A c \in Controller : client[c].pc = "boot" /\ client[c].conn = None
        /\ \A w \in Worker : client[w].pc = "idle"
    BY <1>1, <1>2, FreshClients DEF Idle
  <2> QED
    BY <2>1 DEF BootFirst, AllAwaited, Registered
<1>4. RegisteredOnce /\ EveryAssignmentEnds
  BY <1>1 DEF RegisteredOnce, EveryAssignmentEnds, Idle, Ref
<1>5. LedgersAgree
  <2> SUFFICES ASSUME NEW c \in Controller, NEW s \in ImageSpec
               PROVE  assignedImages[Md5[s]] # [ControllerID |-> c, ImageSpec |-> s]
    BY <1>1 DEF LedgersAgree
  <2>1. Md5[s] \in Hash
    BY Md5Assumption
  <2> QED
    BY <1>1, <2>1, SetsAssumption DEF Assignment
<1> QED
  BY <1>3, <1>4, <1>5 DEF RInv

\* Every step preserves RInv.
LEMMA NextReliable ==
    ASSUME Reliable
    PROVE  PInv /\ PInv' /\ XInv /\ RInv /\ [ProtocolNext]_protocolVars => RInv'
<1> SUFFICES ASSUME PInv, PInv', XInv, RInv, [ProtocolNext]_protocolVars PROVE RInv'
  OBVIOUS
<1>1. /\ ~ArbiterRestart
      /\ \A c \in Controller : ~ControllerRestart(c) /\ \A s \in ImageSpec : ~Requeue(c, s)
      /\ \A x \in Client : ~CallFails(x) /\ ~ReplyGarbled(x)
  BY DEF Reliable, StableArbiter, ArbiterRestart, Requeue, ControllerRestart, CallFails, ReplyGarbled,
         Fault
<1>2. \A k \in Conn : ~CloseOrphan(k)
  BY DEF CloseOrphan, Close, At, Orphan, RInv, AllAwaited
<1>3. ASSUME \/ UNCHANGED protocolVars
             \/ \E s \in ImageSpec :
                  NotifyRead(s) \/ NotifyDone(s) \/ ImageAdded(s) \/ ImageRemoved(s)
      PROVE  RInv'
  <2>1. UNCHANGED <<assignedImages, controllerDaemons, daemon, handler, client>>
    BY <1>3 DEF protocolVars, NotifyRead, NotifyDone, ImageAdded, ImageRemoved, vars, clientVars,
                DoneScan, addImage, RemoveImage
  <2>2. \A w \in Worker : Holder(w) => Holder(w)'
    BY <2>1 DEF Holder
  <2> QED
    BY <2>1, <2>2, QuietReliable
<1> QED
  BY <1>1, <1>2, <1>3, WorkerReliable, CallReliable, ReturnReliable, ServeReliable DEF ProtocolNext

\* RInv holds throughout.
LEMMA ReliableInvariant ==
    ASSUME Reliable
    PROVE  ProtocolSpec => [](PInv /\ XInv /\ RInv)
<1>1. StableArbiter
  BY DEF Reliable
<1>2. ProtocolInit => PInv /\ XInv /\ RInv
  BY InitPInv, InitXInv, InitReliable
<1>3. PInv /\ XInv /\ RInv /\ [ProtocolNext]_protocolVars => (PInv /\ XInv /\ RInv)'
  BY <1>1, NextPInv, NextXInv, NextReliable
<1> QED
  BY <1>2, <1>3, PTL DEF ProtocolSpec

\* While calls are answered and nobody dies, the daemon objects and the map of
\* assignments agree: every worker the arbiter counts busy is one it has given
\* a scan to, and the other way round.
THEOREM LedgersAlwaysAgree ==
    ASSUME Reliable
    PROVE  ProtocolSpec => []LedgersAgree
<1>1. PInv /\ XInv /\ RInv => LedgersAgree
  BY DEF RInv
<1> QED
  BY <1>1, ReliableInvariant, PTL

\* ... and no Hub job slot leaks: every assignment has a worker that scans,
\* reports, or has the order to start on its way.
THEOREM SlotsNeverLeak ==
    ASSUME Reliable
    PROVE  ProtocolSpec => []NoLeakedSlot
<1>1. PInv /\ XInv /\ RInv => NoLeakedSlot
  <2> SUFFICES ASSUME PInv, XInv, RInv, NEW h \in Hash, assignedImages[h] # None
               PROVE  Answers(assignedImages[h].ControllerID, assignedImages[h].ImageSpec)
    BY DEF NoLeakedSlot
  <2>1. PICK w \in Worker : /\ HostOf[w] = assignedImages[h].ControllerID
                            /\ client[w].spec = assignedImages[h].ImageSpec
                            /\ WillEnd(w, h)
    BY DEF RInv, EveryAssignmentEnds
  <2>2. CASE Holder(w)
    BY <2>1, <2>2 DEF Holder, Answers
  <2>3. CASE ~Holder(w)
    <3>1. client[w].conn # None /\ Reporting(client[w].conn)
      BY <2>1, <2>3 DEF WillEnd
    <3>2. ServesCall(client[w], Host(w), handler[client[w].conn]) /\ JobAt(w, client[w])
      BY <3>1, HostType DEF PInv, ConnectionsOK, JobsOK
    <3>3. OpAt(client[w].pc) \in {"done", "abort"}
      BY <3>1, <3>2 DEF ServesCall, Reporting
    <3>4. client[w].pc \in {"done", "abort"}
      BY <3>3 DEF OpAt
    <3> QED
      BY <2>1, <3>4 DEF Answers
  <2> QED
    BY <2>2, <2>3
<1> QED
  BY <1>1, ReliableInvariant, PTL
=============================================================================
