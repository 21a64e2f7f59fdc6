----------------------------- MODULE ArbiterProofs -----------------------------
(***************************************************************************)
(* Proofs about Arbiter for every set of controllers, images, connections  *)
(* and every limit of Hub jobs.  The properties rest on one inductive      *)
(* invariant, IInv: what each goroutine's local variables are worth while  *)
(* other goroutines run.                                                   *)
(***************************************************************************)
EXTENDS Arbiter, FiniteSetTheorems, TLAPS

\* What a goroutine's locals q hold at each point of its handler.
LocalsAt(q) ==
    /\ q.pc \notin {"idle", "replied"} => q.id \in Controller
    /\ q.pc \in {"throttle", "check", "save", "find"} => q.spec \in ImageSpec
    /\ q.pc \in {"throttle", "find"} => q.op = "request"
    /\ q.pc = "register" => q.op = "heartbeat"
    /\ q.pc \in {"check", "save"} => q.op = "found"
    /\ q.pc \in {"image", "commit"} => q.op \in {"processing", "done", "abort"}
    /\ q.pc = "lookup" =>
          /\ q.op \in {"heartbeat", "found", "request", "processing", "done", "abort"}
          /\ q.op \in {"found", "request"} => q.spec \in ImageSpec
          /\ q.op \in {"processing", "done", "abort"} => q.hash \in Hash
    /\ q.pc = "image" => q.hash \in Hash
    /\ q.pc = "commit" => q.spec \in ImageSpec /\ q.hash = Md5[q.spec]

\* A goroutine past its lookup holds an object of the controller it serves,
\* whether or not the map still does.
HoldsDaemon(q) ==
    q.pc \in {"check", "save", "find", "image", "commit"} =>
        \E j \in Conn : q.cd = <<q.id, j>> /\ daemon[<<q.id, j>>] # None

HandlersOK ==
    \A k \in Conn :
        /\ LocalsAt(handler[k])
        /\ HoldsDaemon(handler[k])
        \* the object a goroutine is about to register does not exist yet
        /\ handler[k].pc = "register" => daemon[<<handler[k].id, k>>] = None

\* The map leads to objects of the right controller, and a controller that is
\* not in the map has none.
RegistryOK ==
    \A c \in Controller :
        IF controllerDaemons[c] = None
        THEN \A k \in Conn : daemon[<<c, k>>] = None
        ELSE \E k \in Conn : controllerDaemons[c] = <<c, k>> /\ daemon[<<c, k>>] # None

\* A request is filed under the digest of its pull spec.
RequestsOK ==
    \A s \in ImageSpec : requestedImages[s] \in {None, Md5[s]}

IInv ==
    /\ TypeOK
    /\ HandlersOK
    /\ RegistryOK
    /\ RequestsOK
    /\ WorkersConserved
    /\ AssignmentBacked
    /\ HubJobsBounded

-----------------------------------------------------------------------------
(***************************************************************************)
(* The ledger of one controller.                                           *)
(***************************************************************************)

\* Assigning a scan, completing it and aborting it keep a daemon's books
\* balanced, also when the scan was assigned before (AssignScan) or never was
\* (CompleteScan, AbortScan); announcing and skipping do not touch them.
LEMMA DaemonBalanced ==
    ASSUME NEW cd \in Daemon(ImageSpec), NEW s \in ImageSpec, NEW n, Balanced(cd, n)
    PROVE  /\ Balanced(AddScanRequest(cd, s), n)
           /\ Balanced(SkipScan(cd, s), n)
           /\ AssignScanOk(cd, s) => Balanced(AssignScan(cd, s), n)
           /\ Balanced(CompleteScan(cd, s), n)
           /\ Balanced(AbortScan(cd, s), n)
<1> DEFINE A == cd.assignedScans
<1>1. IsFiniteSet(A) /\ Cardinality(A) \in Nat
  BY SetsAssumption, FS_Subset, FS_CardinalityType DEF Daemon
<1>2. cd.WorkerCount \in Int
  BY DEF Daemon
<1>3. Balanced(AddScanRequest(cd, s), n) /\ Balanced(SkipScan(cd, s), n)
  BY DEF Balanced, AddScanRequest, SkipScan, Daemon
<1>4. ASSUME AssignScanOk(cd, s)
      PROVE  Balanced(AssignScan(cd, s), n)
  <2>1. CASE s \in A
    BY <2>1 DEF AssignScan
  <2>2. CASE s \notin A
    <3>1. Cardinality(A \cup {s}) = Cardinality(A) + 1
      BY <1>1, <2>2, FS_AddElement
    <3> QED
      BY <1>1, <1>2, <1>4, <2>2, <3>1 DEF AssignScan, AssignScanOk, Balanced, Daemon
  <2> QED
    BY <2>1, <2>2
<1>5. s \in A => Cardinality(A \ {s}) = Cardinality(A) - 1
  BY <1>1, FS_RemoveElement
<1>6. s \notin A => A \ {s} = A
  OBVIOUS
<1>7. Balanced(CompleteScan(cd, s), n)
  <2>1. /\ CompleteScan(cd, s).assignedScans = A \ {s}
        /\ CompleteScan(cd, s).WorkerCount = IF s \in A THEN cd.WorkerCount + 1 ELSE cd.WorkerCount
    BY DEF CompleteScan, Daemon
  <2>2. CASE s \in A
    BY <1>1, <1>2, <1>5, <2>1, <2>2 DEF Balanced
  <2>3. CASE s \notin A
    BY <1>6, <2>1, <2>3 DEF Balanced
  <2> QED
    BY <2>2, <2>3
<1>8. Balanced(AbortScan(cd, s), n)
  <2>1. /\ AbortScan(cd, s).assignedScans = A \ {s}
        /\ AbortScan(cd, s).WorkerCount = IF s \in A THEN cd.WorkerCount + 1 ELSE cd.WorkerCount
    BY DEF AbortScan, Daemon
  <2>2. CASE s \in A
    BY <1>1, <1>2, <1>5, <2>1, <2>2 DEF Balanced
  <2>3. CASE s \notin A
    BY <1>6, <2>1, <2>3 DEF Balanced
  <2> QED
    BY <2>2, <2>3
<1> QED
  BY <1>3, <1>4, <1>7, <1>8

\* The methods of controllerDaemon return ledgers.
LEMMA DaemonType ==
    ASSUME NEW cd \in Daemon(ImageSpec), NEW s \in ImageSpec
    PROVE  /\ AddScanRequest(cd, s) \in Daemon(ImageSpec)
           /\ SkipScan(cd, s) \in Daemon(ImageSpec)
           /\ AssignScan(cd, s) \in Daemon(ImageSpec)
           /\ CompleteScan(cd, s) \in Daemon(ImageSpec)
           /\ AbortScan(cd, s) \in Daemon(ImageSpec)
<1>1. cd.WorkerCount + 1 \in Int /\ cd.WorkerCount - 1 \in Int
  BY DEF Daemon
<1>2. AddScanRequest(cd, s) \in Daemon(ImageSpec) /\ SkipScan(cd, s) \in Daemon(ImageSpec)
  BY DEF Daemon, AddScanRequest, SkipScan
<1>3. AssignScan(cd, s) \in Daemon(ImageSpec)
  BY <1>1 DEF Daemon, AssignScan
<1>4. CompleteScan(cd, s) \in Daemon(ImageSpec)
  BY <1>1 DEF Daemon, CompleteScan
<1>5. AbortScan(cd, s) \in Daemon(ImageSpec)
  BY <1>1 DEF Daemon, AbortScan
<1> QED
  BY <1>2, <1>3, <1>4, <1>5

\* The ledger of a new controller balances: all its workers are free.
LEMMA NewDaemon ==
    ASSUME NEW n \in Nat
    PROVE  newControllerDaemon(n) \in Daemon(ImageSpec) /\ Balanced(newControllerDaemon(n), n)
  BY FS_EmptySet DEF newControllerDaemon, Daemon, Balanced

-----------------------------------------------------------------------------
(***************************************************************************)
(* What the goroutines share.                                              *)
(***************************************************************************)

\* The initial state, which a restart returns to, satisfies the invariant.
LEMMA InitIInv == Init => IInv
<1> SUFFICES ASSUME Init PROVE IInv
  OBVIOUS
<1> USE DEF Init, NewArbiter
<1>1. Idle \in Handler
  BY DEF Idle, Handler
<1>2. TypeOK
  BY <1>1 DEF TypeOK, ImageStatus
<1>3. HandlersOK
  BY DEF HandlersOK, LocalsAt, HoldsDaemon, Idle
<1>4. RegistryOK /\ RequestsOK
  BY DEF RegistryOK, RequestsOK, Ref
<1>5. WorkersConserved /\ AssignmentBacked
  BY DEF WorkersConserved, AssignmentBacked
<1>6. HubJobsBounded
  <2>1. assignedHashes = {} /\ pastThrottle = {}
    BY DEF assignedHashes, pastThrottle, Idle
  <2>2. Cardinality(Conn) \in Nat
    BY SetsAssumption, FS_CardinalityType
  <2> QED
    BY <2>1, <2>2, FS_EmptySet, CountAssumption DEF HubJobsBounded, assignedImageCount
<1> QED
  BY <1>2, <1>3, <1>4, <1>5, <1>6 DEF IInv

\* The two counts that HubJobsBounded adds up.
LEMMA HubCounts ==
    /\ IsFiniteSet(assignedHashes) /\ Cardinality(assignedHashes) \in Nat
    /\ IsFiniteSet(pastThrottle) /\ Cardinality(pastThrottle) \in Nat
    /\ Cardinality(pastThrottle) <= Cardinality(Conn)
    /\ Cardinality(Conn) \in Nat
<1>1. assignedHashes \subseteq Hash /\ pastThrottle \subseteq Conn
  BY DEF assignedHashes, pastThrottle
<1> QED
  BY <1>1, SetsAssumption, FS_Subset, FS_CardinalityType

\* The same after a step.
LEMMA HubCountsNext ==
    /\ IsFiniteSet(assignedHashes') /\ Cardinality(assignedHashes') \in Nat
    /\ IsFiniteSet(pastThrottle') /\ Cardinality(pastThrottle') \in Nat
    /\ Cardinality(pastThrottle') <= Cardinality(Conn)
    /\ Cardinality(Conn) \in Nat
<1>1. assignedHashes' \subseteq Hash /\ pastThrottle' \subseteq Conn
  BY DEF assignedHashes, pastThrottle
<1> QED
  BY <1>1, SetsAssumption, FS_Subset, FS_CardinalityType

\* A step that neither assigns an image nor lets a request pass the throttle
\* keeps the bound on Hub jobs.
LEMMA HubJobsKept ==
    ASSUME HubJobsBounded,
           assignedHashes' \subseteq assignedHashes,
           pastThrottle' \subseteq pastThrottle
    PROVE  HubJobsBounded'
<1>1. /\ Cardinality(assignedHashes') <= Cardinality(assignedHashes)
      /\ Cardinality(pastThrottle') <= Cardinality(pastThrottle)
  BY HubCounts, FS_Subset
<1> QED
  BY <1>1, HubCounts, HubCountsNext, CountAssumption
  DEF HubJobsBounded, assignedImageCount

\* A step of goroutine k that changes only its own locals, to q, keeps the
\* invariant if q is sound for its program point.
LEMMA ReadStep ==
    ASSUME IInv, UNCHANGED tables,
           NEW k \in Conn, NEW q \in Handler, handler' = [handler EXCEPT ![k] = q],
           LocalsAt(q), HoldsDaemon(q),
           q.pc = "register" => daemon[<<q.id, k>>] = None,
           q.op = "request" /\ q.pc \in {"lookup", "find"} =>
               k \in pastThrottle \/ CanSendHubJobs
    PROVE  IInv'
<1> USE DEF IInv, tables
<1>1. TypeOK'
  BY DEF TypeOK
<1>2. \A j \in Conn : handler'[j] = IF j = k THEN q ELSE handler[j]
  BY DEF TypeOK
<1>3. HandlersOK'
  <2> SUFFICES ASSUME NEW j \in Conn
               PROVE  /\ LocalsAt(handler'[j])
                      /\ HoldsDaemon(handler'[j])
                      /\ handler'[j].pc = "register" => daemon[<<handler'[j].id, j>>] = None
    BY DEF HandlersOK, LocalsAt, HoldsDaemon
  <2>1. CASE j = k
    BY <1>2, <2>1
  <2>2. CASE j # k
    BY <1>2, <2>2 DEF HandlersOK
  <2> QED
    BY <2>1, <2>2
<1>4. RegistryOK' /\ RequestsOK'
  BY DEF RegistryOK, RequestsOK
<1>5. WorkersConserved' /\ AssignmentBacked'
  BY DEF WorkersConserved, AssignmentBacked
<1>6. assignedHashes' = assignedHashes
  BY DEF assignedHashes
<1>7. HubJobsBounded'
  <2>1. CASE CanSendHubJobs
    BY <2>1, <1>6, HubCounts, HubCountsNext, CountAssumption
    DEF HubJobsBounded, assignedImageCount, CanSendHubJobs
  <2>2. CASE ~CanSendHubJobs
    <3>1. pastThrottle' \subseteq pastThrottle
      BY <1>2, <2>2 DEF pastThrottle
    <3> QED
      BY <1>6, <3>1, HubJobsKept
  <2> QED
    BY <2>1, <2>2
<1> QED
  BY <1>1, <1>3, <1>4, <1>5, <1>7

\* Writing the response ends a goroutine's interest in its locals.
LEMMA SendEffect ==
    ASSUME TypeOK, NEW k \in Conn, NEW reply \in Reply, NEW hash \in Hash \cup {None},
           Send(k, reply, hash)
    PROVE  /\ handler' \in [Conn -> Handler]
           /\ handler'[k].pc = "replied"
           /\ \A j \in Conn \ {k} : handler'[j] = handler[j]
           /\ pastThrottle' \subseteq pastThrottle \ {k}
<1>1. [Idle EXCEPT !.pc = "replied", !.reply = reply, !.hash = hash] \in Handler
  BY DEF Idle, Handler
<1>2. [Idle EXCEPT !.pc = "replied", !.reply = reply, !.hash = hash].pc = "replied"
  BY DEF Idle
<1>3. /\ handler' \in [Conn -> Handler]
      /\ handler'[k].pc = "replied"
      /\ \A j \in Conn \ {k} : handler'[j] = handler[j]
  BY <1>1, <1>2 DEF Send, TypeOK
<1>4. pastThrottle' \subseteq pastThrottle \ {k}
  BY <1>3 DEF pastThrottle
<1> QED
  BY <1>3, <1>4

\* A goroutine that updates ledgers, creating and dropping none, and answers
\* leaves the other goroutines' locals sound.
LEMMA WriteStep ==
    ASSUME IInv, NEW k \in Conn, NEW reply \in Reply, NEW hash \in Hash \cup {None},
           Send(k, reply, hash),
           \A r \in Ref : daemon'[r] = None <=> daemon[r] = None,
           UNCHANGED controllerDaemons
    PROVE  HandlersOK' /\ RegistryOK'
<1>1. /\ handler' \in [Conn -> Handler]
      /\ handler'[k].pc = "replied"
      /\ \A j \in Conn \ {k} : handler'[j] = handler[j]
  BY SendEffect DEF IInv
<1>2. \A c \in Controller, j \in Conn : daemon'[<<c, j>>] = None <=> daemon[<<c, j>>] = None
  BY DEF Ref
<1>3. HandlersOK'
  <2> SUFFICES ASSUME NEW j \in Conn
               PROVE  ( /\ LocalsAt(handler[j])
                        /\ HoldsDaemon(handler[j])
                        /\ handler[j].pc = "register" => daemon[<<handler[j].id, j>>] = None )'
    BY DEF HandlersOK
  <2>1. CASE j = k
    BY <1>1, <2>1 DEF LocalsAt, HoldsDaemon
  <2>2. CASE j # k
    <3>1. handler'[j] = handler[j]
      BY <1>1, <2>2
    <3>2. /\ LocalsAt(handler[j])
          /\ HoldsDaemon(handler[j])
          /\ handler[j].pc = "register" => daemon[<<handler[j].id, j>>] = None
      BY DEF IInv, HandlersOK
    <3> QED
      BY <1>2, <3>1, <3>2 DEF LocalsAt, HoldsDaemon
  <2> QED
    BY <2>1, <2>2
<1>4. RegistryOK'
  BY <1>2 DEF IInv, RegistryOK
<1> QED
  BY <1>3, <1>4

\* The ledger a goroutine holds.
LEMMA HeldDaemon ==
    ASSUME IInv, NEW k \in Conn,
           handler[k].pc \in {"check", "save", "find", "image", "commit"}
    PROVE  /\ handler[k].cd \in Ref
           /\ handler[k].cd[1] = handler[k].id
           /\ handler[k].id \in Controller
           /\ daemon[handler[k].cd] \in Daemon(ImageSpec)
<1>1. handler[k].id \in Controller
  BY DEF IInv, HandlersOK, LocalsAt
<1>2. PICK j \in Conn : /\ handler[k].cd = <<handler[k].id, j>>
                       /\ daemon[<<handler[k].id, j>>] # None
  BY DEF IInv, HandlersOK, HoldsDaemon
<1> QED
  BY <1>1, <1>2 DEF IInv, TypeOK, Ref

-----------------------------------------------------------------------------
(***************************************************************************)
(* Each action keeps the invariant.  First those that only read.           *)
(***************************************************************************)

\* Answering without having changed anything.
LEMMA SendOnly ==
    ASSUME IInv, UNCHANGED tables,
           NEW k \in Conn, NEW reply \in Reply, NEW hash \in Hash \cup {None},
           Send(k, reply, hash)
    PROVE  IInv'
<1> DEFINE q == [Idle EXCEPT !.pc = "replied", !.reply = reply, !.hash = hash]
<1>1. q \in Handler
  BY DEF Idle, Handler
<1>2. q.pc = "replied"
  BY DEF Idle
<1>3. handler' = [handler EXCEPT ![k] = q]
  BY DEF Send
<1>4. LocalsAt(q) /\ HoldsDaemon(q)
  BY <1>2 DEF LocalsAt, HoldsDaemon
<1> HIDE DEF q
<1> QED
  BY <1>1, <1>2, <1>3, <1>4, ReadStep

\* Moving on to another program point.
LEMMA GotoOnly ==
    ASSUME IInv, UNCHANGED tables,
           NEW k \in Conn, NEW pc \in {"lookup", "register", "save"}, Goto(k, pc),
           pc = "lookup" => handler[k].pc = "throttle" /\ CanSendHubJobs,
           pc = "register" => /\ handler[k].pc = "lookup"
                              /\ handler[k].op = "heartbeat"
                              /\ controllerDaemons[handler[k].id] = None,
           pc = "save" => handler[k].pc = "check"
    PROVE  IInv'
<1> DEFINE q == [handler[k] EXCEPT !.pc = pc]
<1>1. /\ handler[k] \in Handler
      /\ LocalsAt(handler[k])
      /\ HoldsDaemon(handler[k])
  BY DEF IInv, TypeOK, HandlersOK
<1>2. /\ q \in Handler
      /\ q.pc = pc
      /\ q.op = handler[k].op /\ q.id = handler[k].id /\ q.spec = handler[k].spec
      /\ q.hash = handler[k].hash /\ q.cd = handler[k].cd
  BY <1>1 DEF Handler
<1>3. handler' = [handler EXCEPT ![k] = q]
  BY DEF Goto, IInv, TypeOK
<1> HIDE DEF q
<1>4. LocalsAt(q)
  BY <1>1, <1>2 DEF LocalsAt
<1>5. HoldsDaemon(q)
  BY <1>1, <1>2 DEF HoldsDaemon
<1>6. q.pc = "register" => daemon[<<q.id, k>>] = None
  BY <1>1, <1>2 DEF IInv, RegistryOK, LocalsAt
<1>7. q.op = "request" /\ q.pc \in {"lookup", "find"} => CanSendHubJobs
  BY <1>2
<1> QED
  BY <1>2, <1>3, <1>4, <1>5, <1>6, <1>7, ReadStep

LEMMA ReceiveIInv ==
    ASSUME IInv, NEW k \in Conn, NEW r \in Request, Receive(k, r)
    PROVE  IInv'
<1> DEFINE q == [op |-> r.op, pc |-> IF r.op = "request" THEN "throttle" ELSE "lookup",
                 id |-> r.id, spec |-> r.spec, hash |-> r.hash,
                 cd |-> None, reply |-> None]
<1>1. /\ r.op \in {"heartbeat", "found", "request", "processing", "done", "abort"}
      /\ r.id \in Controller
      /\ r.spec \in ImageSpec \cup {None}
      /\ r.hash \in Hash \cup {None}
      /\ r.op \in {"found", "request"} => r.spec \in ImageSpec
      /\ r.op \in {"processing", "done", "abort"} => r.hash \in Hash
  BY DEF Request
<1>2. /\ q \in Handler
      /\ LocalsAt(q)
      /\ HoldsDaemon(q)
  BY <1>1 DEF Handler, LocalsAt, HoldsDaemon
<1>3. /\ q.pc # "register"
      /\ ~(q.op = "request" /\ q.pc \in {"lookup", "find"})
  OBVIOUS
<1>4. handler' = [handler EXCEPT ![k] = q] /\ UNCHANGED tables
  BY DEF Receive
<1> HIDE DEF q
<1> QED
  BY <1>2, <1>3, <1>4, ReadStep

LEMMA ThrottleIInv ==
    ASSUME IInv, NEW k \in Conn, Throttle(k)
    PROVE  IInv'
<1>1. CASE CanSendHubJobs
  BY <1>1, GotoOnly DEF Throttle, At
<1>2. CASE ~CanSendHubJobs
  BY <1>2, SendOnly DEF Throttle, Reply
<1> QED
  BY <1>1, <1>2

LEMMA LookupKnownIInv ==
    ASSUME IInv, NEW k \in Conn, LookupKnown(k)
    PROVE  IInv'
<1> DEFINE cd == controllerDaemons[handler[k].id]
           q  == [handler[k] EXCEPT !.cd = cd, !.pc = AfterLookup(handler[k].op)]
<1>1. /\ handler[k] \in Handler
      /\ handler[k].pc = "lookup"
      /\ LocalsAt(handler[k])
      /\ handler[k].id \in Controller
  BY DEF IInv, TypeOK, HandlersOK, LocalsAt, LookupKnown, At
<1>2. CASE handler[k].op = "heartbeat"
  BY <1>2, SendOnly DEF LookupKnown, Reply
<1>3. CASE handler[k].op # "heartbeat"
  <2>1. PICK j \in Conn : cd = <<handler[k].id, j>> /\ daemon[<<handler[k].id, j>>] # None
    BY <1>1 DEF IInv, RegistryOK, LookupKnown
  <2>2. /\ AfterLookup(handler[k].op) \in {"check", "find", "image"}
        /\ cd \in Ref
    BY <1>1, <2>1 DEF AfterLookup, Ref
  <2>3. /\ q \in Handler
        /\ q.pc = AfterLookup(handler[k].op) /\ q.cd = cd
        /\ q.op = handler[k].op /\ q.id = handler[k].id
        /\ q.spec = handler[k].spec /\ q.hash = handler[k].hash
    <3> HIDE DEF cd
    <3> QED
      BY <1>1, <2>2 DEF Handler
  <2>4. handler' = [handler EXCEPT ![k] = q] /\ UNCHANGED tables
    BY <1>3 DEF LookupKnown, IInv, TypeOK
  <2> HIDE DEF q
  <2>5. LocalsAt(q)
    BY <1>1, <1>3, <2>3 DEF LocalsAt, AfterLookup
  <2>6. HoldsDaemon(q)
    BY <2>1, <2>3 DEF HoldsDaemon
  <2>7. q.op = "request" => k \in pastThrottle
    BY <1>1, <2>3 DEF pastThrottle
  <2> QED
    BY <2>2, <2>3, <2>4, <2>5, <2>6, <2>7, ReadStep
<1> QED
  BY <1>2, <1>3

LEMMA LookupUnknownIInv ==
    ASSUME IInv, NEW k \in Conn, LookupUnknown(k)
    PROVE  IInv'
<1>1. CASE handler[k].op = "heartbeat"
  BY <1>1, GotoOnly DEF LookupUnknown, At
<1>2. CASE handler[k].op = "found"
  BY <1>2, SendOnly DEF LookupUnknown, Reply
<1>3. CASE handler[k].op \notin {"heartbeat", "found"}
  BY <1>3, SendOnly DEF LookupUnknown, Reply
<1> QED
  BY <1>1, <1>2, <1>3

LEMMA CheckIInv ==
    ASSUME IInv, NEW k \in Conn, Check(k)
    PROVE  IInv'
<1>1. CASE AssignedTo(handler[k].spec, handler[k].id)
  BY <1>1, SendOnly DEF Check, Reply
<1>2. CASE ~AssignedTo(handler[k].spec, handler[k].id)
  BY <1>2, GotoOnly DEF Check, At
<1> QED
  BY <1>1, <1>2

LEMMA LookupImageIInv ==
    ASSUME IInv, NEW k \in Conn, LookupImage(k)
    PROVE  IInv'
<1> DEFINE a == assignedImages[handler[k].hash]
           q == [handler[k] EXCEPT !.spec = a.ImageSpec, !.pc = "commit"]
<1>1. /\ handler[k] \in Handler
      /\ handler[k].pc = "image"
      /\ LocalsAt(handler[k]) /\ HoldsDaemon(handler[k])
      /\ handler[k].id \in Controller
      /\ handler[k].hash \in Hash
  BY DEF IInv, TypeOK, HandlersOK, LocalsAt, LookupImage, At
<1>2. CASE a = None
  BY <1>2, SendOnly DEF LookupImage, Reply
<1>3. CASE a # None /\ handler[k].op = "processing"
  BY <1>3, SendOnly DEF LookupImage, Reply
<1>4. CASE a # None /\ handler[k].op # "processing"
  <2>1. a.ImageSpec \in ImageSpec
    BY <1>1, <1>4 DEF IInv, TypeOK, Assignment
  <2>2. Md5[a.ImageSpec] = handler[k].hash
    BY <1>1, <1>4, <2>1, SetsAssumption DEF IInv, AssignmentBacked, RequestsOK
  <2>3. /\ q \in Handler
        /\ q.pc = "commit" /\ q.spec = a.ImageSpec
        /\ q.cd = handler[k].cd /\ q.id = handler[k].id /\ q.hash = handler[k].hash
        /\ q.op = handler[k].op
    BY <1>1, <2>1 DEF Handler
  <2>4. handler' = [handler EXCEPT ![k] = q] /\ UNCHANGED tables
    BY <1>4 DEF LookupImage, IInv, TypeOK
  <2> HIDE DEF q
  <2>5. LocalsAt(q)
    BY <1>1, <2>1, <2>2, <2>3 DEF LocalsAt
  <2>6. HoldsDaemon(q)
    BY <1>1, <2>3 DEF HoldsDaemon
  <2> QED
    BY <2>3, <2>4, <2>5, <2>6, ReadStep
<1> QED
  BY <1>2, <1>3, <1>4

LEMMA CloseIInv ==
    ASSUME IInv, NEW k \in Conn, Close(k)
    PROVE  IInv'
<1>1. /\ Idle \in Handler /\ Idle.pc = "idle"
      /\ LocalsAt(Idle) /\ HoldsDaemon(Idle)
  BY DEF Idle, Handler, LocalsAt, HoldsDaemon
<1>2. handler' = [handler EXCEPT ![k] = Idle] /\ UNCHANGED tables
  BY DEF Close
<1> QED
  BY <1>1, <1>2, ReadStep

-----------------------------------------------------------------------------
(***************************************************************************)
(* Then those that change the arbiter's maps.                              *)
(***************************************************************************)

\* Two first heartbeats may both register: the object that loses its place in
\* the map lives on in the goroutines that hold it.
LEMMA RegisterIInv ==
    ASSUME IInv, NEW k \in Conn, Register(k)
    PROVE  IInv'
<1> DEFINE c == handler[k].id
           new == newControllerDaemon(WorkerCount[c])
<1>1. /\ handler[k].pc = "register"
      /\ c \in Controller
      /\ daemon[<<c, k>>] = None
      /\ <<c, k>> \in Ref
  BY DEF IInv, HandlersOK, LocalsAt, Register, At, Ref
<1>2. new \in Daemon(ImageSpec) /\ Balanced(new, WorkerCount[c]) /\ new # None
  BY <1>1, NewDaemon, CountAssumption, SetsAssumption
<1> HIDE DEF new
<1>3. /\ daemon' = [daemon EXCEPT ![<<c, k>>] = new]
      /\ controllerDaemons' = [controllerDaemons EXCEPT ![c] = <<c, k>>]
      /\ UNCHANGED <<images, requestedImages, assignedImages>>
      /\ Send(k, "Created", None)
  BY DEF Register, new
<1>4. /\ handler' \in [Conn -> Handler]
      /\ handler'[k].pc = "replied"
      /\ \A j \in Conn \ {k} : handler'[j] = handler[j]
      /\ pastThrottle' \subseteq pastThrottle \ {k}
  BY <1>3, SendEffect DEF IInv, Reply
<1>5. TypeOK'
  BY <1>1, <1>2, <1>3, <1>4 DEF IInv, TypeOK
<1>6. \A d \in Controller, j \in Conn :
          daemon'[<<d, j>>] = IF d = c /\ j = k THEN new ELSE daemon[<<d, j>>]
  BY <1>1, <1>3 DEF IInv, TypeOK, Ref
<1>7. HandlersOK'
  <2> SUFFICES ASSUME NEW j \in Conn
               PROVE  ( /\ LocalsAt(handler[j])
                        /\ HoldsDaemon(handler[j])
                        /\ handler[j].pc = "register" => daemon[<<handler[j].id, j>>] = None )'
    BY DEF HandlersOK
  <2>1. CASE j = k
    BY <1>4, <2>1 DEF LocalsAt, HoldsDaemon
  <2>2. CASE j # k
    <3>1. handler'[j] = handler[j]
      BY <1>4, <2>2
    <3>2. /\ LocalsAt(handler[j])
          /\ HoldsDaemon(handler[j])
          /\ handler[j].pc = "register" => daemon[<<handler[j].id, j>>] = None
      BY DEF IInv, HandlersOK
    <3>3. handler[j].pc \notin {"idle", "replied"} => handler[j].id \in Controller
      BY <3>2 DEF LocalsAt
    <3>4. LocalsAt(handler[j])'
      BY <3>1, <3>2 DEF LocalsAt
    <3>5. HoldsDaemon(handler[j])'
      BY <1>2, <1>6, <3>1, <3>2, <3>3 DEF HoldsDaemon
    <3>6. (handler[j].pc = "register" => daemon[<<handler[j].id, j>>] = None)'
      BY <1>6, <2>2, <3>1, <3>2, <3>3
    <3> QED
      BY <3>4, <3>5, <3>6
  <2> QED
    BY <2>1, <2>2
<1>8. RegistryOK'
  <2> SUFFICES ASSUME NEW d \in Controller
               PROVE  ( IF controllerDaemons[d] = None
                        THEN \A j \in Conn : daemon[<<d, j>>] = None
                        ELSE \E j \in Conn : /\ controllerDaemons[d] = <<d, j>>
                                             /\ daemon[<<d, j>>] # None )'
    BY DEF RegistryOK
  <2>1. CASE d = c
    <3>1. controllerDaemons'[d] = <<d, k>> /\ daemon'[<<d, k>>] # None
      BY <1>1, <1>2, <1>3, <1>6, <2>1 DEF IInv, TypeOK
    <3> QED
      BY <1>1, <3>1, SetsAssumption DEF Ref
  <2>2. CASE d # c
    <3>1. controllerDaemons'[d] = controllerDaemons[d]
      BY <1>3, <2>2 DEF IInv, TypeOK
    <3>2. \A j \in Conn : daemon'[<<d, j>>] = daemon[<<d, j>>]
      BY <1>6, <2>2
    <3> QED
      BY <3>1, <3>2 DEF IInv, RegistryOK
  <2> QED
    BY <2>1, <2>2
<1>9. RequestsOK'
  BY <1>3 DEF IInv, RequestsOK
<1>10. WorkersConserved'
  <2> SUFFICES ASSUME NEW d \in Controller, NEW j \in Conn, daemon'[<<d, j>>] # None
               PROVE  Balanced(daemon'[<<d, j>>], WorkerCount[d])
    BY DEF WorkersConserved, Ref
  <2> QED
    BY <1>2, <1>6 DEF IInv, WorkersConserved, Ref
<1>11. AssignmentBacked'
  <2> SUFFICES ASSUME NEW h \in Hash, assignedImages[h] # None
               PROVE  LET a == assignedImages[h]
                      IN  /\ requestedImages[a.ImageSpec] = h
                          /\ \E j \in Conn :
                                /\ daemon'[<<a.ControllerID, j>>] # None
                                /\ a.ImageSpec \in daemon'[<<a.ControllerID, j>>].assignedScans
    BY <1>3 DEF AssignmentBacked
  <2>1. assignedImages[h].ControllerID \in Controller
    BY DEF IInv, TypeOK, Assignment
  <2> QED
    BY <1>1, <1>6, <2>1 DEF IInv, AssignmentBacked
<1>12. HubJobsBounded'
  <2>1. assignedHashes' = assignedHashes
    BY <1>3 DEF assignedHashes
  <2> QED
    BY <1>4, <2>1, HubJobsKept DEF IInv
<1> QED
  BY <1>5, <1>7, <1>8, <1>9, <1>10, <1>11, <1>12 DEF IInv

\* What the invariant says of an assignment.
LEMMA AssignmentFacts ==
    ASSUME IInv, NEW g \in Hash, assignedImages[g] # None
    PROVE  LET a == assignedImages[g]
           IN  /\ a \in Assignment
               /\ a.ControllerID \in Controller /\ a.ImageSpec \in ImageSpec
               /\ requestedImages[a.ImageSpec] = g /\ g = Md5[a.ImageSpec]
               /\ \E j \in Conn :
                     /\ daemon[<<a.ControllerID, j>>] # None
                     /\ a.ImageSpec \in daemon[<<a.ControllerID, j>>].assignedScans
<1> DEFINE a == assignedImages[g]
<1>1. a \in Assignment /\ a.ControllerID \in Controller /\ a.ImageSpec \in ImageSpec
  BY DEF IInv, TypeOK, Assignment
<1>2. requestedImages[a.ImageSpec] = g /\ g = Md5[a.ImageSpec]
  BY <1>1, SetsAssumption DEF IInv, AssignmentBacked, RequestsOK
<1> QED
  BY <1>1, <1>2 DEF IInv, AssignmentBacked

LEMMA saveFoundImageIInv ==
    ASSUME IInv, NEW k \in Conn, saveFoundImage(k)
    PROVE  IInv'
<1> DEFINE s == handler[k].spec
           r == handler[k].cd
           h == IF requestedImages[s] = None THEN Md5[s] ELSE requestedImages[s]
           new == AddScanRequest(daemon[r], s)
<1>1. /\ s \in ImageSpec /\ r \in Ref
      /\ daemon[r] \in Daemon(ImageSpec) /\ daemon[r] # None
  BY HeldDaemon, SetsAssumption DEF IInv, HandlersOK, LocalsAt, saveFoundImage, At
<1>2. h = Md5[s] /\ h \in Hash /\ h # None
  BY <1>1, Md5Assumption, SetsAssumption DEF IInv, RequestsOK
<1>3. /\ new \in Daemon(ImageSpec) /\ new # None
      /\ new.assignedScans = daemon[r].assignedScans
      /\ Balanced(new, WorkerCount[r[1]])
  BY <1>1, DaemonType, DaemonBalanced, SetsAssumption
  DEF AddScanRequest, Daemon, IInv, WorkersConserved
<1>4. /\ requestedImages' = [requestedImages EXCEPT ![s] = h]
      /\ daemon' = [daemon EXCEPT ![r] = new]
      /\ images' \in [ImageSpec -> ImageStatus]
      /\ Send(k, "Created", h)
      /\ UNCHANGED <<assignedImages, controllerDaemons>>
  BY <1>1 DEF saveFoundImage, IInv, TypeOK, ImageStatus
<1> HIDE DEF h, new
<1>5. handler' \in [Conn -> Handler] /\ pastThrottle' \subseteq pastThrottle
  BY <1>2, <1>4, SendEffect DEF IInv, Reply
<1>6. TypeOK'
  BY <1>1, <1>2, <1>3, <1>4, <1>5 DEF IInv, TypeOK
<1>7. \A x \in Ref : daemon'[x] = IF x = r THEN new ELSE daemon[x]
  BY <1>1, <1>4 DEF IInv, TypeOK
<1>8. HandlersOK' /\ RegistryOK'
  BY <1>1, <1>2, <1>3, <1>4, <1>7, WriteStep DEF Reply
<1>9. RequestsOK'
  BY <1>1, <1>2, <1>4 DEF IInv, RequestsOK, TypeOK
<1>10. WorkersConserved'
  BY <1>3, <1>7 DEF IInv, WorkersConserved
<1>11. AssignmentBacked'
  <2> SUFFICES ASSUME NEW g \in Hash, assignedImages[g] # None
               PROVE  LET a == assignedImages[g]
                      IN  /\ requestedImages'[a.ImageSpec] = g
                          /\ \E j \in Conn :
                                /\ daemon'[<<a.ControllerID, j>>] # None
                                /\ a.ImageSpec \in daemon'[<<a.ControllerID, j>>].assignedScans
    BY <1>4 DEF AssignmentBacked
  <2> DEFINE a == assignedImages[g]
  <2>1. a.ControllerID \in Controller /\ a.ImageSpec \in ImageSpec
    BY AssignmentFacts
  <2>2. requestedImages[a.ImageSpec] = g /\ g = Md5[a.ImageSpec]
    BY AssignmentFacts
  <2>3. requestedImages'[a.ImageSpec] = g
    BY <1>1, <1>2, <1>4, <2>1, <2>2 DEF IInv, TypeOK
  <2>4. PICK j \in Conn : /\ daemon[<<a.ControllerID, j>>] # None
                         /\ a.ImageSpec \in daemon[<<a.ControllerID, j>>].assignedScans
    BY AssignmentFacts
  <2>5. <<a.ControllerID, j>> \in Ref
    BY <2>1 DEF Ref
  <2> QED
    BY <1>3, <1>7, <2>3, <2>4, <2>5
<1>12. HubJobsBounded'
  <2>1. assignedHashes' = assignedHashes
    BY <1>4 DEF assignedHashes
  <2> QED
    BY <1>5, <2>1, HubJobsKept DEF IInv
<1> QED
  BY <1>6, <1>8, <1>9, <1>10, <1>11, <1>12 DEF IInv

\* What findWorker assigns: the image is requested under its hash, is not
\* assigned to anyone else, and the ledger it is entered in balances.
LEMMA AssignFacts ==
    ASSUME IInv, NEW k \in Conn, findWorker(k),
           MayAssign(handler[k].spec, handler[k].id, handler[k].cd)
    PROVE  LET q == handler[k]
               h == requestedImages[q.spec]
               new == AssignScan(daemon[q.cd], q.spec)
           IN  /\ q.spec \in ImageSpec /\ q.id \in Controller
               /\ q.cd \in Ref /\ q.cd[1] = q.id
               /\ q.op = "request" /\ q.pc = "find"
               /\ h = Md5[q.spec] /\ h \in Hash /\ h # None
               /\ daemon[q.cd] \in Daemon(ImageSpec) /\ daemon[q.cd] # None
               /\ new \in Daemon(ImageSpec) /\ new # None
               /\ new.assignedScans = daemon[q.cd].assignedScans \cup {q.spec}
               /\ Balanced(new, WorkerCount[q.cd[1]])
<1> DEFINE q == handler[k]
           new == AssignScan(daemon[q.cd], q.spec)
<1>1. /\ q.spec \in ImageSpec /\ q.op = "request" /\ q.pc = "find"
      /\ q.cd \in Ref /\ q.cd[1] = q.id /\ q.id \in Controller
      /\ daemon[q.cd] \in Daemon(ImageSpec) /\ daemon[q.cd] # None
  BY HeldDaemon, SetsAssumption DEF IInv, HandlersOK, LocalsAt, findWorker, At
<1>2. /\ requestedImages[q.spec] = Md5[q.spec]
      /\ requestedImages[q.spec] \in Hash /\ requestedImages[q.spec] # None
  BY <1>1, Md5Assumption, SetsAssumption DEF IInv, RequestsOK, MayAssign
<1>3. AssignScanOk(daemon[q.cd], q.spec)
  BY DEF MayAssign
<1>4. new \in Daemon(ImageSpec) /\ new # None
  BY <1>1, DaemonType, SetsAssumption
<1>5. new.assignedScans = daemon[q.cd].assignedScans \cup {q.spec}
  BY <1>1 DEF AssignScan, Daemon
<1>6. Balanced(new, WorkerCount[q.cd[1]])
  BY <1>1, <1>3, DaemonBalanced DEF IInv, WorkersConserved
<1> QED
  BY <1>1, <1>2, <1>4, <1>5, <1>6

LEMMA findWorkerIInv ==
    ASSUME IInv, NEW k \in Conn, findWorker(k)
    PROVE  IInv'
<1> DEFINE q == handler[k]
<1>1. CASE ~MayAssign(q.spec, q.id, q.cd)
  BY <1>1, SendOnly DEF findWorker, Reply, tables
<1>2. CASE MayAssign(q.spec, q.id, q.cd)
  <2> DEFINE s == q.spec
             r == q.cd
             h == requestedImages[s]
             new == AssignScan(daemon[r], s)
             a0 == [ControllerID |-> q.id, ImageSpec |-> s]
  <2>1. /\ s \in ImageSpec /\ q.id \in Controller
        /\ r \in Ref /\ r[1] = q.id
        /\ q.op = "request" /\ q.pc = "find"
        /\ h = Md5[s] /\ h \in Hash /\ h # None
        /\ daemon[r] # None
        /\ new \in Daemon(ImageSpec) /\ new # None
        /\ new.assignedScans = daemon[r].assignedScans \cup {s}
        /\ Balanced(new, WorkerCount[r[1]])
    BY <1>2, AssignFacts
  <2>2. /\ daemon' = [daemon EXCEPT ![r] = new]
        /\ assignedImages' = [assignedImages EXCEPT ![h] = a0]
        /\ Send(k, "Start", h)
        /\ UNCHANGED <<images, requestedImages, controllerDaemons>>
    BY <1>2 DEF findWorker
  <2>3. a0 \in Assignment /\ a0 # None /\ a0.ControllerID = q.id /\ a0.ImageSpec = s
    BY <2>1, SetsAssumption DEF Assignment
  <2> HIDE DEF new, h, a0
  <2>4. handler' \in [Conn -> Handler] /\ pastThrottle' \subseteq pastThrottle \ {k}
    BY <2>1, <2>2, SendEffect DEF IInv, Reply
  <2>5. TypeOK'
    BY <2>1, <2>2, <2>3, <2>4 DEF IInv, TypeOK
  <2>6. \A x \in Ref : daemon'[x] = IF x = r THEN new ELSE daemon[x]
    BY <2>1, <2>2 DEF IInv, TypeOK
  <2>7. HandlersOK' /\ RegistryOK'
    BY <2>1, <2>2, <2>6, WriteStep DEF Reply
  <2>8. RequestsOK'
    BY <2>2 DEF IInv, RequestsOK
  <2>9. WorkersConserved'
    BY <2>1, <2>6 DEF IInv, WorkersConserved
  <2>10. AssignmentBacked'
    <3> SUFFICES ASSUME NEW g \in Hash, assignedImages'[g] # None
                 PROVE  LET a == assignedImages'[g]
                        IN  /\ requestedImages[a.ImageSpec] = g
                            /\ \E j \in Conn :
                                  /\ daemon'[<<a.ControllerID, j>>] # None
                                  /\ a.ImageSpec \in daemon'[<<a.ControllerID, j>>].assignedScans
      BY <2>2 DEF AssignmentBacked
    <3>1. CASE g = h
      <4>1. assignedImages'[g] = a0
        BY <2>1, <2>2, <3>1 DEF IInv, TypeOK
      <4>2. PICK j \in Conn : r = <<q.id, j>>
        BY <2>1 DEF Ref
      <4>3. daemon'[<<q.id, j>>] = new
        BY <2>1, <2>6, <4>2
      <4> QED
        BY <2>1, <2>3, <3>1, <4>1, <4>3 DEF h
    <3>2. CASE g # h
      <4> DEFINE a == assignedImages[g]
      <4>1. assignedImages'[g] = a
        BY <2>1, <2>2, <3>2 DEF IInv, TypeOK
      <4>2. a.ControllerID \in Controller /\ requestedImages[a.ImageSpec] = g
        BY <4>1, AssignmentFacts
      <4>3. PICK j \in Conn : /\ daemon[<<a.ControllerID, j>>] # None
                             /\ a.ImageSpec \in daemon[<<a.ControllerID, j>>].assignedScans
        BY <4>1, AssignmentFacts
      <4>4. <<a.ControllerID, j>> \in Ref
        BY <4>2 DEF Ref
      <4> QED
        BY <2>1, <2>6, <4>1, <4>2, <4>3, <4>4
    <3> QED
      BY <3>1, <3>2
  <2>11. HubJobsBounded'
    <3>1. assignedHashes' \subseteq assignedHashes \cup {h}
      BY <2>2 DEF assignedHashes, IInv, TypeOK
    <3>2. Cardinality(assignedHashes') <= Cardinality(assignedHashes) + 1
      <4>1. IsFiniteSet(assignedHashes \cup {h})
        BY HubCounts, FS_AddElement
      <4>2. Cardinality(assignedHashes \cup {h}) <= Cardinality(assignedHashes) + 1
        <5>1. CASE h \in assignedHashes
          <6>1. assignedHashes \cup {h} = assignedHashes
            BY <5>1
          <6> QED
            BY <6>1, HubCounts
        <5>2. CASE h \notin assignedHashes
          <6>1. Cardinality(assignedHashes \cup {h}) = Cardinality(assignedHashes) + 1
            BY <5>2, HubCounts, FS_AddElement
          <6> QED
            BY <6>1, HubCounts
        <5> QED
          BY <5>1, <5>2
      <4>3. /\ Cardinality(assignedHashes \cup {h}) \in Nat
            /\ Cardinality(assignedHashes') <= Cardinality(assignedHashes \cup {h})
        BY <3>1, <4>1, FS_Subset, FS_CardinalityType
      <4> QED
        BY <4>2, <4>3, HubCounts, HubCountsNext
    <3>3. k \in pastThrottle
      BY <2>1 DEF pastThrottle
    <3>4. Cardinality(pastThrottle \ {k}) = Cardinality(pastThrottle) - 1
      BY <3>3, HubCounts, FS_RemoveElement
    <3>5. Cardinality(pastThrottle') <= Cardinality(pastThrottle) - 1
      <4>1. IsFiniteSet(pastThrottle \ {k})
        BY HubCounts, FS_RemoveElement
      <4> QED
        BY <2>4, <3>4, <4>1, FS_Subset
    <3> QED
      BY <3>2, <3>5, HubCounts, HubCountsNext, CountAssumption
      DEF IInv, HubJobsBounded, assignedImageCount
  <2> QED
    BY <2>5, <2>7, <2>8, <2>9, <2>10, <2>11 DEF IInv
<1> QED
  BY <1>1, <1>2

\* A report or an abort drops the assignment of one hash, and with it at most
\* the one ledger entry that backs it: every other assignment stays backed.
LEMMA OthersBacked ==
    ASSUME IInv, NEW s \in ImageSpec, NEW h \in Hash, h = Md5[s],
           assignedImages' = [assignedImages EXCEPT ![h] = None],
           \A t \in ImageSpec \ {s} : requestedImages'[t] = requestedImages[t],
           \A r \in Ref : daemon[r] # None =>
               /\ daemon'[r] # None
               /\ daemon[r].assignedScans \ {s} \subseteq daemon'[r].assignedScans
    PROVE  AssignmentBacked'
<1> SUFFICES ASSUME NEW g \in Hash, assignedImages'[g] # None
             PROVE  LET a == assignedImages'[g]
                    IN  /\ requestedImages'[a.ImageSpec] = g
                        /\ \E j \in Conn :
                              /\ daemon'[<<a.ControllerID, j>>] # None
                              /\ a.ImageSpec \in daemon'[<<a.ControllerID, j>>].assignedScans
  BY DEF AssignmentBacked
<1> DEFINE a == assignedImages[g]
<1>1. g # h /\ assignedImages'[g] = a
  BY DEF IInv, TypeOK
<1>2. /\ a.ControllerID \in Controller /\ a.ImageSpec \in ImageSpec
      /\ requestedImages[a.ImageSpec] = g /\ g = Md5[a.ImageSpec]
  BY <1>1, AssignmentFacts
<1>3. a.ImageSpec # s
  BY <1>1, <1>2
<1>4. PICK j \in Conn : /\ daemon[<<a.ControllerID, j>>] # None
                       /\ a.ImageSpec \in daemon[<<a.ControllerID, j>>].assignedScans
  BY <1>1, AssignmentFacts
<1>5. <<a.ControllerID, j>> \in Ref
  BY <1>2 DEF Ref
<1> HIDE DEF a
<1>6. requestedImages'[a.ImageSpec] = g
  BY <1>2, <1>3
<1>7. /\ daemon'[<<a.ControllerID, j>>] # None
      /\ a.ImageSpec \in daemon'[<<a.ControllerID, j>>].assignedScans
  BY <1>2, <1>3, <1>4, <1>5
<1> QED
  BY <1>1, <1>6, <1>7

\* Ledgers are updated in place, by their methods.
LEMMA LedgersKept ==
    ASSUME IInv, NEW s \in ImageSpec,
           daemon' \in [Ref -> Daemon(ImageSpec) \cup {None}],
           \A r \in Ref : daemon[r] = None => daemon'[r] = None,
           \A r \in Ref : daemon[r] # None =>
               daemon'[r] \in {daemon[r], SkipScan(daemon[r], s),
                              CompleteScan(daemon[r], s), AbortScan(daemon[r], s)}
    PROVE  /\ \A r \in Ref : daemon'[r] = None <=> daemon[r] = None
           /\ WorkersConserved'
           /\ \A r \in Ref : daemon[r] # None =>
                  daemon[r].assignedScans \ {s} \subseteq daemon'[r].assignedScans
<1> SUFFICES ASSUME NEW r \in Ref, daemon[r] # None
             PROVE  /\ daemon'[r] # None
                    /\ Balanced(daemon'[r], WorkerCount[r[1]])
                    /\ daemon[r].assignedScans \ {s} \subseteq daemon'[r].assignedScans
  BY DEF WorkersConserved
<1>1. daemon[r] \in Daemon(ImageSpec) /\ Balanced(daemon[r], WorkerCount[r[1]])
  BY DEF IInv, TypeOK, WorkersConserved
<1>2. /\ SkipScan(daemon[r], s).assignedScans = daemon[r].assignedScans
      /\ CompleteScan(daemon[r], s).assignedScans = daemon[r].assignedScans \ {s}
      /\ AbortScan(daemon[r], s).assignedScans = daemon[r].assignedScans \ {s}
  BY <1>1 DEF SkipScan, CompleteScan, AbortScan, Daemon
<1>3. daemon[r].assignedScans \ {s} \subseteq daemon'[r].assignedScans
  BY <1>2
<1>4. Balanced(daemon'[r], WorkerCount[r[1]])
  BY <1>1, DaemonBalanced
<1>5. daemon'[r] # None
  BY <1>1, DaemonType, SetsAssumption
<1> QED
  BY <1>3, <1>4, <1>5

LEMMA finalizeScanIInv ==
    ASSUME IInv, NEW k \in Conn, finalizeScan(k)
    PROVE  IInv'
<1> DEFINE q == handler[k]
           s == q.spec
           h == q.hash
<1>1. /\ s \in ImageSpec /\ h = Md5[s] /\ h \in Hash
      /\ q.cd \in Ref /\ daemon[q.cd] \in Daemon(ImageSpec) /\ daemon[q.cd] # None
      /\ q.id \in Controller
  BY HeldDaemon, SetsAssumption, Md5Assumption
  DEF IInv, HandlersOK, LocalsAt, finalizeScan, At
<1>2. /\ daemon' = [r \in Ref |->
              IF r = q.cd THEN CompleteScan(daemon[r], s)
              ELSE IF r \in Peers(q.id) THEN SkipScan(daemon[r], s)
              ELSE daemon[r]]
      /\ requestedImages' = [requestedImages EXCEPT ![s] = None]
      /\ assignedImages' = [assignedImages EXCEPT ![h] = None]
      /\ setImageStatus(s, TRUE)
      /\ Send(k, "OK", None)
      /\ UNCHANGED controllerDaemons
  BY DEF finalizeScan
<1>3. \A r \in Peers(q.id) : r \in Ref /\ daemon[r] # None
  <2> SUFFICES ASSUME NEW p \in Controller \ {q.id}, controllerDaemons[p] # None
               PROVE  controllerDaemons[p] \in Ref /\ daemon[controllerDaemons[p]] # None
    BY DEF Peers
  <2>1. PICK j \in Conn : controllerDaemons[p] = <<p, j>> /\ daemon[<<p, j>>] # None
    BY DEF IInv, RegistryOK
  <2> QED
    BY <2>1 DEF Ref
<1>4. /\ \A r \in Ref : daemon[r] = None => daemon'[r] = None
      /\ \A r \in Ref : daemon[r] # None =>
             daemon'[r] \in {daemon[r], SkipScan(daemon[r], s),
                            CompleteScan(daemon[r], s), AbortScan(daemon[r], s)}
  BY <1>1, <1>2, <1>3
<1>5. daemon' \in [Ref -> Daemon(ImageSpec) \cup {None}]
  <2> SUFFICES ASSUME NEW r \in Ref
               PROVE  daemon'[r] \in Daemon(ImageSpec) \cup {None}
    BY <1>2
  <2>1. CASE daemon[r] = None
    BY <1>4, <2>1
  <2>2. CASE daemon[r] # None
    <3>1. daemon[r] \in Daemon(ImageSpec)
      BY <2>2 DEF IInv, TypeOK
    <3> QED
      BY <1>1, <1>4, <2>2, <3>1, DaemonType
  <2> QED
    BY <2>1, <2>2
<1>6. /\ \A r \in Ref : daemon'[r] = None <=> daemon[r] = None
      /\ WorkersConserved'
      /\ \A r \in Ref : daemon[r] # None =>
             daemon[r].assignedScans \ {s} \subseteq daemon'[r].assignedScans
  BY <1>1, <1>4, <1>5, LedgersKept
<1>7. handler' \in [Conn -> Handler] /\ pastThrottle' \subseteq pastThrottle
  BY <1>2, SendEffect DEF IInv, Reply
<1>8. TypeOK'
  <2>1. images' \in [ImageSpec -> ImageStatus]
    BY <1>2 DEF setImageStatus, IInv, TypeOK, ImageStatus
  <2>2. /\ requestedImages' \in [ImageSpec -> Hash \cup {None}]
        /\ assignedImages' \in [Hash -> Assignment \cup {None}]
        /\ controllerDaemons' \in [Controller -> Ref \cup {None}]
    BY <1>2 DEF IInv, TypeOK
  <2> QED
    BY <1>5, <1>7, <2>1, <2>2 DEF TypeOK
<1>9. HandlersOK' /\ RegistryOK'
  BY <1>2, <1>6, WriteStep DEF Reply
<1>10. RequestsOK'
  BY <1>2 DEF IInv, RequestsOK, TypeOK
<1>11. AssignmentBacked'
  <2>1. \A t \in ImageSpec \ {s} : requestedImages'[t] = requestedImages[t]
    BY <1>2 DEF IInv, TypeOK
  <2> QED
    BY <1>1, <1>2, <1>6, <2>1, OthersBacked
<1>12. HubJobsBounded'
  <2>1. assignedHashes' \subseteq assignedHashes
    BY <1>2 DEF assignedHashes, IInv, TypeOK
  <2> QED
    BY <1>7, <2>1, HubJobsKept DEF IInv
<1> QED
  BY <1>6, <1>8, <1>9, <1>10, <1>11, <1>12 DEF IInv

LEMMA releaseScanForPeerIInv ==
    ASSUME IInv, NEW k \in Conn, releaseScanForPeer(k)
    PROVE  IInv'
<1> DEFINE q == handler[k]
           s == q.spec
           h == q.hash
<1>1. /\ s \in ImageSpec /\ h = Md5[s] /\ h \in Hash
      /\ q.cd \in Ref /\ daemon[q.cd] \in Daemon(ImageSpec) /\ daemon[q.cd] # None
  BY HeldDaemon, SetsAssumption, Md5Assumption
  DEF IInv, HandlersOK, LocalsAt, releaseScanForPeer, At
<1>2. /\ daemon' = [daemon EXCEPT ![q.cd] = AbortScan(daemon[q.cd], s)]
      /\ assignedImages' = [assignedImages EXCEPT ![h] = None]
      /\ Send(k, "OK", None)
      /\ UNCHANGED <<images, requestedImages, controllerDaemons>>
  BY DEF releaseScanForPeer
<1>3. \A r \in Ref : daemon'[r] = IF r = q.cd THEN AbortScan(daemon[r], s) ELSE daemon[r]
  BY <1>1, <1>2 DEF IInv, TypeOK
<1>4. /\ \A r \in Ref : daemon[r] = None => daemon'[r] = None
      /\ \A r \in Ref : daemon[r] # None =>
             daemon'[r] \in {daemon[r], SkipScan(daemon[r], s),
                            CompleteScan(daemon[r], s), AbortScan(daemon[r], s)}
  BY <1>1, <1>3
<1>5. daemon' \in [Ref -> Daemon(ImageSpec) \cup {None}]
  BY <1>1, <1>2, DaemonType DEF IInv, TypeOK
<1>6. /\ \A r \in Ref : daemon'[r] = None <=> daemon[r] = None
      /\ WorkersConserved'
      /\ \A r \in Ref : daemon[r] # None =>
             daemon[r].assignedScans \ {s} \subseteq daemon'[r].assignedScans
  BY <1>1, <1>4, <1>5, LedgersKept
<1>7. handler' \in [Conn -> Handler] /\ pastThrottle' \subseteq pastThrottle
  BY <1>2, SendEffect DEF IInv, Reply
<1>8. TypeOK'
  BY <1>2, <1>5, <1>7 DEF IInv, TypeOK
<1>9. HandlersOK' /\ RegistryOK'
  BY <1>2, <1>6, WriteStep DEF Reply
<1>10. RequestsOK'
  BY <1>2 DEF IInv, RequestsOK
<1>11. AssignmentBacked'
  BY <1>1, <1>2, <1>6, OthersBacked
<1>12. HubJobsBounded'
  <2>1. assignedHashes' \subseteq assignedHashes
    BY <1>2 DEF assignedHashes, IInv, TypeOK
  <2> QED
    BY <1>7, <2>1, HubJobsKept DEF IInv
<1> QED
  BY <1>6, <1>8, <1>9, <1>10, <1>11, <1>12 DEF IInv

\* The watcher, the load and the notification workers touch images only.
LEMMA ImagesIInv ==
    ASSUME IInv, images' \in [ImageSpec -> ImageStatus],
           UNCHANGED <<requestedImages, assignedImages, controllerDaemons, daemon, handler>>
    PROVE  IInv'
<1>1. TypeOK'
  BY DEF IInv, TypeOK
<1>2. HandlersOK' /\ RegistryOK' /\ RequestsOK'
  BY DEF IInv, HandlersOK, LocalsAt, HoldsDaemon, RegistryOK, RequestsOK
<1>3. WorkersConserved' /\ AssignmentBacked'
  BY DEF IInv, WorkersConserved, AssignmentBacked
<1>4. HubJobsBounded'
  BY DEF IInv, HubJobsBounded, assignedImageCount, assignedHashes, pastThrottle
<1> QED
  BY <1>1, <1>2, <1>3, <1>4 DEF IInv

\* A restart is a new initial state.
LEMMA RestartIInv ==
    ASSUME Restart
    PROVE  IInv'
<1>1. Init'
  BY DEF Restart, Init, NewArbiter
<1>2. Init' => IInv'
  BY InitIInv, PTL
<1> QED
  BY <1>1, <1>2

-----------------------------------------------------------------------------
(***************************************************************************)
(* The theorems.                                                           *)
(***************************************************************************)

\* IInv is inductive: no step of any handler, of the watcher, of a
\* notification job or of a restart leaves it.
LEMMA NextIInv == IInv /\ [Next]_vars => IInv'
<1> SUFFICES ASSUME IInv, [Next]_vars PROVE IInv'
  OBVIOUS
<1>1. ASSUME NEW k \in Conn, NEW r \in Request, Receive(k, r) PROVE IInv'
  BY <1>1, ReceiveIInv
<1>2. ASSUME NEW k \in Conn, ReceiveJunk(k) PROVE IInv'
  BY <1>2, SendOnly DEF ReceiveJunk, Reply
<1>3. ASSUME NEW k \in Conn, Serve(k) PROVE IInv'
  BY <1>3, ThrottleIInv, LookupKnownIInv, LookupUnknownIInv, RegisterIInv, CheckIInv,
     saveFoundImageIInv, findWorkerIInv, LookupImageIInv, finalizeScanIInv,
     releaseScanForPeerIInv
  DEF Serve
<1>4. ASSUME NEW k \in Conn, Close(k) PROVE IInv'
  BY <1>4, CloseIInv
<1>5. ASSUME NEW s \in ImageSpec, addImage(s) \/ RemoveImage(s) PROVE IInv'
  <2>1. images' \in [ImageSpec -> ImageStatus]
    BY <1>5 DEF addImage, RemoveImage, IInv, TypeOK, ImageStatus
  <2> QED
    BY <1>5, <2>1, ImagesIInv DEF addImage, RemoveImage
<1>6. ASSUME NEW s \in ImageSpec, NEW result \in BOOLEAN, DoneScan(s, result) PROVE IInv'
  <2>1. images' \in [ImageSpec -> ImageStatus]
    BY <1>6 DEF DoneScan, setImageStatus, IInv, TypeOK, ImageStatus
  <2> QED
    BY <1>6, <2>1, ImagesIInv DEF DoneScan
<1>7. CASE Restart
  BY <1>7, RestartIInv
<1>8. CASE UNCHANGED vars
  <2>1. images' \in [ImageSpec -> ImageStatus]
    BY <1>8 DEF vars, IInv, TypeOK
  <2> QED
    BY <1>8, <2>1, ImagesIInv DEF vars
<1> QED
  BY <1>1, <1>2, <1>3, <1>4, <1>5, <1>6, <1>7, <1>8 DEF Next

\* The inductive invariant holds throughout: whatever requests arrive and
\* however the handlers of controllerinterface.go interleave.
THEOREM InductiveInvariant == Spec => []IInv
  BY InitIInv, NextIInv, PTL DEF Spec

\* The arbiter's maps, ledgers and handlers keep their types.
THEOREM TypeCorrect == Spec => []TypeOK
<1>1. IInv => TypeOK
  BY DEF IInv
<1> QED
  BY <1>1, InductiveInvariant, PTL

\* No daemon loses or invents a worker, for any number of controllers, workers
\* and concurrent requests, stale and repeated ones included.
THEOREM NoWorkerLost == Spec => []WorkersConserved
<1>1. IInv => WorkersConserved
  BY DEF IInv
<1> QED
  BY <1>1, InductiveInvariant, PTL

\* Every assignment is requested under its hash and backed by a worker in a
\* ledger of its controller.
THEOREM AssignmentsBacked == Spec => []AssignmentBacked
<1>1. IInv => AssignmentBacked
  BY DEF IInv
<1> QED
  BY <1>1, InductiveInvariant, PTL

\* The Hub's limit is overrun by fewer jobs than there are requests in flight.
THEOREM HubLoadBounded == Spec => []HubJobsBounded
<1>1. IInv => HubJobsBounded
  BY DEF IInv
<1> QED
  BY <1>1, InductiveInvariant, PTL

\* An assignment changes hands only through a done, an abort or a restart.
THEOREM NoTakeoverHolds == Spec => NoTakeover
<1> DEFINE Kept == \A h \in Hash :
              (assignedImages[h] # None /\ assignedImages'[h] # None)
                  => assignedImages'[h] = assignedImages[h]
<1>1. IInv /\ [Next]_vars => [Kept]_vars
  <2> SUFFICES ASSUME IInv, Next,
                      NEW h \in Hash, assignedImages[h] # None, assignedImages'[h] # None
               PROVE  assignedImages'[h] = assignedImages[h]
    OBVIOUS
  <2>1. ASSUME NEW k \in Conn, findWorker(k)
        PROVE  assignedImages'[h] = assignedImages[h]
    <3> DEFINE q == handler[k]
               g == requestedImages[q.spec]
    <3>1. CASE ~MayAssign(q.spec, q.id, q.cd)
      BY <2>1, <3>1 DEF findWorker
    <3>2. CASE MayAssign(q.spec, q.id, q.cd)
      <4>1. /\ q.spec \in ImageSpec /\ g = Md5[q.spec] /\ g \in Hash
            /\ assignedImages' = [assignedImages EXCEPT ![g] =
                    [ControllerID |-> q.id, ImageSpec |-> q.spec]]
        BY <2>1, <3>2, AssignFacts DEF findWorker
      <4>2. CASE h # g
        BY <4>1, <4>2 DEF IInv, TypeOK
      <4>3. CASE h = g
        <5>1. assignedImages[h].ControllerID = q.id
          BY <3>2, <4>3 DEF MayAssign
        <5>2. /\ assignedImages[h] \in Assignment
              /\ assignedImages[h].ImageSpec = q.spec
          BY <4>1, <4>3, AssignmentFacts, Md5Assumption
        <5>3. assignedImages[h] = [ControllerID |-> q.id, ImageSpec |-> q.spec]
          BY <5>1, <5>2 DEF Assignment
        <5>4. assignedImages'[h] = [ControllerID |-> q.id, ImageSpec |-> q.spec]
          BY <4>1, <4>3 DEF IInv, TypeOK
        <5> QED
          BY <5>3, <5>4
      <4> QED
        BY <4>2, <4>3
    <3> QED
      BY <3>1, <3>2
  <2>2. ASSUME NEW k \in Conn, finalizeScan(k) \/ releaseScanForPeer(k)
        PROVE  assignedImages'[h] = assignedImages[h]
    BY <2>2 DEF finalizeScan, releaseScanForPeer, IInv, TypeOK
  <2>3. ASSUME NEW k \in Conn, Serve(k)
        PROVE  assignedImages'[h] = assignedImages[h]
    BY <2>1, <2>2, <2>3
    DEF Serve, Throttle, LookupKnown, LookupUnknown, Register, Check, saveFoundImage,
        LookupImage, tables
  <2>4. CASE Restart
    BY <2>4 DEF Restart
  <2> QED
    BY <2>3, <2>4
    DEF Next, Receive, ReceiveJunk, Close, addImage, RemoveImage, DoneScan, tables
<1> QED
  BY <1>1, InductiveInvariant, PTL DEF Spec, NoTakeover

\* An image leaves the queue only when it is scanned or unknown.
THEOREM RequestKeptHolds == Spec => RequestKept
<1> DEFINE Kept == \A s \in ImageSpec :
              (requestedImages[s] # None /\ requestedImages'[s] = None)
                  => images'[s] # "unscanned"
<1>1. IInv /\ [Next]_vars => [Kept]_vars
  <2> SUFFICES ASSUME IInv, Next, NEW s \in ImageSpec,
                      requestedImages[s] # None, requestedImages'[s] = None
               PROVE  images'[s] # "unscanned"
    OBVIOUS
  <2>1. ASSUME NEW k \in Conn, finalizeScan(k)
        PROVE  images'[s] # "unscanned"
    <3>1. handler[k].spec = s
      BY <2>1 DEF finalizeScan, IInv, TypeOK
    <3> QED
      BY <2>1, <3>1 DEF finalizeScan, setImageStatus, IInv, TypeOK
  <2>2. ASSUME NEW k \in Conn, saveFoundImage(k)
        PROVE  FALSE
    <3>1. handler[k].spec \in ImageSpec
      BY <2>2 DEF saveFoundImage, At, IInv, HandlersOK, LocalsAt
    <3>2. Md5[handler[k].spec] # None
      BY <3>1, Md5Assumption, SetsAssumption
    <3> QED
      BY <2>2, <3>1, <3>2 DEF saveFoundImage, IInv, TypeOK
  <2>3. ASSUME NEW k \in Conn, Serve(k)
        PROVE  images'[s] # "unscanned"
    BY <2>1, <2>2, <2>3
    DEF Serve, Throttle, LookupKnown, LookupUnknown, Register, Check, findWorker,
        LookupImage, releaseScanForPeer, tables
  <2>4. CASE Restart
    BY <2>4 DEF Restart
  <2> QED
    BY <2>3, <2>4
    DEF Next, Receive, ReceiveJunk, Close, addImage, RemoveImage, DoneScan, tables
<1> QED
  BY <1>1, InductiveInvariant, PTL DEF Spec, RequestKept
=============================================================================
