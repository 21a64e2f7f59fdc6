--------------------------- MODULE ControllerDaemon ---------------------------
(***************************************************************************)
(* The arbiter's ledger of one controller, the struct controllerDaemon of  *)
(* arbiter/pkg/arbiter/controllerdaemon.go, and its methods as operators   *)
(* on that record.                                                         *)
(*                                                                         *)
(*   WorkerCount     info.WorkerCount: the workers the arbiter believes    *)
(*                   are free                                              *)
(*   requestedScans  keys of the map: images the controller announced      *)
(*   assignedScans   keys of the map: images the controller may scan now   *)
(*                                                                         *)
(* lastMessage and the assignment times are written and never read, and    *)
(* the values of requestedScans are never read either: they are left out.  *)
(* Every method runs under the daemon's own mutex, inside the arbiter's.   *)
(***************************************************************************)
EXTENDS Integers, FiniteSets

Daemon(S) ==
    [WorkerCount : Int, requestedScans : SUBSET S, assignedScans : SUBSET S]

\* Mutant: a map is never made.
newControllerDaemonNilMap(workerCount) ==
    [WorkerCount |-> workerCount, requestedScans |-> {}]

newControllerDaemon(workerCount) ==
    [WorkerCount |-> workerCount, requestedScans |-> {}, assignedScans |-> {}]

AddScanRequest(cd, spec) ==
    [cd EXCEPT !.requestedScans = @ \cup {spec}]

SkipScan(cd, spec) ==
    [cd EXCEPT !.requestedScans = @ \ {spec}]

\* What AssignScan returns: announced by this controller and either assigned
\* to it already ("Claiming again") or a worker is free.
AssignScanOk(cd, spec) ==
    /\ spec \in cd.requestedScans
    /\ spec \in cd.assignedScans \/ cd.WorkerCount > 0

\* What AssignScan does to the ledger when it returns true.
AssignScan(cd, spec) ==
    IF spec \in cd.assignedScans
    THEN cd
    ELSE [cd EXCEPT !.assignedScans = @ \cup {spec}, !.WorkerCount = @ - 1]

\* Mutant: a worker comes back with every report.
CompleteScanUnchecked(cd, spec) ==
    [cd EXCEPT !.requestedScans = @ \ {spec},
               !.assignedScans  = @ \ {spec},
               !.WorkerCount    = @ + 1]

\* A worker comes back only if the scan was assigned to this controller.
CompleteScan(cd, spec) ==
    [cd EXCEPT !.requestedScans = @ \ {spec},
               !.assignedScans  = @ \ {spec},
               !.WorkerCount    = IF spec \in cd.assignedScans THEN @ + 1 ELSE @]

\* Mutant: the assignment stays in the ledger.
AbortScanKept(cd, spec) ==
    [cd EXCEPT !.requestedScans = @ \ {spec}]

\* The same transitions as CompleteScan, in a method of its own.
AbortScan(cd, spec) ==
    [cd EXCEPT !.requestedScans = @ \ {spec},
               !.assignedScans  = @ \ {spec},
               !.WorkerCount    = IF spec \in cd.assignedScans THEN @ + 1 ELSE @]

\* The books of a daemon that registered with n workers balance: every worker
\* is either free or tied to one assigned scan, and none is lost or invented.
Balanced(cd, n) ==
    /\ cd.WorkerCount >= 0
    /\ cd.WorkerCount + Cardinality(cd.assignedScans) = n
=============================================================================
