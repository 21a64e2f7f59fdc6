-------------------------------- MODULE JobPool --------------------------------
(***************************************************************************)
(* What a queue, a dispatcher and its workers promise together, in the     *)
(* controller and in the arbiter (dispatcher.go and worker.go of each):    *)
(* every job submitted is given to one worker, once, and a worker has one  *)
(* job at a time.  In which order the jobs are served is not promised.     *)
(***************************************************************************)
CONSTANTS
    JobId,      \* every job there can be at one time
    Worker,
    None

VARIABLES
    pending,    \* submitted, and not yet with a worker
    running     \* the job each worker has

vars == <<pending, running>>

Init ==
    /\ pending = {}
    /\ running = [w \in Worker |-> None]

Submit(j) ==
    /\ j \notin pending \cup {running[w] : w \in Worker}
    /\ pending' = pending \cup {j}
    /\ UNCHANGED running

Take(w, j) ==
    /\ running[w] = None
    /\ j \in pending
    /\ pending' = pending \ {j}
    /\ running' = [running EXCEPT ![w] = j]

Finish(w) ==
    /\ running[w] # None
    /\ running' = [running EXCEPT ![w] = None]
    /\ UNCHANGED pending

Next ==
    \/ \E j \in JobId : Submit(j)
    \/ \E w \in Worker : Finish(w) \/ \E j \in JobId : Take(w, j)

Spec == Init /\ [][Next]_vars
=============================================================================
