---------------------------- MODULE ControllerProofs ----------------------------
(***************************************************************************)
(* Proofs about Controller for every number of images, callers, workers    *)
(* and calls.  CInv says who holds the controller's mutex, where every job *)
(* is, and that no two jobs have the same name; the counter of the         *)
(* WaitGroup and the refinement of JobPool follow from it.                 *)
(***************************************************************************)
EXTENDS Controller, FiniteSetTheorems, TLAPS

\* The caller past its check holds the mutex, and nobody else does.
LockOK == \A a \in Caller : caller[a].pc \in {"validate", "send"} <=> lock = a

\* What a caller's locals hold at each point of AddImage and RemoveImage.
CallersOK ==
    \A a \in Caller :
        /\ caller[a].pc = "idle" => caller[a] = Idle
        /\ caller[a].pc # "idle" => caller[a].ref \in Reference
        /\ caller[a].pc \in {"lock", "validate", "send"} => caller[a].id \in Id

\* Calls that may still queue a job.
Adding == {a \in Caller : caller[a].pc \in {"lock", "validate"}}

\* A call queues at most one job.
BudgetOK ==
    /\ IsFiniteSet(Adding)
    /\ \A r \in Reference : created[r] + Cardinality(Adding) + calls <= MaxCalls

\* Jobs made and not yet with a worker, and all jobs that are not done.
Pending == Sending \cup Queued \cup dispatching

Outstanding == Sending \cup Queued \cup dispatching \cup Running

\* A job is in one place at a time, and its name is its own.
JobsOK ==
    /\ \A w \in Worker : worker[w].pc = "pool" <=> worker[w].job = NoJob
    /\ \A a \in Caller : caller[a].pc = "send" => JobOf(a) \in Job
    /\ Sending \cap (Queued \cup dispatching \cup Running) = {}
    /\ Queued \cap (dispatching \cup Running) = {}
    /\ dispatching \cap Running = {}
    /\ \A i, k \in 1..Len(jobQueue) : jobQueue[i] = jobQueue[k] => i = k
    /\ \A v, w \in Worker : worker[v].job = worker[w].job /\ worker[v].job # NoJob => v = w
    /\ \A j, l \in Outstanding : j.ref = l.ref /\ j.n = l.n => j = l
    /\ \A j \in Outstanding : j.n <= created[j.ref]

WaitOK == IsFiniteSet(Outstanding) /\ wait = Cardinality(Outstanding)

\* A pull spec known under one id, which the engine keeps, has had a job
\* exactly if it is in the map, and every call under way names that id.
SteadyAt(r) ==
    /\ created[r] = IF images[r] = None THEN 0 ELSE 1
    /\ images[r] # None => images[r] \in engine
    /\ \A b \in Caller : caller[b].ref = r =>
          /\ caller[b].pc # "remove"
          /\ caller[b].id \in engine
          /\ images[r] # None => caller[b].id = images[r]
          /\ \A d \in Caller : caller[d].ref = r => caller[d].id = caller[b].id
          /\ caller[b].pc = "validate" => caller[b].old = images[r]

SteadyOK == \A r \in Reference \ unsteady : SteadyAt(r)

CInv ==
    /\ TypeOK
    /\ LockOK
    /\ CallersOK
    /\ BudgetOK
    /\ JobsOK
    /\ WaitOK
    /\ SteadyOK

-----------------------------------------------------------------------------
(***************************************************************************)
(* Callers.                                                                *)
(***************************************************************************)

\* A step of one caller, which goes on with q, keeps the mutex and its locals
\* in order if q is in order.
LEMMA CallerStep ==
    ASSUME CInv, NEW a \in Caller, NEW q \in CallerState,
           caller' = [caller EXCEPT ![a] = q],
           q.pc = "idle" => q = Idle,
           q.pc # "idle" => q.ref \in Reference,
           q.pc \in {"lock", "validate", "send"} => q.id \in Id,
           \/ /\ q.pc \in {"validate", "send"} <=> caller[a].pc \in {"validate", "send"}
              /\ UNCHANGED lock
           \/ q.pc \in {"validate", "send"} /\ lock = None /\ lock' = a
           \/ q.pc \notin {"validate", "send"} /\ lock = a /\ lock' = None
    PROVE  /\ LockOK' /\ CallersOK'
           /\ caller' \in [Caller -> CallerState] /\ lock' \in Caller \cup {None}
           /\ caller'[a] = q /\ \A b \in Caller : b # a => caller'[b] = caller[b]
<1>1. caller \in [Caller -> CallerState] /\ lock \in Caller \cup {None} /\ None \notin Caller
  BY ControllerAssumption DEF CInv, TypeOK, ControllerAssumption
<1>2. /\ caller'[a] = q /\ \A b \in Caller : b # a => caller'[b] = caller[b]
      /\ caller' \in [Caller -> CallerState] /\ lock' \in Caller \cup {None}
  BY <1>1
<1>3. CallersOK'
  BY <1>2 DEF CInv, CallersOK
<1>4. LockOK'
  BY <1>1, <1>2 DEF CInv, LockOK
<1> QED
  BY <1>2, <1>3, <1>4

\* Calls and jobs stay within the bound.
LEMMA BudgetStep ==
    ASSUME CInv, NEW a \in Caller, NEW q,
           caller'[a] = q, \A b \in Caller : b # a => caller'[b] = caller[b],
           calls' \in Nat, created' \in [Reference -> Nat],
           \/ /\ a \notin Adding /\ q.pc \in {"lock", "validate"}
              /\ calls' = calls - 1 /\ UNCHANGED created
           \/ a \in Adding /\ q.pc \in {"lock", "validate"} /\ UNCHANGED <<calls, created>>
           \/ /\ a \in Adding /\ q.pc \notin {"lock", "validate"} /\ UNCHANGED calls
              /\ \A r \in Reference : created'[r] <= created[r] + 1
           \/ /\ a \notin Adding /\ q.pc \notin {"lock", "validate"}
              /\ calls' <= calls /\ UNCHANGED created
    PROVE  BudgetOK'
<1>1. /\ IsFiniteSet(Adding) /\ Cardinality(Adding) \in Nat
      /\ calls \in Nat /\ MaxCalls \in Nat
      /\ \A r \in Reference : created[r] \in Nat
      /\ \A r \in Reference : created[r] + Cardinality(Adding) + calls <= MaxCalls
  BY FS_CardinalityType, ControllerAssumption DEF CInv, TypeOK, BudgetOK, ControllerAssumption
<1>2. CASE /\ a \notin Adding /\ q.pc \in {"lock", "validate"}
           /\ calls' = calls - 1 /\ UNCHANGED created
  <2>1. Adding' = Adding \cup {a}
    BY <1>2 DEF Adding
  <2>2. IsFiniteSet(Adding') /\ Cardinality(Adding') = Cardinality(Adding) + 1
    BY <1>1, <1>2, <2>1, FS_AddElement
  <2> QED
    BY <1>1, <1>2, <2>2 DEF BudgetOK
<1>3. CASE a \in Adding /\ q.pc \in {"lock", "validate"} /\ UNCHANGED <<calls, created>>
  <2>1. Adding' = Adding
    BY <1>3 DEF Adding
  <2> QED
    BY <1>1, <1>3, <2>1 DEF BudgetOK
<1>4. CASE /\ a \in Adding /\ q.pc \notin {"lock", "validate"} /\ UNCHANGED calls
           /\ \A r \in Reference : created'[r] <= created[r] + 1
  <2>1. Adding' = Adding \ {a}
    BY <1>4 DEF Adding
  <2>2. IsFiniteSet(Adding') /\ Cardinality(Adding') = Cardinality(Adding) - 1
    BY <1>1, <1>4, <2>1, FS_RemoveElement
  <2>3. \A r \in Reference : created'[r] + Cardinality(Adding') + calls' <= MaxCalls
    BY <1>1, <1>4, <2>2
  <2> QED
    BY <2>2, <2>3 DEF BudgetOK
<1>5. CASE /\ a \notin Adding /\ q.pc \notin {"lock", "validate"}
           /\ calls' <= calls /\ UNCHANGED created
  <2>1. Adding' = Adding
    BY <1>5 DEF Adding
  <2>2. \A r \in Reference : created'[r] + Cardinality(Adding') + calls' <= MaxCalls
    BY <1>1, <1>5, <2>1
  <2> QED
    BY <1>1, <2>1, <2>2 DEF BudgetOK
<1> QED
  BY <1>2, <1>3, <1>4, <1>5

\* A step that makes and moves no job.
LEMMA SameJobs ==
    ASSUME JobsOK, WaitOK, UNCHANGED <<queueVars, wait, created>>,
           \A b \in Caller : caller'[b].pc = "send" => caller[b].pc = "send",
           \A b \in Caller : caller[b].pc = "send" => caller'[b] = caller[b]
    PROVE  JobsOK' /\ WaitOK' /\ UNCHANGED <<Pending, worker>>
<1>1. UNCHANGED <<jobQueue, dispatching, worker, wait, created>>
  BY DEF queueVars
<1>2. \A b \in Caller : caller'[b].pc = "send" <=> caller[b].pc = "send"
  OBVIOUS
<1>3. \A b \in Caller : caller[b].pc = "send" => JobOf(b)' = JobOf(b)
  BY <1>1 DEF JobOf
<1>4. Sending' = Sending
  BY <1>2, <1>3 DEF Sending
<1>5. Queued' = Queued /\ Running' = Running
  BY <1>1 DEF Queued, Running
<1>6. Outstanding' = Outstanding
  BY <1>1, <1>4, <1>5 DEF Outstanding
<1>7. WaitOK'
  BY <1>1, <1>6 DEF WaitOK
<1>8. \A a \in Caller : caller'[a].pc = "send" => JobOf(a)' \in Job
  BY <1>2, <1>3 DEF JobsOK
<1>9. JobsOK'
  BY <1>1, <1>4, <1>5, <1>6, <1>8 DEF JobsOK
<1> QED
  BY <1>1, <1>4, <1>5, <1>7, <1>9 DEF Pending

\* What TypeOK says of the parts the callers use.
LEMMA CallerTypes ==
    ASSUME CInv
    PROVE  /\ images \in [Reference -> Id \cup {None}]
           /\ caller \in [Caller -> CallerState]
           /\ created \in [Reference -> Nat]
           /\ calls \in Nat /\ engine \subseteq Id
           /\ None \notin Reference /\ None \notin Id /\ None \notin Caller
           /\ None \notin engine
  BY ControllerAssumption DEF CInv, TypeOK, ControllerAssumption

\* An image is announced.
LEMMA AnnouncesCInv ==
    ASSUME CInv, NEW a \in Caller, NEW i \in Announce, Announces(a, i)
    PROVE  CInv' /\ UNCHANGED <<Pending, worker>>
<1> DEFINE q == [pc |-> "lock", ref |-> i.ref, id |-> i.hex, prefixed |-> i.prefixed, old |-> None]
<1>1. i.ref \in Reference /\ i.hex \in Id /\ i.prefixed \in BOOLEAN
  BY ControllerAssumption DEF ControllerAssumption
<1>2. /\ caller[a].pc = "idle" /\ calls > 0 /\ calls' = calls - 1
      /\ caller' = [caller EXCEPT ![a] = q]
      /\ UNCHANGED <<queueVars, images, lock, wait, engine, annotated, created, asked, churn>>
  BY DEF Announces
<1>3. q \in CallerState /\ q.pc = "lock" /\ q.ref = i.ref /\ q.id = i.hex
  BY <1>1 DEF CallerState
<1> HIDE DEF q
<1>4. /\ LockOK' /\ CallersOK'
      /\ caller' \in [Caller -> CallerState] /\ lock' \in Caller \cup {None}
      /\ caller'[a] = q /\ \A b \in Caller : b # a => caller'[b] = caller[b]
  BY <1>1, <1>2, <1>3, CallerStep
<1>5. calls' \in Nat /\ calls' \in 0..MaxCalls /\ created' \in [Reference -> Nat]
  BY <1>2, CallerTypes, ControllerAssumption DEF CInv, TypeOK, ControllerAssumption
<1>6. BudgetOK'
  <2>1. a \notin Adding
    BY <1>2 DEF Adding
  <2> QED
    BY <1>2, <1>3, <1>4, <1>5, <2>1, BudgetStep
<1>7. JobsOK' /\ WaitOK' /\ UNCHANGED <<Pending, worker>>
  BY <1>2, <1>3, <1>4, SameJobs DEF CInv
<1>8. unsteady \subseteq unsteady' /\ unsteady' \subseteq Reference
  BY <1>1 DEF Announces, CInv, TypeOK
<1>9. i.ref \notin unsteady' =>
          /\ i.hex \in engine /\ images[i.ref] \in {None, i.hex}
          /\ \A b \in Caller : caller[b].ref = i.ref => caller[b].id = i.hex
  BY DEF Announces
<1>10. SteadyOK'
  <2> SUFFICES ASSUME NEW r \in Reference \ unsteady' PROVE SteadyAt(r)'
    BY DEF SteadyOK
  <2>1. SteadyAt(r)
    BY <1>8 DEF CInv, SteadyOK
  <2>2. ASSUME NEW b \in Caller, caller'[b].ref = r
        PROVE  /\ caller'[b].pc # "remove"
               /\ caller'[b].id \in engine
               /\ images[r] # None => caller'[b].id = images[r]
               /\ \A d \in Caller : caller'[d].ref = r => caller'[d].id = caller'[b].id
               /\ caller'[b].pc = "validate" => caller'[b].old = images[r]
    <3>1. CASE r = i.ref
      <4>1. \A d \in Caller : caller'[d].ref = r => caller'[d].id = i.hex
        BY <1>3, <1>4, <1>9, <3>1
      <4>2. i.hex \in engine /\ (images[r] # None => i.hex = images[r])
        BY <1>9, <3>1
      <4>3. b # a => caller[b].pc # "remove" /\ (caller[b].pc = "validate" => caller[b].old = images[r])
        BY <1>4, <2>1, <2>2 DEF SteadyAt
      <4> QED
        BY <1>3, <1>4, <2>2, <4>1, <4>2, <4>3
    <3>2. CASE r # i.ref
      <4>1. b # a /\ \A d \in Caller : caller'[d].ref = r => d # a
        BY <1>3, <1>4, <2>2, <3>2
      <4> QED
        BY <1>4, <2>1, <2>2, <4>1 DEF SteadyAt
    <3> QED
      BY <3>1, <3>2
  <2> QED
    BY <1>2, <2>1, <2>2 DEF SteadyAt
<1>11. TypeOK'
  BY <1>2, <1>4, <1>5, <1>8 DEF CInv, TypeOK, queueVars
<1> QED
  BY <1>4, <1>6, <1>7, <1>10, <1>11 DEF CInv

\* AddImage takes the mutex, or finds that there is nothing to do.
LEMMA AddImageCInv ==
    ASSUME CInv, NEW a \in Caller, AddImage(a)
    PROVE  CInv' /\ UNCHANGED <<Pending, worker>>
<1> DEFINE p == caller[a]
           old == images[p.ref]
           q == IF old # None /\ ~p.prefixed /\ p.id = old THEN Idle
                ELSE [p EXCEPT !.pc = "validate", !.old = IF old \in engine THEN old ELSE None]
<1>1. /\ p.pc = "lock" /\ lock = None /\ p \in CallerState
      /\ p.ref \in Reference /\ p.id \in Id /\ old \in Id \cup {None}
  BY CallerTypes DEF AddImage, CInv, CallersOK
<1>2. /\ caller' = [caller EXCEPT ![a] = q]
      /\ UNCHANGED <<queueVars, wait, engine, annotated, created, asked, unsteady, calls, churn>>
  BY CallerTypes DEF AddImage, CallerState
<1>3. \/ q = Idle /\ UNCHANGED <<lock, images>>
      \/ /\ q.pc = "validate" /\ q.ref = p.ref /\ q.id = p.id
         /\ q.old = IF old \in engine THEN old ELSE None
         /\ lock' = a
         /\ images' = IF old \in engine THEN images ELSE [images EXCEPT ![p.ref] = None]
  BY <1>1 DEF AddImage, CallerState
<1>4. q \in CallerState
  BY <1>1 DEF CallerState, Idle
<1> HIDE DEF q
<1>5. Idle.pc = "idle" /\ Idle.ref = None
  BY DEF Idle
<1>6. /\ LockOK' /\ CallersOK'
      /\ caller' \in [Caller -> CallerState] /\ lock' \in Caller \cup {None}
      /\ caller'[a] = q /\ \A b \in Caller : b # a => caller'[b] = caller[b]
  <2>1. CASE q = Idle /\ UNCHANGED <<lock, images>>
    BY <1>1, <1>2, <1>4, <1>5, <2>1, CallerStep
  <2>2. CASE q.pc = "validate" /\ q.ref = p.ref /\ q.id = p.id /\ lock' = a
    BY <1>1, <1>2, <1>4, <2>2, CallerStep
  <2> QED
    BY <1>3, <2>1, <2>2
<1>7. BudgetOK'
  <2>1. a \in Adding
    BY <1>1 DEF Adding
  <2>2. calls' \in Nat /\ created' \in [Reference -> Nat]
    BY <1>2, CallerTypes
  <2>3. \A r \in Reference : created'[r] <= created[r] + 1
    BY <1>2, CallerTypes
  <2> QED
    BY <1>2, <1>3, <1>5, <1>6, <2>1, <2>2, <2>3, BudgetStep
<1>8. JobsOK' /\ WaitOK' /\ UNCHANGED <<Pending, worker>>
  BY <1>1, <1>2, <1>3, <1>5, <1>6, SameJobs DEF CInv
<1>9. SteadyOK'
  <2> SUFFICES ASSUME NEW r \in Reference \ unsteady PROVE SteadyAt(r)'
    BY <1>2 DEF SteadyOK
  <2>1. SteadyAt(r)
    BY DEF CInv, SteadyOK
  <2>2. images'[r] = images[r]
    BY <1>1, <1>3, <2>1, CallerTypes DEF SteadyAt
  <2>3. ASSUME NEW b \in Caller, caller'[b].ref = r
        PROVE  /\ caller'[b].pc # "remove"
               /\ caller'[b].id = caller[b].id /\ caller[b].ref = r
               /\ caller'[b].pc = "validate" => caller'[b].old = images[r]
    <3>1. CASE b # a
      BY <1>6, <2>1, <2>3, <3>1 DEF SteadyAt
    <3>2. CASE b = a
      <4>1. q # Idle
        BY <1>5, <1>6, <2>3, <3>2, CallerTypes
      <4>2. p.ref = r /\ q.pc = "validate" /\ q.id = p.id /\ q.old = IF old \in engine THEN old ELSE None
        BY <1>3, <1>6, <2>3, <3>2, <4>1
      <4>3. q.old = images[r]
        BY <2>1, <4>2 DEF SteadyAt
      <4> QED
        BY <1>6, <3>2, <4>2, <4>3
    <3> QED
      BY <3>1, <3>2
  <2> QED
    BY <1>2, <2>1, <2>2, <2>3 DEF SteadyAt
<1>10. TypeOK'
  <2>1. images' \in [Reference -> Id \cup {None}]
    BY <1>1, <1>3, CallerTypes
  <2> QED
    BY <1>2, <1>6, <2>1 DEF CInv, TypeOK, queueVars
<1> QED
  BY <1>6, <1>7, <1>8, <1>9, <1>10 DEF CInv

\* An image is removed from the map.
LEMMA RemoveCInv ==
    ASSUME CInv, NEW a \in Caller, RemoveImage(a) \/ \E r \in Reference : Removes(a, r)
    PROVE  CInv' /\ UNCHANGED <<Pending, worker>>
<1>1. Idle \in CallerState /\ Idle.pc = "idle" /\ Idle.ref = None
  BY DEF Idle, CallerState
<1>2. CASE RemoveImage(a)
  <2>1. /\ caller[a].pc = "remove" /\ lock = None
        /\ images' = [images EXCEPT ![caller[a].ref] = None]
        /\ caller' = [caller EXCEPT ![a] = Idle]
        /\ UNCHANGED <<queueVars, lock, wait, engine, annotated, created, asked, unsteady, calls, churn>>
    BY <1>2 DEF RemoveImage
  <2>2. caller[a].ref \in Reference
    BY <2>1 DEF CInv, CallersOK
  <2>3. /\ LockOK' /\ CallersOK'
        /\ caller' \in [Caller -> CallerState] /\ lock' \in Caller \cup {None}
        /\ caller'[a] = Idle /\ \A b \in Caller : b # a => caller'[b] = caller[b]
    BY <1>1, <2>1, CallerStep
  <2>4. BudgetOK'
    <3>1. a \notin Adding
      BY <2>1 DEF Adding
    <3> QED
      BY <1>1, <2>1, <2>3, <3>1, CallerTypes, BudgetStep
  <2>5. JobsOK' /\ WaitOK' /\ UNCHANGED <<Pending, worker>>
    BY <1>1, <2>1, <2>3, SameJobs DEF CInv
  <2>6. SteadyOK'
    <3> SUFFICES ASSUME NEW r \in Reference \ unsteady PROVE SteadyAt(r)'
      BY <2>1 DEF SteadyOK
    <3>1. SteadyAt(r)
      BY DEF CInv, SteadyOK
    <3>2. r # caller[a].ref
      BY <2>1, <3>1 DEF SteadyAt
    <3>3. images'[r] = images[r]
      BY <2>1, <2>2, <3>2, CallerTypes
    <3>4. \A b \in Caller : caller'[b].ref = r => b # a /\ caller'[b] = caller[b]
      BY <1>1, <2>3, CallerTypes
    <3> QED
      BY <2>1, <3>1, <3>3, <3>4 DEF SteadyAt
  <2>7. TypeOK'
    <3>1. images' \in [Reference -> Id \cup {None}]
      BY <2>1, CallerTypes
    <3> QED
      BY <2>1, <2>3, <3>1 DEF CInv, TypeOK, queueVars
  <2> QED
    BY <2>3, <2>4, <2>5, <2>6, <2>7 DEF CInv
<1>3. ASSUME NEW r \in Reference, Removes(a, r)
      PROVE  CInv' /\ UNCHANGED <<Pending, worker>>
  <2> DEFINE q == [caller[a] EXCEPT !.pc = "remove", !.ref = r]
  <2>1. /\ caller[a].pc = "idle" /\ calls > 0 /\ calls' = calls - 1
        /\ caller' = [caller EXCEPT ![a] = q]
        /\ unsteady' = unsteady \cup {r}
        /\ UNCHANGED <<queueVars, images, lock, wait, engine, annotated, created, asked, churn>>
    BY <1>3, CallerTypes DEF Removes, CallerState
  <2>2. q \in CallerState /\ q.pc = "remove" /\ q.ref = r
    BY CallerTypes DEF CallerState
  <2> HIDE DEF q
  <2>3. /\ LockOK' /\ CallersOK'
        /\ caller' \in [Caller -> CallerState] /\ lock' \in Caller \cup {None}
        /\ caller'[a] = q /\ \A b \in Caller : b # a => caller'[b] = caller[b]
    BY <2>1, <2>2, CallerStep
  <2>4. calls' \in Nat /\ calls' \in 0..MaxCalls /\ calls' <= calls /\ created' \in [Reference -> Nat]
    BY <2>1, CallerTypes, ControllerAssumption DEF CInv, TypeOK, ControllerAssumption
  <2>5. BudgetOK'
    <3>1. a \notin Adding
      BY <2>1 DEF Adding
    <3> QED
      BY <2>1, <2>2, <2>3, <2>4, <3>1, BudgetStep
  <2>6. JobsOK' /\ WaitOK' /\ UNCHANGED <<Pending, worker>>
    BY <2>1, <2>2, <2>3, SameJobs DEF CInv
  <2>7. SteadyOK'
    <3> SUFFICES ASSUME NEW u \in Reference \ unsteady' PROVE SteadyAt(u)'
      BY DEF SteadyOK
    <3>1. SteadyAt(u) /\ u # r
      BY <2>1 DEF CInv, SteadyOK
    <3>2. \A b \in Caller : caller'[b].ref = u => b # a /\ caller'[b] = caller[b]
      BY <2>2, <2>3, <3>1
    <3> QED
      BY <2>1, <3>1, <3>2 DEF SteadyAt
  <2>8. TypeOK'
    BY <2>1, <2>3, <2>4 DEF CInv, TypeOK, queueVars
  <2> QED
    BY <2>3, <2>5, <2>6, <2>7, <2>8 DEF CInv
<1> QED
  BY <1>2, <1>3

\* At most the caller that holds the mutex has a job to send.
LEMMA SendingIs ==
    ASSUME LockOK, NEW a \in Caller, lock = a
    PROVE  Sending = IF caller[a].pc = "send" THEN {JobOf(a)} ELSE {}
<1>1. \A b \in Caller : caller[b].pc = "send" => b = a
  BY DEF LockOK
<1> QED
  BY <1>1 DEF Sending

\* Jobs that have been made are jobs.
LEMMA OutstandingJobs ==
    ASSUME TypeOK, JobsOK
    PROVE  Outstanding \subseteq Job
<1>1. Sending \subseteq Job
  BY DEF JobsOK, Sending
<1>2. Queued \subseteq Job
  BY DEF TypeOK, Queued
<1>3. Running \subseteq Job
  BY DEF TypeOK, WorkerState, Running
<1> QED
  BY <1>1, <1>2, <1>3 DEF Outstanding, TypeOK

\* The rest of AddImage: a job is made under a name of its own, or the call
\* is over.
LEMMA QueueImageCInv ==
    ASSUME CInv, NEW a \in Caller, queueImage(a)
    PROVE  /\ CInv' /\ UNCHANGED worker
           /\ \/ UNCHANGED Pending
              \/ \E new \in Job : /\ Pending' = Pending \cup {new}
                                  /\ \A j \in Outstanding : ~(j.ref = new.ref /\ j.n = new.n)
<1> DEFINE p == caller[a]
           r == p.ref
<1>1. /\ p.pc = "validate" /\ lock = a /\ p \in CallerState
      /\ r \in Reference /\ p.id \in Id /\ a \in Adding
  BY CallerTypes DEF queueImage, CInv, CallersOK, LockOK, Adding
<1>2. Idle \in CallerState /\ Idle.pc = "idle" /\ Idle.ref = None
  BY DEF Idle, CallerState
<1>3. UNCHANGED <<queueVars, engine, annotated, asked, unsteady, calls, churn>>
  BY DEF queueImage
<1>4. CASE /\ caller' = [caller EXCEPT ![a] = Idle] /\ lock' = None
           /\ UNCHANGED <<images, wait, created>>
  <2>1. /\ LockOK' /\ CallersOK'
        /\ caller' \in [Caller -> CallerState] /\ lock' \in Caller \cup {None}
        /\ caller'[a] = Idle /\ \A b \in Caller : b # a => caller'[b] = caller[b]
    BY <1>1, <1>2, <1>4, CallerStep
  <2>2. BudgetOK'
    <3>1. \A u \in Reference : created'[u] <= created[u] + 1
      BY <1>4, CallerTypes
    <3> QED
      BY <1>1, <1>2, <1>3, <1>4, <2>1, <3>1, CallerTypes, BudgetStep
  <2>3. JobsOK' /\ WaitOK' /\ UNCHANGED <<Pending, worker>>
    BY <1>1, <1>2, <1>3, <1>4, <2>1, SameJobs DEF CInv
  <2>4. SteadyOK'
    <3> SUFFICES ASSUME NEW u \in Reference \ unsteady PROVE SteadyAt(u)'
      BY <1>3 DEF SteadyOK
    <3>1. SteadyAt(u)
      BY DEF CInv, SteadyOK
    <3>2. \A b \in Caller : caller'[b].ref = u => b # a /\ caller'[b] = caller[b]
      BY <1>2, <2>1, CallerTypes
    <3> QED
      BY <1>3, <1>4, <3>1, <3>2 DEF SteadyAt
  <2>5. TypeOK'
    BY <1>3, <1>4, <2>1 DEF CInv, TypeOK, queueVars
  <2> QED
    BY <2>1, <2>2, <2>3, <2>4, <2>5 DEF CInv
<1>5. CASE /\ Replaces(p)
           /\ images' = [images EXCEPT ![r] = p.id]
           /\ wait' = wait + 1
           /\ created' = [created EXCEPT ![r] = @ + 1]
           /\ caller' = [caller EXCEPT ![a].pc = "send"]
           /\ UNCHANGED lock
  <2> DEFINE q == [p EXCEPT !.pc = "send"]
             new == [ref |-> r, id |-> p.id, n |-> created[r] + 1]
  <2>1. /\ q \in CallerState /\ q.pc = "send" /\ q.ref = r /\ q.id = p.id
        /\ caller' = [caller EXCEPT ![a] = q]
    BY <1>1, <1>5, CallerTypes DEF CallerState
  <2> HIDE DEF q
  <2>2. /\ LockOK' /\ CallersOK'
        /\ caller' \in [Caller -> CallerState] /\ lock' \in Caller \cup {None}
        /\ caller'[a] = q /\ \A b \in Caller : b # a => caller'[b] = caller[b]
    BY <1>1, <1>5, <2>1, CallerStep
  <2>3. /\ created'[r] = created[r] + 1 /\ created[r] \in Nat
        /\ \A u \in Reference : u # r => created'[u] = created[u]
        /\ \A u \in Reference : created'[u] <= created[u] + 1 /\ created[u] <= created'[u]
        /\ created' \in [Reference -> Nat]
    BY <1>1, <1>5, CallerTypes
  <2>4. BudgetOK'
    BY <1>1, <1>3, <2>1, <2>2, <2>3, CallerTypes, BudgetStep
  <2>5. created[r] + 1 <= MaxCalls
    <3>1. created[r] + Cardinality(Adding) + calls <= MaxCalls /\ IsFiniteSet(Adding)
      BY <1>1 DEF CInv, BudgetOK
    <3>2. Cardinality(Adding) \in Nat /\ Cardinality(Adding) # 0
      BY <1>1, <3>1, FS_CardinalityType, FS_EmptySet
    <3>3. MaxCalls \in Nat /\ calls \in Nat /\ created[r] \in Nat
      BY <2>3, CallerTypes, ControllerAssumption DEF ControllerAssumption
    <3> QED
      BY <3>1, <3>2, <3>3
  <2>6. created' \in [Reference -> 0..MaxCalls]
    <3>1. MaxCalls \in Nat /\ created \in [Reference -> 0..MaxCalls]
      BY ControllerAssumption DEF ControllerAssumption, CInv, TypeOK
    <3>2. created[r] + 1 \in 0..MaxCalls
      BY <2>3, <2>5, <3>1
    <3> QED
      BY <1>1, <1>5, <3>1, <3>2
  <2>7. new \in Job
    <3>1. created[r] + 1 \in 1..MaxCalls
      BY <2>3, <2>5, ControllerAssumption DEF ControllerAssumption
    <3> QED
      BY <1>1, <3>1 DEF Job
  <2>8. JobOf(a)' = new
    BY <2>1, <2>2, <2>3 DEF JobOf
  <2>9. UNCHANGED <<jobQueue, dispatching, worker, Queued, Running>>
    BY <1>3 DEF queueVars, Queued, Running
  <2>10. Sending = {} /\ Sending' = {new}
    <3>1. Sending = {}
      BY <1>1, SendingIs DEF CInv
    <3>2. \A b \in Caller : caller'[b].pc = "send" <=> b = a
      BY <1>1, <1>5, <2>1, <2>2 DEF LockOK
    <3> QED
      BY <2>8, <3>1, <3>2 DEF Sending
  <2>11. Outstanding' = Outstanding \cup {new}
    BY <2>9, <2>10 DEF Outstanding
  <2>12. \A j \in Outstanding : j \in Job /\ j.n <= created[j.ref]
    BY OutstandingJobs DEF CInv, JobsOK
  <2>13. \A j \in Outstanding : ~(j.ref = r /\ j.n = created[r] + 1)
    BY <2>3, <2>12 DEF Job
  <2>14. new.ref = r /\ new.n = created[r] + 1 /\ new \notin Outstanding
    BY <2>13
  <2>15. WaitOK'
    <3>1. /\ IsFiniteSet(Outstanding') /\ Cardinality(Outstanding') = Cardinality(Outstanding) + 1
      BY <2>11, <2>14, FS_AddElement DEF CInv, WaitOK
    <3> QED
      BY <1>5, <3>1 DEF CInv, WaitOK
  <2> HIDE DEF new
  <2>16. JobsOK'
    <3>1. \A b \in Caller : caller'[b].pc = "send" => JobOf(b)' \in Job
      <4>1. \A b \in Caller : caller'[b].pc = "send" => b = a
        BY <1>1, <1>5, <2>2 DEF LockOK
      <4> QED
        BY <2>7, <2>8, <4>1
    <3>2. Sending' \cap (Queued \cup dispatching \cup Running)' = {}
      BY <2>9, <2>10, <2>14 DEF Outstanding
    <3>3. \A j, l \in Outstanding' : j.ref = l.ref /\ j.n = l.n => j = l
      BY <2>11, <2>13, <2>14 DEF CInv, JobsOK
    <3>4. \A j \in Outstanding' : j.n <= created'[j.ref]
      <4>1. ASSUME NEW j \in Outstanding
            PROVE  j.n <= created'[j.ref]
        <5>1. j.ref \in Reference /\ j.n \in Nat /\ j.n <= created[j.ref]
          BY <2>12 DEF Job
        <5>2. created[j.ref] <= created'[j.ref] /\ created'[j.ref] \in Nat /\ created[j.ref] \in Nat
          BY <2>3, <5>1, CallerTypes
        <5> QED
          BY <5>1, <5>2
      <4>2. new.n <= created'[new.ref]
        BY <2>3, <2>14
      <4> QED
        BY <2>11, <4>1, <4>2
    <3> QED
      BY <2>9, <3>1, <3>2, <3>3, <3>4 DEF CInv, JobsOK
  <2>17. SteadyOK'
    <3> SUFFICES ASSUME NEW u \in Reference \ unsteady PROVE SteadyAt(u)'
      BY <1>3 DEF SteadyOK
    <3>1. SteadyAt(u)
      BY DEF CInv, SteadyOK
    <3>2. ASSUME NEW b \in Caller, caller'[b].ref = u
          PROVE  /\ caller[b].ref = u /\ caller'[b].id = caller[b].id
                 /\ caller'[b].pc # "remove" /\ caller'[b].pc # "validate"
      <4>1. caller'[b].pc # "validate"
        BY <1>1, <1>5, <2>1, <2>2 DEF LockOK
      <4> QED
        BY <2>1, <2>2, <3>1, <3>2, <4>1 DEF SteadyAt
    <3>3. CASE u # r
      <4>1. images'[u] = images[u] /\ created'[u] = created[u]
        BY <1>1, <1>5, <2>3, <3>3, CallerTypes
      <4> QED
        BY <1>3, <3>1, <3>2, <4>1 DEF SteadyAt
    <3>4. CASE u = r
      <4>1. images'[r] = p.id /\ p.id # None
        BY <1>1, <1>5, CallerTypes
      <4>2. p.id \in engine /\ p.old = images[r] /\ (images[r] # None => p.id = images[r])
        BY <1>1, <3>1, <3>4 DEF SteadyAt
      <4>3. images[r] = None
        BY <1>5, <4>2 DEF Replaces
      <4>4. created'[r] = 1
        BY <2>3, <3>1, <3>4, <4>3 DEF SteadyAt
      <4>5. \A b \in Caller : caller'[b].ref = r => caller[b].ref = r /\ caller'[b].id = p.id
        BY <3>1, <3>2, <3>4 DEF SteadyAt
      <4> QED
        BY <1>3, <3>2, <3>4, <4>1, <4>2, <4>4, <4>5 DEF SteadyAt
    <3> QED
      BY <3>3, <3>4
  <2>18. TypeOK'
    <3>1. images' \in [Reference -> Id \cup {None}]
      BY <1>1, <1>5, CallerTypes
    <3>2. wait' \in Nat
      BY <1>5 DEF CInv, TypeOK
    <3> QED
      BY <1>3, <2>2, <2>6, <3>1, <3>2 DEF CInv, TypeOK, queueVars
  <2>19. Pending' = Pending \cup {new} /\ \A j \in Outstanding : ~(j.ref = new.ref /\ j.n = new.n)
    BY <2>9, <2>10, <2>13, <2>14 DEF Pending
  <2> QED
    BY <2>2, <2>4, <2>7, <2>9, <2>15, <2>16, <2>17, <2>18, <2>19 DEF CInv
<1> QED
  BY <1>4, <1>5 DEF queueImage

\* The job is put into the channel, and the mutex is released.
LEMMA SendCInv ==
    ASSUME CInv, NEW a \in Caller, Send(a)
    PROVE  CInv' /\ UNCHANGED <<Pending, worker>>
<1> DEFINE new == JobOf(a)
<1>1. /\ caller[a].pc = "send" /\ lock = a /\ new \in Job /\ a \notin Adding
      /\ Len(jobQueue) < Cardinality(Worker)
      /\ jobQueue' = Append(jobQueue, new)
      /\ caller' = [caller EXCEPT ![a] = Idle] /\ lock' = None
      /\ UNCHANGED <<images, dispatching, worker, wait, engine, annotated, created,
                     asked, unsteady, calls, churn>>
  BY DEF Send, CInv, LockOK, JobsOK, Adding
<1>2. Idle \in CallerState /\ Idle.pc = "idle" /\ Idle.ref = None
  BY DEF Idle, CallerState
<1>3. /\ LockOK' /\ CallersOK'
      /\ caller' \in [Caller -> CallerState] /\ lock' \in Caller \cup {None}
      /\ caller'[a] = Idle /\ \A b \in Caller : b # a => caller'[b] = caller[b]
  BY <1>1, <1>2, CallerStep
<1>4. BudgetOK'
  BY <1>1, <1>2, <1>3, CallerTypes, BudgetStep
<1>5. Sending = {new}
  BY <1>1, SendingIs DEF CInv
<1>6. \A b \in Caller : caller'[b].pc # "send"
  BY <1>1, <1>2, <1>3 DEF CInv, LockOK
<1>7. Sending' = {}
  BY <1>6 DEF Sending
<1> HIDE DEF new
<1>8. /\ jobQueue \in Seq(Job) /\ jobQueue' \in Seq(Job)
      /\ Len(jobQueue') = Len(jobQueue) + 1 /\ Len(jobQueue) \in Nat
      /\ \A i \in 1..Len(jobQueue) : jobQueue'[i] = jobQueue[i]
      /\ jobQueue'[Len(jobQueue) + 1] = new
  BY <1>1 DEF CInv, TypeOK
<1>9. Queued' = Queued \cup {new}
  BY <1>8 DEF Queued
<1>10. Running' = Running
  BY <1>1 DEF Running
<1>11. Sending' \cup Queued' = Sending \cup Queued
  BY <1>5, <1>7, <1>9
<1>12. Outstanding' = Outstanding
  BY <1>1, <1>10, <1>11 DEF Outstanding
<1>13. WaitOK'
  BY <1>1, <1>12 DEF CInv, WaitOK
<1>14. new \notin Queued \cup dispatching \cup Running
  BY <1>5 DEF CInv, JobsOK
<1>15. JobsOK'
  <2>1. \A i, k \in 1..Len(jobQueue') : jobQueue'[i] = jobQueue'[k] => i = k
    <3>1. \A i \in 1..Len(jobQueue) : jobQueue[i] # new
      BY <1>14 DEF Queued
    <3>2. \A i, k \in 1..Len(jobQueue) : jobQueue[i] = jobQueue[k] => i = k
      BY DEF CInv, JobsOK
    <3> QED
      BY <1>8, <3>1, <3>2
  <2>2. Queued' \cap (dispatching \cup Running)' = {}
    BY <1>1, <1>9, <1>10, <1>14 DEF CInv, JobsOK
  <2> QED
    BY <1>1, <1>6, <1>7, <1>10, <1>12, <2>1, <2>2 DEF CInv, JobsOK
<1>16. SteadyOK'
  <2> SUFFICES ASSUME NEW u \in Reference \ unsteady PROVE SteadyAt(u)'
    BY <1>1 DEF SteadyOK
  <2>1. SteadyAt(u)
    BY DEF CInv, SteadyOK
  <2>2. \A b \in Caller : caller'[b].ref = u => b # a /\ caller'[b] = caller[b]
    BY <1>2, <1>3, CallerTypes
  <2> QED
    BY <1>1, <2>1, <2>2 DEF SteadyAt
<1>17. TypeOK'
  <2>1. Len(jobQueue') <= Cardinality(Worker)
    <3>1. Cardinality(Worker) \in Nat
      BY ControllerAssumption, FS_CardinalityType DEF ControllerAssumption
    <3> QED
      BY <1>1, <1>8, <3>1
  <2> QED
    BY <1>1, <1>3, <1>8, <2>1 DEF CInv, TypeOK
<1> QED
  BY <1>1, <1>3, <1>4, <1>11, <1>13, <1>15, <1>16, <1>17 DEF CInv, Pending

-----------------------------------------------------------------------------
(***************************************************************************)
(* The dispatcher, the workers and the engine.                             *)
(***************************************************************************)

\* A step of the dispatcher or a worker leaves the callers' side alone.
LEMMA SourceSame ==
    ASSUME CInv, UNCHANGED sourceVars
    PROVE  /\ LockOK' /\ CallersOK' /\ BudgetOK' /\ SteadyOK'
           /\ UNCHANGED <<Sending, created>>
           /\ \A a \in Caller : caller'[a].pc = "send" => JobOf(a)' \in Job
<1>1. UNCHANGED <<images, lock, caller, engine, created, unsteady, calls, churn>>
  BY DEF sourceVars
<1>2. LockOK' /\ CallersOK'
  BY <1>1 DEF CInv, LockOK, CallersOK
<1>3. Adding' = Adding
  BY <1>1 DEF Adding
<1>4. BudgetOK'
  BY <1>1, <1>3 DEF CInv, BudgetOK
<1>5. SteadyOK'
  BY <1>1 DEF CInv, SteadyOK, SteadyAt
<1>6. \A a \in Caller : JobOf(a)' = JobOf(a)
  BY <1>1 DEF JobOf
<1>7. Sending' = Sending
  BY <1>1, <1>6 DEF Sending
<1> QED
  BY <1>1, <1>2, <1>4, <1>5, <1>6, <1>7 DEF CInv, JobsOK

\* dispatch starts a goroutine for the first job of the channel.
LEMMA DispatchCInv ==
    ASSUME CInv, dispatch
    PROVE  CInv' /\ UNCHANGED <<Pending, worker>>
<1> DEFINE j == Head(jobQueue)
<1>1. /\ jobQueue # <<>> /\ dispatching' = dispatching \cup {j} /\ jobQueue' = Tail(jobQueue)
      /\ UNCHANGED <<sourceVars, worker, wait, annotated, asked>>
  BY DEF dispatch
<1>2. /\ LockOK' /\ CallersOK' /\ BudgetOK' /\ SteadyOK' /\ UNCHANGED <<Sending, created>>
      /\ \A a \in Caller : caller'[a].pc = "send" => JobOf(a)' \in Job
  BY <1>1, SourceSame
<1>3. jobQueue \in Seq(Job)
  BY DEF CInv, TypeOK
<1>4. /\ Len(jobQueue) \in Nat /\ Len(jobQueue) >= 1 /\ j = jobQueue[1] /\ j \in Job
      /\ jobQueue' \in Seq(Job) /\ Len(jobQueue') = Len(jobQueue) - 1
      /\ \A k \in 1..Len(jobQueue') : jobQueue'[k] = jobQueue[k + 1]
  BY <1>1, <1>3
<1>5. \A i, k \in 1..Len(jobQueue) : jobQueue[i] = jobQueue[k] => i = k
  BY DEF CInv, JobsOK
<1> HIDE DEF j
<1>6. Queued = Queued' \cup {j} /\ j \notin Queued'
  <2>1. \A k \in 1..Len(jobQueue') : k + 1 \in 1..Len(jobQueue) /\ k + 1 # 1
    BY <1>4
  <2>2. \A k \in 1..Len(jobQueue) : k = 1 \/ (k - 1 \in 1..Len(jobQueue') /\ jobQueue'[k - 1] = jobQueue[k])
    BY <1>4
  <2>3. 1 \in 1..Len(jobQueue)
    BY <1>4
  <2>4. j \notin Queued'
    BY <1>4, <1>5, <2>1, <2>3 DEF Queued
  <2>5. Queued \subseteq Queued' \cup {j}
    BY <1>4, <2>2 DEF Queued
  <2>6. Queued' \cup {j} \subseteq Queued
    BY <1>4, <2>1, <2>3 DEF Queued
  <2> QED
    BY <2>4, <2>5, <2>6
<1>7. Running' = Running
  BY <1>1 DEF Running
<1>8. Pending' = Pending /\ Outstanding' = Outstanding
  BY <1>1, <1>2, <1>6, <1>7 DEF Pending, Outstanding
<1>9. JobsOK'
  <2>1. \A i, k \in 1..Len(jobQueue') : jobQueue'[i] = jobQueue'[k] => i = k
    <3> SUFFICES ASSUME NEW i \in 1..Len(jobQueue'), NEW k \in 1..Len(jobQueue'),
                        jobQueue'[i] = jobQueue'[k]
                 PROVE  i = k
      OBVIOUS
    <3>1. i + 1 \in 1..Len(jobQueue) /\ k + 1 \in 1..Len(jobQueue)
      BY <1>4
    <3>2. i + 1 = k + 1
      BY <1>4, <1>5, <3>1
    <3> QED
      BY <1>4, <3>2
  <2>2. Queued' \cap (dispatching' \cup Running') = {} /\ dispatching' \cap Running' = {}
        /\ Sending' \cap (Queued' \cup dispatching' \cup Running') = {}
    BY <1>1, <1>2, <1>6, <1>7 DEF CInv, JobsOK
  <2> QED
    BY <1>1, <1>2, <1>8, <2>1, <2>2 DEF CInv, JobsOK
<1>10. WaitOK'
  BY <1>1, <1>8 DEF CInv, WaitOK
<1>11. TypeOK'
  <2>1. Cardinality(Worker) \in Nat
    BY ControllerAssumption, FS_CardinalityType DEF ControllerAssumption
  <2>2. Len(jobQueue') <= Cardinality(Worker)
    BY <1>4, <2>1 DEF CInv, TypeOK
  <2> QED
    BY <1>1, <1>4, <2>2 DEF CInv, TypeOK, sourceVars
<1> QED
  BY <1>1, <1>2, <1>8, <1>9, <1>10, <1>11 DEF CInv

\* A goroutine of dispatch gives its job to a worker of the pool.
LEMMA HandOverCInv ==
    ASSUME CInv, NEW w \in Worker, NEW j \in dispatching, HandOver(j, w)
    PROVE  CInv' /\ Pending' = Pending \ {j}
<1>1. /\ worker[w].pc = "pool" /\ dispatching' = dispatching \ {j}
      /\ worker' = [worker EXCEPT ![w] = [pc |-> "exists", job |-> j]]
      /\ UNCHANGED <<sourceVars, jobQueue, wait, annotated, asked>>
  BY DEF HandOver
<1>2. /\ LockOK' /\ CallersOK' /\ BudgetOK' /\ SteadyOK' /\ UNCHANGED <<Sending, created>>
      /\ \A a \in Caller : caller'[a].pc = "send" => JobOf(a)' \in Job
  BY <1>1, SourceSame
<1>3. /\ worker \in [Worker -> WorkerState] /\ j \in Job /\ worker[w].job = NoJob
      /\ j \notin Sending /\ j \notin Queued /\ j \notin Running
  BY <1>1 DEF CInv, TypeOK, JobsOK
<1>4. j # NoJob
  <2>1. j.ref \in Reference /\ NoJob.ref = None
    BY <1>3 DEF Job, NoJob
  <2> QED
    BY <2>1, CallerTypes
<1>5. /\ worker' \in [Worker -> WorkerState] /\ worker'[w].pc = "exists" /\ worker'[w].job = j
      /\ \A v \in Worker : v # w => worker'[v] = worker[v]
  BY <1>1, <1>3 DEF WorkerState
<1>6. Running' = Running \cup {j}
  BY <1>3, <1>4, <1>5 DEF Running
<1>7. Queued' = Queued
  BY <1>1 DEF Queued
<1>8. Pending' = Pending \ {j}
  BY <1>1, <1>2, <1>3, <1>7 DEF Pending
<1>9. Outstanding' = Outstanding
  BY <1>1, <1>2, <1>6, <1>7 DEF Outstanding
<1>10. JobsOK'
  <2>1. \A v \in Worker : v # w => worker[v].job # j
    BY <1>3, <1>4 DEF Running
  <2>2. \A u, v \in Worker : worker'[u].job = worker'[v].job /\ worker'[u].job # NoJob => u = v
    BY <1>5, <2>1 DEF CInv, JobsOK
  <2>3. \A v \in Worker : worker'[v].pc = "pool" <=> worker'[v].job = NoJob
    BY <1>4, <1>5 DEF CInv, JobsOK
  <2>4. Queued' \cap (dispatching' \cup Running') = {} /\ dispatching' \cap Running' = {}
        /\ Sending' \cap (Queued' \cup dispatching' \cup Running') = {}
    BY <1>1, <1>2, <1>3, <1>6, <1>7 DEF CInv, JobsOK
  <2>5. \A i, l \in Outstanding' : i.ref = l.ref /\ i.n = l.n => i = l
    BY <1>9 DEF CInv, JobsOK
  <2>6. \A i \in Outstanding' : i.n <= created'[i.ref]
    BY <1>2, <1>9 DEF CInv, JobsOK
  <2>7. \A i, k \in 1..Len(jobQueue') : jobQueue'[i] = jobQueue'[k] => i = k
    BY <1>1 DEF CInv, JobsOK
  <2> QED
    BY <1>2, <2>2, <2>3, <2>4, <2>5, <2>6, <2>7 DEF JobsOK
<1>11. WaitOK'
  BY <1>1, <1>9 DEF CInv, WaitOK
<1>12. TypeOK'
  BY <1>1, <1>5 DEF CInv, TypeOK, sourceVars
<1> QED
  BY <1>2, <1>8, <1>10, <1>11, <1>12 DEF CInv

\* A worker goes on with its job.
LEMMA WorkCInv ==
    ASSUME CInv, NEW w \in Worker, exists(w) \/ CheckScanned(w) \/ ScanEnds(w)
    PROVE  /\ CInv' /\ UNCHANGED Pending
           /\ \A v \in Worker : worker'[v].job = worker[v].job
<1>1. PICK pc \in {"check", "scan", "done"} :
        /\ worker' = [worker EXCEPT ![w].pc = pc]
        /\ UNCHANGED <<sourceVars, jobQueue, dispatching, wait>>
  BY DEF exists, CheckScanned, ScanEnds
<1>2. worker[w].pc # "pool" /\ worker \in [Worker -> WorkerState]
  BY DEF exists, CheckScanned, ScanEnds, CInv, TypeOK
<1>3. /\ LockOK' /\ CallersOK' /\ BudgetOK' /\ SteadyOK' /\ UNCHANGED <<Sending, created>>
      /\ \A a \in Caller : caller'[a].pc = "send" => JobOf(a)' \in Job
  BY <1>1, SourceSame
<1>4. /\ worker' \in [Worker -> WorkerState]
      /\ \A v \in Worker : /\ worker'[v].job = worker[v].job
                           /\ worker'[v].pc = "pool" <=> worker[v].pc = "pool"
  BY <1>1, <1>2 DEF WorkerState
<1>5. Queued' = Queued /\ Running' = Running
  BY <1>1, <1>4 DEF Queued, Running
<1>6. Pending' = Pending /\ Outstanding' = Outstanding
  BY <1>1, <1>3, <1>5 DEF Pending, Outstanding
<1>7. JobsOK'
  BY <1>1, <1>3, <1>4, <1>5, <1>6 DEF CInv, JobsOK
<1>8. WaitOK'
  BY <1>1, <1>6 DEF CInv, WaitOK
<1>9. asked' \subseteq Reference \X Id /\ annotated' \subseteq Reference
  <2>1. worker[w].job \in Job
    BY <1>2 DEF CInv, JobsOK, WorkerState
  <2>2. worker[w].job.ref \in Reference /\ worker[w].job.id \in Id
    BY <2>1 DEF Job
  <2>3. asked \subseteq Reference \X Id /\ annotated \subseteq Reference
    BY DEF CInv, TypeOK
  <2> QED
    BY <2>2, <2>3 DEF exists, CheckScanned, ScanEnds
<1>10. TypeOK'
  BY <1>1, <1>4, <1>9 DEF CInv, TypeOK, sourceVars
<1> QED
  BY <1>3, <1>4, <1>6, <1>7, <1>8, <1>10 DEF CInv

\* job.Done: the counter is taken down with the job it was taken up for.
LEMMA DoneCInv ==
    ASSUME CInv, NEW w \in Worker, Done(w)
    PROVE  CInv' /\ UNCHANGED Pending /\ worker[w].job # NoJob
<1> DEFINE j == worker[w].job
<1>1. /\ worker[w].pc = "done" /\ wait' = wait - 1 /\ worker' = [worker EXCEPT ![w] = Free]
      /\ UNCHANGED <<sourceVars, jobQueue, dispatching, annotated, asked>>
  BY DEF Done
<1>2. /\ LockOK' /\ CallersOK' /\ BudgetOK' /\ SteadyOK' /\ UNCHANGED <<Sending, created>>
      /\ \A a \in Caller : caller'[a].pc = "send" => JobOf(a)' \in Job
  BY <1>1, SourceSame
<1>3. worker \in [Worker -> WorkerState] /\ j # NoJob /\ Free.pc = "pool" /\ Free.job = NoJob
  BY <1>1 DEF CInv, TypeOK, JobsOK, Free
<1>4. /\ worker' \in [Worker -> WorkerState] /\ worker'[w] = Free
      /\ \A v \in Worker : v # w => worker'[v] = worker[v]
  BY <1>1, <1>3 DEF WorkerState, Free
<1>5. \A v \in Worker : v # w => worker[v].job # j
  BY <1>3 DEF CInv, JobsOK
<1>6. j \in Running /\ Running' = Running \ {j}
  BY <1>3, <1>4, <1>5 DEF Running
<1> HIDE DEF j
<1>7. Queued' = Queued
  BY <1>1 DEF Queued
<1>8. Pending' = Pending
  BY <1>1, <1>2, <1>7 DEF Pending
<1>9. j \in Outstanding /\ Outstanding' = Outstanding \ {j}
  BY <1>1, <1>2, <1>6, <1>7 DEF Outstanding, CInv, JobsOK
<1>10. JobsOK'
  <2>1. \A u, v \in Worker : worker'[u].job = worker'[v].job /\ worker'[u].job # NoJob => u = v
    BY <1>3, <1>4 DEF CInv, JobsOK
  <2>2. \A v \in Worker : worker'[v].pc = "pool" <=> worker'[v].job = NoJob
    BY <1>3, <1>4 DEF CInv, JobsOK
  <2>3. Queued' \cap (dispatching' \cup Running') = {} /\ dispatching' \cap Running' = {}
        /\ Sending' \cap (Queued' \cup dispatching' \cup Running') = {}
    BY <1>1, <1>2, <1>6, <1>7 DEF CInv, JobsOK
  <2>4. \A i, l \in Outstanding' : i.ref = l.ref /\ i.n = l.n => i = l
    BY <1>9 DEF CInv, JobsOK
  <2>5. \A i \in Outstanding' : i.n <= created'[i.ref]
    BY <1>2, <1>9 DEF CInv, JobsOK
  <2>6. \A i, k \in 1..Len(jobQueue') : jobQueue'[i] = jobQueue'[k] => i = k
    BY <1>1 DEF CInv, JobsOK
  <2> QED
    BY <1>2, <2>1, <2>2, <2>3, <2>4, <2>5, <2>6 DEF JobsOK
<1>11. WaitOK' /\ wait' \in Nat
  <2>1. IsFiniteSet(Outstanding) /\ wait = Cardinality(Outstanding)
    BY DEF CInv, WaitOK
  <2>2. IsFiniteSet(Outstanding') /\ Cardinality(Outstanding') = Cardinality(Outstanding) - 1
    BY <1>9, <2>1, FS_RemoveElement
  <2>3. Cardinality(Outstanding') \in Nat
    BY <2>2, FS_CardinalityType
  <2> QED
    BY <1>1, <2>1, <2>2, <2>3 DEF WaitOK
<1>12. TypeOK'
  BY <1>1, <1>4, <1>11 DEF CInv, TypeOK, sourceVars
<1> QED
  BY <1>2, <1>3, <1>8, <1>10, <1>11, <1>12 DEF CInv, j

\* Images come and go: what was known under a changing id is unsteady.
LEMMA EngineCInv ==
    ASSUME CInv, NEW i \in UNION {SpecIds[r] : r \in Reference}, EngineChanges(i)
    PROVE  CInv' /\ UNCHANGED <<Pending, worker>>
<1>1. /\ churn > 0 /\ churn' = churn - 1
      /\ engine' = IF i \in engine THEN engine \ {i} ELSE engine \cup {i}
      /\ unsteady' = unsteady \cup {r \in Reference :
            images[r] = i \/ \E b \in Caller : caller[b].ref = r /\ caller[b].id = i}
      /\ UNCHANGED <<queueVars, images, lock, wait, caller, annotated, created, asked, calls>>
  BY DEF EngineChanges
<1>2. i \in Id
  BY ControllerAssumption DEF ControllerAssumption
<1>3. JobsOK' /\ WaitOK' /\ UNCHANGED <<Pending, worker>>
  BY <1>1, SameJobs DEF CInv
<1>4. LockOK' /\ CallersOK'
  BY <1>1 DEF CInv, LockOK, CallersOK
<1>5. BudgetOK'
  <2>1. Adding' = Adding
    BY <1>1 DEF Adding
  <2> QED
    BY <1>1, <2>1 DEF CInv, BudgetOK
<1>6. SteadyOK'
  <2> SUFFICES ASSUME NEW r \in Reference \ unsteady' PROVE SteadyAt(r)'
    BY DEF SteadyOK
  <2>1. /\ SteadyAt(r) /\ images[r] # i
        /\ \A b \in Caller : caller[b].ref = r => caller[b].id # i
    BY <1>1 DEF CInv, SteadyOK
  <2>2. \A k \in Id : k # i => (k \in engine <=> k \in engine')
    BY <1>1
  <2>3. images[r] # None => images[r] \in engine'
    BY <1>1, <2>1 DEF SteadyAt
  <2>4. \A b \in Caller : caller[b].ref = r => caller[b].id \in engine'
    BY <1>1, <2>1 DEF SteadyAt
  <2> QED
    BY <1>1, <2>1, <2>3, <2>4 DEF SteadyAt
<1>7. TypeOK'
  BY <1>1, <1>2, ControllerAssumption DEF CInv, TypeOK, queueVars, ControllerAssumption
<1> QED
  BY <1>3, <1>4, <1>5, <1>6, <1>7 DEF CInv

-----------------------------------------------------------------------------
(***************************************************************************)
(* The invariant, and the abstract pool.                                   *)
(***************************************************************************)

\* Nothing has been announced yet.
LEMMA InitCInv ==
    ASSUME Init
    PROVE  CInv
<1>1. /\ Idle \in CallerState /\ Idle.pc = "idle" /\ Idle.ref = None
      /\ Free \in WorkerState /\ Free.pc = "pool" /\ Free.job = NoJob
  BY DEF Idle, CallerState, Free, WorkerState
<1>2. /\ MaxCalls \in Nat /\ MaxChurn \in Nat /\ None \notin Reference /\ None \notin Caller
      /\ IsFiniteSet(Worker) /\ SpecIds \in [Reference -> SUBSET Id]
  BY ControllerAssumption DEF ControllerAssumption
<1>3. TypeOK
  <2>1. Cardinality(Worker) \in Nat /\ Len(jobQueue) = 0
    BY <1>2, FS_CardinalityType DEF Init
  <2>2. engine \subseteq Id
    BY <1>2 DEF Init
  <2> QED
    BY <1>1, <1>2, <2>1, <2>2 DEF Init, TypeOK
<1>4. LockOK /\ CallersOK
  BY <1>1, <1>2 DEF Init, LockOK, CallersOK
<1>5. BudgetOK
  <2>1. Adding = {}
    BY <1>1 DEF Init, Adding
  <2>2. IsFiniteSet(Adding) /\ Cardinality(Adding) = 0
    BY <2>1, FS_EmptySet
  <2> QED
    BY <1>2, <2>2 DEF Init, BudgetOK
<1>6. Sending = {} /\ Queued = {} /\ Running = {}
  BY <1>1 DEF Init, Sending, Queued, Running
<1>7. Outstanding = {}
  BY <1>6 DEF Init, Outstanding
<1>8. JobsOK
  BY <1>1, <1>6, <1>7 DEF Init, JobsOK
<1>9. WaitOK
  BY <1>7, FS_EmptySet DEF Init, WaitOK
<1>10. SteadyOK
  BY <1>1, <1>2 DEF Init, SteadyOK, SteadyAt
<1> QED
  BY <1>3, <1>4, <1>5, <1>8, <1>9, <1>10 DEF CInv

\* What a step does to the jobs: nothing, or it makes one under a new name,
\* hands one over, or ends one.
PoolStep ==
    \/ UNCHANGED Pending /\ \A v \in Worker : worker'[v].job = worker[v].job
    \/ /\ UNCHANGED worker
       /\ \E new \in Job : /\ Pending' = Pending \cup {new}
                           /\ \A j \in Outstanding : ~(j.ref = new.ref /\ j.n = new.n)
    \/ \E w \in Worker, j \in dispatching : HandOver(j, w) /\ Pending' = Pending \ {j}
    \/ \E w \in Worker : Done(w) /\ UNCHANGED Pending

\* One case for each action.
LEMMA NextCInv ==
    ASSUME CInv, [Next]_vars
    PROVE  CInv' /\ PoolStep
<1>1. ASSUME NEW a \in Caller, NEW i \in Announce, Announces(a, i)
      PROVE  CInv' /\ PoolStep
  BY <1>1, AnnouncesCInv DEF PoolStep
<1>2. ASSUME NEW a \in Caller, AddImage(a)
      PROVE  CInv' /\ PoolStep
  BY <1>2, AddImageCInv DEF PoolStep
<1>3. ASSUME NEW a \in Caller, queueImage(a)
      PROVE  CInv' /\ PoolStep
  BY <1>3, QueueImageCInv DEF PoolStep
<1>4. ASSUME NEW a \in Caller, Send(a)
      PROVE  CInv' /\ PoolStep
  BY <1>4, SendCInv DEF PoolStep
<1>5. ASSUME NEW a \in Caller, RemoveImage(a) \/ \E r \in Reference : Removes(a, r)
      PROVE  CInv' /\ PoolStep
  BY <1>5, RemoveCInv DEF PoolStep
<1>6. ASSUME dispatch
      PROVE  CInv' /\ PoolStep
  BY <1>6, DispatchCInv DEF PoolStep
<1>7. ASSUME NEW w \in Worker, NEW j \in dispatching, HandOver(j, w)
      PROVE  CInv' /\ PoolStep
  BY <1>7, HandOverCInv DEF PoolStep
<1>8. ASSUME NEW w \in Worker, exists(w) \/ CheckScanned(w) \/ ScanEnds(w)
      PROVE  CInv' /\ PoolStep
  BY <1>8, WorkCInv DEF PoolStep
<1>9. ASSUME NEW w \in Worker, Done(w)
      PROVE  CInv' /\ PoolStep
  BY <1>9, DoneCInv DEF PoolStep
<1>10. ASSUME NEW i \in UNION {SpecIds[r] : r \in Reference}, EngineChanges(i)
       PROVE  CInv' /\ PoolStep
  BY <1>10, EngineCInv DEF PoolStep
<1>11. CASE UNCHANGED vars
  <2>1. /\ UNCHANGED <<queueVars, wait, created, sourceVars>>
        /\ UNCHANGED <<jobQueue, dispatching, worker, wait, annotated, asked, sourceVars>>
    BY <1>11 DEF vars, queueVars, sourceVars
  <2>2. caller' = caller
    BY <2>1 DEF sourceVars
  <2>3. LockOK' /\ CallersOK' /\ BudgetOK' /\ SteadyOK'
    BY <2>1, SourceSame
  <2>4. JobsOK' /\ WaitOK' /\ UNCHANGED <<Pending, worker>>
    BY <2>1, <2>2, SameJobs DEF CInv
  <2>5. TypeOK'
    BY <2>1 DEF CInv, TypeOK, sourceVars
  <2> QED
    BY <2>3, <2>4, <2>5 DEF CInv, PoolStep
<1> QED
  BY <1>1, <1>2, <1>3, <1>4, <1>5, <1>6, <1>7, <1>8, <1>9, <1>10, <1>11 DEF Next

\* CInv is an inductive invariant of the controller.
THEOREM ControllerInvariant == Spec => []CInv
<1>1. Init => CInv
  BY InitCInv
<1>2. CInv /\ [Next]_vars => CInv'
  BY NextCInv
<1> QED
  BY <1>1, <1>2, PTL DEF Spec

\* Type correctness, with the bound of the channel: jobQueue never holds more
\* jobs than there are workers.
THEOREM ControllerTypeCorrect == Spec => []TypeOK
<1>1. CInv => TypeOK
  BY DEF CInv
<1> QED
  BY <1>1, ControllerInvariant, PTL

\* The WaitGroup counts the jobs that are loaded and not done, so Stop waits
\* for all of them and Done never takes the counter below zero.
THEOREM WaitGroupCountsJobs == Spec => []WaitCountsJobs
<1>1. CInv => WaitCountsJobs
  BY DEF CInv, WaitOK, WaitCountsJobs, Outstanding
<1> QED
  BY <1>1, ControllerInvariant, PTL

\* However many callers announce it, and with or without "sha256:", an image
\* that the engine keeps under one id is queued once.
THEOREM SteadyImagesQueuedOnce == Spec => []QueuedOnce
<1>1. CInv => QueuedOnce
  BY DEF CInv, SteadyOK, SteadyAt, QueuedOnce
<1> QED
  BY <1>1, ControllerInvariant, PTL

\* Channel, dispatcher, goroutines and workers implement the job pool: every
\* job that queueImage makes is taken by one worker, once.
THEOREM ControllerImplementsPool == Spec => ServesAsPool
<1> DEFINE name(j) == <<j.ref, j.n>>
           running == [w \in Worker |-> IF worker[w].job = NoJob THEN None ELSE name(worker[w].job)]
<1>1. Init => Pool!Init
  <2> SUFFICES ASSUME Init PROVE Pool!Init
    OBVIOUS
  <2>1. Free.job = NoJob /\ Free.pc = "pool" /\ Idle.pc = "idle"
    BY DEF Free, Idle
  <2>2. Sending = {} /\ Queued = {} /\ dispatching = {}
    BY <2>1 DEF Init, Sending, Queued
  <2>3. Named(Sending \cup Queued \cup dispatching) = {}
    BY <2>2 DEF Named
  <2>4. \A w \in Worker : worker[w].job = NoJob
    BY <2>1 DEF Init
  <2> QED
    BY <2>3, <2>4 DEF Pool!Init
<1>2. CInv /\ [Next]_vars => [Pool!Next]_(Pool!vars)
  <2> SUFFICES ASSUME CInv, [Next]_vars PROVE Pool!Next \/ UNCHANGED Pool!vars
    OBVIOUS
  <2> DEFINE pending == Named(Sending \cup Queued \cup dispatching)
  <2>1. PoolStep
    BY NextCInv
  <2>2. pending = {name(j) : j \in Pending} /\ pending' = {name(j) : j \in Pending'}
    BY DEF Named, Pending
  <2>3. \A j \in Outstanding : name(j) \in Reference \X (1..MaxCalls) /\ name(j) # None
    <3>1. \A j \in Outstanding : j.ref \in Reference /\ j.n \in 1..MaxCalls
      BY OutstandingJobs DEF CInv, Job
    <3> QED
      BY <3>1, ControllerAssumption DEF ControllerAssumption
  <2>4. \A j, l \in Outstanding : name(j) = name(l) => j = l
    BY DEF CInv, JobsOK
  <2>5. \A w \in Worker : running[w] # None => worker[w].job \in Running /\ running[w] = name(worker[w].job)
    BY DEF Running
  <2>6. Outstanding = Pending \cup Running
    BY DEF Outstanding, Pending
  <2>7. CASE UNCHANGED Pending /\ \A v \in Worker : worker'[v].job = worker[v].job
    <3>1. UNCHANGED pending
      BY <2>2, <2>7
    <3>2. UNCHANGED running
      BY <2>7
    <3> QED
      BY <3>1, <3>2 DEF Pool!vars
  <2>8. ASSUME NEW new \in Job, UNCHANGED worker, Pending' = Pending \cup {new},
               \A j \in Outstanding : ~(j.ref = new.ref /\ j.n = new.n)
        PROVE  Pool!Next
    <3>1. name(new) \in Reference \X (1..MaxCalls) /\ name(new) # None
      BY ControllerAssumption DEF ControllerAssumption, Job
    <3>2. \A j \in Outstanding : name(j) # name(new)
      BY <2>8
    <3>3. name(new) \notin pending \cup {running[w] : w \in Worker}
      BY <2>2, <2>5, <2>6, <3>1, <3>2
    <3>4. pending' = pending \cup {name(new)}
      BY <2>2, <2>8
    <3>5. UNCHANGED running
      BY <2>8
    <3>6. Pool!Submit(name(new))
      BY <3>3, <3>4, <3>5 DEF Pool!Submit
    <3> QED
      BY <3>1, <3>6 DEF Pool!Next
  <2>9. ASSUME NEW w \in Worker, NEW j \in dispatching, HandOver(j, w), Pending' = Pending \ {j}
        PROVE  Pool!Next
    <3>1. j \in Outstanding /\ j \in Pending
      BY DEF Outstanding, Pending
    <3>2. worker[w].job = NoJob
      BY <2>9 DEF HandOver, CInv, JobsOK
    <3>3. running[w] = None
      BY <3>2
    <3>4. name(j) \in pending
      BY <2>2, <3>1
    <3>5. pending' = pending \ {name(j)}
      BY <2>2, <2>4, <2>6, <2>9, <3>1
    <3>6. /\ worker'[w].job = j /\ \A v \in Worker : v # w => worker'[v] = worker[v]
      BY <2>9 DEF HandOver, CInv, TypeOK
    <3>7. j # NoJob
      <4>1. j.ref \in Reference /\ NoJob.ref = None
        BY <3>1, OutstandingJobs DEF CInv, Job, NoJob
      <4> QED
        BY <4>1, CallerTypes
    <3>8. running' = [running EXCEPT ![w] = name(j)]
      BY <3>6, <3>7
    <3>9. Pool!Take(w, name(j))
      BY <3>3, <3>4, <3>5, <3>8 DEF Pool!Take
    <3> QED
      BY <2>3, <3>1, <3>9 DEF Pool!Next
  <2>10. ASSUME NEW w \in Worker, Done(w), UNCHANGED Pending
         PROVE  Pool!Next
    <3>1. worker[w].job # NoJob
      BY <2>10 DEF Done, CInv, JobsOK
    <3>2. running[w] # None
      <4>1. worker[w].job \in Outstanding
        BY <3>1 DEF Outstanding, Running
      <4> QED
        BY <2>3, <3>1, <4>1
    <3>3. UNCHANGED pending
      BY <2>2, <2>10
    <3>4. worker'[w].job = NoJob /\ \A v \in Worker : v # w => worker'[v] = worker[v]
      BY <2>10 DEF Done, Free, CInv, TypeOK
    <3>5. running' = [running EXCEPT ![w] = None]
      BY <3>4
    <3>6. Pool!Finish(w)
      BY <3>2, <3>3, <3>5 DEF Pool!Finish
    <3> QED
      BY <3>6 DEF Pool!Next
  <2> QED
    BY <2>1, <2>7, <2>8, <2>9, <2>10 DEF PoolStep
<1> QED
  BY <1>1, <1>2, ControllerInvariant, PTL DEF Spec, ServesAsPool, Pool!Spec
=============================================================================
