---------------------------- MODULE NotificationProofs ----------------------------
(***************************************************************************)
(* Proofs about Notification for every number of images, pods, workers,    *)
(* rounds and crashes.  NInv says which jobs can be outstanding when: none *)
(* before Load has its pods, none of a round for what the round has still  *)
(* to visit, and none for an image that no pod is registered for.          *)
(***************************************************************************)
EXTENDS Notification, TLAPS

WorkerState ==
    [pc : {"pool", "results", "apply"}, job : Job \cup {NoJob},
     count : Count \cup {None}, pods : Seq(Pod)]

TaskState == [pc : {"none", "wait", "waited", "process"}, left : Seq(Image)]

RoundState ==
    [pc : {"idle", "images", "pods"}, todo : SUBSET (ScanImage \cup Image), slot : 0..MaxRounds]

\* A worker in the pool has no job, and any other has one.
WorkersOK == \A w \in Worker : worker[w].pc = "pool" <=> worker[w].job = NoJob

\* What the loop of one round has still to visit has no job of this round yet.
RoundOK(s) ==
    /\ round[s].pc = "idle" => round[s] = NoRound
    /\ round[s].pc = "images" => round[s].todo \subseteq ScanImage
    /\ round[s].pc = "pods" => round[s].todo \subseteq Image
    /\ round[s].pc # "idle" => (round[s].slot = 0 <=> s = "load")
    /\ \A j \in Outstanding : round[s].pc # "idle" /\ j.slot = round[s].slot =>
          /\ j.name \notin round[s].todo
          /\ round[s].pc = "images" => j.name \notin Image

RoundsOK == \A s \in {"load", "ticker"} : RoundOK(s)

\* Until Load has its pods there are no rounds and no jobs: getPods may empty
\* imageUsage.
StartOK ==
    main \in {"getImages", "getPods", "register"} =>
        Outstanding = {} /\ \A s \in {"load", "ticker"} : round[s].pc = "idle"

\* A job for a pod image has a pod to patch.
UsageOK == \A j \in Outstanding : j.name \in Image => imageUsage[j.name] # <<>>

NInv ==
    /\ TypeOK
    /\ worker \in [Worker -> WorkerState]
    /\ task \in [Pod \X Origin -> TaskState]
    /\ WorkersOK
    /\ RoundsOK
    /\ StartOK
    /\ UsageOK

Slot == {"load", "ticker"}

-----------------------------------------------------------------------------

\* What the assumption says, part by part.
LEMMA Constants ==
    /\ PullSpec \subseteq Image /\ ScanImage \cap Image = {}
    /\ \A p \in Pod : Containers[p] \in Seq(Image) /\ Containers[p] # <<>>
    /\ MaxRounds \in Nat /\ MaxEvents \in Nat
    /\ None \notin Image /\ None \notin ScanImage /\ None \notin Job /\ NoJob \notin Job
    /\ None \notin Controller
<1>1. /\ PullSpec \subseteq Image /\ ScanImage \cap Image = {}
      /\ \A p \in Pod : Containers[p] \in Seq(Image) /\ Containers[p] # <<>>
      /\ MaxRounds \in Nat /\ MaxEvents \in Nat
      /\ None \notin Image /\ None \notin ScanImage /\ None \notin Job
      /\ None \notin Controller
  BY NotificationAssumption DEF NotificationAssumption
<1>2. NoJob \notin Job
  BY <1>1 DEF NoJob, Job
<1> QED
  BY <1>1, <1>2

\* What TypeOK says of each variable.
LEMMA Types ==
    ASSUME NInv
    PROVE  /\ listed \subseteq Pod \X Phase /\ images \subseteq ScanImage
           /\ imageUsage \in [Image -> Seq(Pod)]
           /\ round \in [Slot -> RoundState]
           /\ dispatching \subseteq Job /\ Outstanding \subseteq Job
           /\ worker \in [Worker -> WorkerState]
           /\ \A w \in Worker : worker[w].pc = "apply" => worker[w].pods # <<>>
           /\ task \in [Pod \X Origin -> TaskState]
           /\ announced \subseteq Pod
           /\ pod \in [Pod -> Phase] /\ label \in [Pod -> Count \cup {None}]
           /\ hub \in [PullSpec -> Count \cup {None}] /\ missed \subseteq Pod
           /\ ControllerTypes
           /\ events \in 0..MaxEvents
<1>1. Outstanding \subseteq Job
  BY DEF NInv, TypeOK, Outstanding
<1> QED
  BY <1>1 DEF NInv, TypeOK, Slot, RoundState

\* Events are counted.
LEMMA EventType ==
    ASSUME NInv, Event \/ UNCHANGED events
    PROVE  events' \in 0..MaxEvents
  BY Types, Constants DEF Event

\* The controllers have taken no step.
LEMMA ControllersSame ==
    ASSUME NInv, UNCHANGED controllers
    PROVE  ControllerTypes'
  BY Types DEF controllers, ControllerTypes

\* A step that makes and moves no job keeps the invariant if it does not take
\* the main goroutine back and empties no list of pods that a job needs.
LEMMA QuietStep ==
    ASSUME NInv, UNCHANGED queueVars,
           main' \in {"getImages", "getPods", "register"} => main \in {"getImages", "getPods", "register"},
           \A j \in Outstanding : j.name \in Image /\ imageUsage[j.name] # <<>> => imageUsage'[j.name] # <<>>,
           main' \in {"getImages", "getPods", "register", "round", "watch"},
           listed' \subseteq Pod \X Phase, images' \subseteq ScanImage,
           imageUsage' \in [Image -> Seq(Pod)], task' \in [Pod \X Origin -> TaskState],
           announced' \subseteq Pod, pod' \in [Pod -> Phase], label' \in [Pod -> Count \cup {None}],
           hub' \in [PullSpec -> Count \cup {None}], missed' \subseteq Pod,
           ControllerTypes', events' \in 0..MaxEvents
    PROVE  NInv' /\ UNCHANGED <<dispatching, worker>>
<1>1. UNCHANGED <<round, dispatching, worker>>
  BY DEF queueVars
<1>2. Outstanding' = Outstanding
  BY <1>1 DEF Outstanding
<1>3. \A g \in Pod \X Origin : task'[g].pc \in {"none", "wait", "waited", "process"} /\ task'[g].left \in Seq(Image)
  BY DEF TaskState
<1>4. TypeOK'
  BY <1>1, <1>3 DEF NInv, TypeOK
<1>5. WorkersOK'
  BY <1>1 DEF NInv, WorkersOK
<1>6. RoundsOK'
  BY <1>1, <1>2 DEF NInv, RoundsOK, RoundOK
<1>7. StartOK'
  BY <1>1, <1>2 DEF NInv, StartOK
<1>8. UsageOK'
  BY <1>2 DEF NInv, UsageOK
<1> QED
  BY <1>1, <1>4, <1>5, <1>6, <1>7, <1>8 DEF NInv

-----------------------------------------------------------------------------
(***************************************************************************)
(* Loading and registering pods, and the cluster.                          *)
(***************************************************************************)

\* Nobody registers the pod.
LEMMA NoTaskType == NoTask \in TaskState
<1>1. <<>> \in Seq(Image)
  OBVIOUS
<1> QED
  BY <1>1 DEF NoTask, TaskState

\* A pending pod gets a waiter, a running one is registered at once.
LEMMA SeeToType ==
    ASSUME NInv, NEW p \in Pod, NEW o \in Origin, NEW ph, SeeTo(p, o, ph)
    PROVE  task' \in [Pod \X Origin -> TaskState]
<1> DEFINE g == <<p, o>>
           t == CASE ph = "pending" -> [pc |-> "wait", left |-> <<>>]
                  [] ph = "running" -> [pc |-> "process", left |-> Containers[p]]
                  [] OTHER          -> task[g]
<1>1. g \in Pod \X Origin /\ task \in [Pod \X Origin -> TaskState]
  BY Types
<1>2. task' = [task EXCEPT ![g] = t]
  BY DEF SeeTo
<1>3. t \in TaskState
  <2>1. <<>> \in Seq(Image) /\ Containers[p] \in Seq(Image)
    BY Constants
  <2>2. /\ [pc |-> "wait", left |-> <<>>] \in TaskState
        /\ [pc |-> "process", left |-> Containers[p]] \in TaskState
    BY <2>1 DEF TaskState
  <2>3. task[g] \in TaskState
    BY <1>1
  <2> QED
    BY <2>2, <2>3
<1> HIDE DEF g, t
<1> QED
  BY <1>1, <1>2, <1>3

\* The main goroutine, apart from its round.
LEMMA MainNInv ==
    ASSUME NInv,
           \/ getImages \/ LoadReturns
           \/ \E p \in Pod, ph \in Phase : LoadPod(p, ph)
           \/ getPods /\ UNCHANGED round
    PROVE  NInv' /\ UNCHANGED <<dispatching, worker>>
<1>1. CASE getImages
  <2>1. /\ main = "getImages" /\ main' = "getPods" /\ images' \subseteq ScanImage
        /\ Event \/ UNCHANGED events
        /\ UNCHANGED <<listed, imageUsage, queueVars, task, announced, cluster>>
    BY <1>1, Types DEF getImages, CallSucceeds, CallFails
  <2>2. events' \in 0..MaxEvents
    BY <2>1, EventType
  <2> QED
    BY <2>1, <2>2, Types, QuietStep, ControllersSame DEF cluster
<1>2. CASE LoadReturns
  <2>1. /\ main' = "watch"
        /\ UNCHANGED <<listed, images, imageUsage, queueVars, task, announced, cluster, events>>
    BY <1>2 DEF LoadReturns
  <2> QED
    BY <2>1, Types, QuietStep, ControllersSame DEF cluster
<1>3. ASSUME NEW p \in Pod, NEW ph \in Phase, LoadPod(p, ph)
      PROVE  NInv' /\ UNCHANGED <<dispatching, worker>>
  <2>1. /\ main = "register" /\ listed' \subseteq listed /\ SeeTo(p, "load", ph)
        /\ UNCHANGED <<main, images, imageUsage, queueVars, announced, cluster, events>>
    BY <1>3 DEF LoadPod
  <2>2. task' \in [Pod \X Origin -> TaskState]
    BY <2>1, SeeToType DEF Origin
  <2> QED
    BY <2>1, <2>2, Types, QuietStep, ControllersSame DEF cluster
<1>4. CASE getPods /\ UNCHANGED round
  <2>1. /\ main = "getPods"
        /\ Event \/ UNCHANGED events
        /\ main' \in {"register", "round"}
        /\ imageUsage' \in [Image -> Seq(Pod)]
        /\ listed' \subseteq Pod \X Phase
        /\ UNCHANGED <<images, queueVars, task, announced, cluster>>
    <3>1. Started.imageUsage \in [Image -> Seq(Pod)]
      BY DEF Started
    <3>2. {<<p, pod[p]>> : p \in {q \in Pod : pod[q] \notin {"absent", "gone"}}} \subseteq Pod \X Phase
      BY Types
    <3> QED
      BY <1>4, <3>1, <3>2, Types DEF getPods, CallSucceeds, CallFails, queueVars
  <2>2. Outstanding = {}
    BY <2>1 DEF NInv, StartOK
  <2>3. events' \in 0..MaxEvents
    BY <2>1, EventType
  <2> QED
    BY <2>1, <2>2, <2>3, Types, QuietStep, ControllersSame DEF cluster
<1> QED
  BY <1>1, <1>2, <1>3, <1>4

\* Pods are announced and registered.
LEMMA PodsNInv ==
    ASSUME NInv,
           \/ \E p \in Pod : PodCreated(p)
           \/ \E p \in Pod, o \in Origin : WaiterRuns(p, o) \/ WaiterFails(p, o)
    PROVE  NInv' /\ UNCHANGED <<dispatching, worker>>
<1>1. ASSUME NEW p \in Pod, PodCreated(p)
      PROVE  NInv' /\ UNCHANGED <<dispatching, worker>>
  <2>1. /\ announced' = announced \cup {p} /\ SeeTo(p, "watch", pod[p])
        /\ UNCHANGED <<main, listed, images, imageUsage, queueVars, cluster, events>>
    BY <1>1 DEF PodCreated
  <2>2. task' \in [Pod \X Origin -> TaskState]
    BY <2>1, SeeToType DEF Origin
  <2>3. main' \in {"getImages", "getPods", "register", "round", "watch"}
    BY <2>1 DEF NInv, TypeOK
  <2> QED
    BY <2>1, <2>2, <2>3, Types, QuietStep, ControllersSame DEF cluster
<1>2. ASSUME NEW p \in Pod, NEW o \in Origin, waitPodRunning(p, o) \/ WaiterFails(p, o)
      PROVE  NInv' /\ UNCHANGED <<dispatching, worker>>
  <2>1. /\ \/ task' = [task EXCEPT ![<<p, o>>] = [pc |-> "waited", left |-> Containers[p]]]
           \/ task' = [task EXCEPT ![<<p, o>>] = NoTask]
        /\ Event \/ UNCHANGED events
        /\ missed' \subseteq missed \cup {p}
        /\ UNCHANGED <<main, listed, images, imageUsage, queueVars, announced, pod, label, hub,
                       controllers>>
    BY <1>2 DEF waitPodRunning, WaiterFails, CallFails, cluster
  <2>2. [pc |-> "waited", left |-> Containers[p]] \in TaskState /\ NoTask \in TaskState
    BY Constants, NoTaskType DEF TaskState
  <2>3. task' \in [Pod \X Origin -> TaskState]
    BY <2>1, <2>2, Types
  <2>4. main' \in {"getImages", "getPods", "register", "round", "watch"}
    BY <2>1 DEF NInv, TypeOK
  <2>5. events' \in 0..MaxEvents
    BY <2>1, EventType
  <2> QED
    BY <2>1, <2>3, <2>4, <2>5, Types, QuietStep, ControllersSame
<1>3. ASSUME NEW p \in Pod, NEW o \in Origin, registerPodUsage(p, o)
      PROVE  NInv' /\ UNCHANGED <<dispatching, worker>>
  <2> DEFINE g == <<p, o>>
             t == task[g]
             i == Head(t.left)
  <2>1. /\ t.left # <<>>
        /\ imageUsage' = [imageUsage EXCEPT ![i] = Append(@, p)]
        /\ task' = [task EXCEPT ![g] = IF Len(t.left) = 1 THEN NoTask ELSE [t EXCEPT !.left = Tail(@)]]
        /\ UNCHANGED <<main, listed, images, queueVars, announced, cluster, events>>
    BY <1>3 DEF registerPodUsage
  <2>2. g \in Pod \X Origin /\ t \in TaskState
    BY Types
  <2>3. t.left \in Seq(Image)
    BY <2>2 DEF TaskState
  <2>4. i \in Image /\ Tail(t.left) \in Seq(Image)
    BY <2>1, <2>3
  <2>5. [t EXCEPT !.left = Tail(@)] \in TaskState
    BY <2>2, <2>4 DEF TaskState
  <2>6. task' \in [Pod \X Origin -> TaskState]
    BY <2>1, <2>2, <2>5, NoTaskType, Types
  <2> HIDE DEF i, t, g
  <2>7. imageUsage[i] \in Seq(Pod)
    BY <2>4, Types
  <2>8. Append(imageUsage[i], p) \in Seq(Pod) /\ Append(imageUsage[i], p) # <<>>
    BY <2>7
  <2>9. imageUsage' \in [Image -> Seq(Pod)] /\ imageUsage'[i] # <<>>
        /\ \A k \in Image : k # i => imageUsage'[k] = imageUsage[k]
    BY <2>1, <2>4, <2>8, Types
  <2>10. \A j \in Outstanding : j.name \in Image /\ imageUsage[j.name] # <<>> => imageUsage'[j.name] # <<>>
    BY <2>9
  <2>11. main' \in {"getImages", "getPods", "register", "round", "watch"}
    BY <2>1 DEF NInv, TypeOK
  <2> QED
    BY <2>1, <2>6, <2>9, <2>10, <2>11, Types, QuietStep, ControllersSame DEF cluster
<1> QED
  BY <1>1, <1>2, <1>3 DEF WaiterRuns

\* Pods and results come and go.
LEMMA ClusterNInv ==
    ASSUME NInv,
           \/ \E p \in Pod : PodStarts(p) \/ PodGoes(p)
           \/ \E i \in PullSpec : HubChanges(i)
    PROVE  NInv' /\ UNCHANGED <<dispatching, worker>>
<1>1. /\ UNCHANGED <<memory, label, missed, controllers>>
      /\ Event \/ UNCHANGED events
  BY DEF PodStarts, PodGoes, HubChanges
<1>2. UNCHANGED <<main, listed, images, imageUsage, queueVars, task, announced>>
  BY <1>1 DEF memory
<1>3. pod' \in [Pod -> Phase]
  BY Types DEF PodStarts, PodGoes, HubChanges, Phase
<1>4. hub' \in [PullSpec -> Count \cup {None}]
  BY Types DEF PodStarts, PodGoes, HubChanges
<1>5. events' \in 0..MaxEvents
  BY <1>1, EventType
<1>6. main' \in {"getImages", "getPods", "register", "round", "watch"}
  BY <1>2 DEF NInv, TypeOK
<1> QED
  BY <1>1, <1>2, <1>3, <1>4, <1>5, <1>6, Types, QuietStep, ControllersSame

-----------------------------------------------------------------------------
(***************************************************************************)
(* Rounds.                                                                 *)
(***************************************************************************)

\* A round starts in a slot that no outstanding job has.
LEMMA StartRoundNInv ==
    ASSUME NInv, NEW s \in Slot, NEW n \in 0..MaxRounds, n = 0 <=> s = "load",
           \A j \in Outstanding : j.slot # n,
           StartRound(s, n), main' \in {"round", "watch"},
           UNCHANGED <<listed, images, imageUsage, dispatching, worker, task, announced, cluster>>,
           events' \in 0..MaxEvents
    PROVE  NInv' /\ UNCHANGED <<dispatching, worker>>
<1> DEFINE r == [pc |-> "images", todo |-> ScanImage, slot |-> n]
<1>1. r \in RoundState /\ r.pc = "images" /\ r.todo = ScanImage /\ r.slot = n
  BY DEF RoundState
<1> HIDE DEF r
<1>2. round' = [round EXCEPT ![s] = r]
  BY DEF StartRound, r
<1>3. /\ round' \in [Slot -> RoundState] /\ round'[s] = r
      /\ \A u \in Slot : u # s => round'[u] = round[u]
  BY <1>1, <1>2, Types
<1>4. Outstanding' = Outstanding
  BY DEF Outstanding
<1>5. RoundsOK'
  <2> SUFFICES ASSUME NEW u \in Slot PROVE RoundOK(u)'
    BY DEF RoundsOK, Slot
  <2>1. CASE u = s
    BY <1>1, <1>3, <1>4, <2>1 DEF RoundOK
  <2>2. CASE u # s
    <3>1. RoundOK(u) /\ round'[u] = round[u]
      BY <1>3, <2>2 DEF NInv, RoundsOK, Slot
    <3> QED
      BY <1>4, <3>1 DEF RoundOK
  <2> QED
    BY <2>1, <2>2
<1>6. WorkersOK' /\ UsageOK' /\ StartOK'
  BY <1>4 DEF NInv, WorkersOK, UsageOK, StartOK
<1>7. TypeOK'
  <2>1. round' \in [{"load", "ticker"} -> [pc : {"idle", "images", "pods"},
                    todo : SUBSET (ScanImage \cup Image), slot : 0..MaxRounds]]
    BY <1>3 DEF Slot, RoundState
  <2> QED
    BY <2>1, ControllersSame DEF NInv, TypeOK, cluster
<1> QED
  BY <1>5, <1>6, <1>7 DEF NInv

\* Load's round starts when nothing is outstanding; the ticker's takes a slot
\* of its own.
LEMMA RoundStartsNInv ==
    ASSUME NInv, Tick \/ PodsLoaded \/ (getPods /\ round' # round)
    PROVE  NInv' /\ UNCHANGED <<dispatching, worker>>
<1>1. CASE Tick
  <2>1. PICK n \in 1..MaxRounds : (\A j \in Outstanding : j.slot # n) /\ StartRound("ticker", n)
    BY <1>1 DEF Tick
  <2>2. /\ main \in {"round", "watch"}
        /\ UNCHANGED <<main, listed, images, imageUsage, dispatching, worker, task,
                       announced, cluster, events>>
    BY <1>1 DEF Tick
  <2>3. n \in 0..MaxRounds /\ n # 0
    BY Constants
  <2> QED
    BY <2>1, <2>2, <2>3, Types, StartRoundNInv DEF Slot
<1>2. CASE PodsLoaded \/ (getPods /\ round' # round)
  <2>1. /\ main \in {"getPods", "register"} /\ main' = "round" /\ StartRound("load", 0)
        /\ UNCHANGED <<listed, images, imageUsage, dispatching, worker, task, announced, cluster>>
        /\ (Event \/ UNCHANGED events)
    BY <1>2 DEF PodsLoaded, getPods, CallFails
  <2>2. Outstanding = {}
    BY <2>1 DEF NInv, StartOK
  <2>3. 0 \in 0..MaxRounds /\ events' \in 0..MaxEvents
    BY <2>1, Constants, EventType
  <2> QED
    BY <2>1, <2>2, <2>3, StartRoundNInv DEF Slot
<1> QED
  BY <1>1, <1>2

\* A visit queues at most one job, which nobody else has.
LEMMA VisitNInv ==
    ASSUME NInv, NEW s \in Slot, NEW x \in ScanImage \cup Image, Visit(s, x)
    PROVE  /\ NInv' /\ UNCHANGED worker
           /\ \/ UNCHANGED dispatching
              \/ \E j \in Job \ Outstanding : dispatching' = dispatching \cup {j}
<1> DEFINE r == round[s]
           q == AfterVisit(r, x)
           new == [name |-> x, slot |-> r.slot]
           J == IF Known(x) THEN {new} ELSE {}
<1>1. /\ x \in r.todo /\ dispatching' = dispatching \cup J /\ round' = [round EXCEPT ![s] = q]
      /\ UNCHANGED <<main, listed, images, imageUsage, worker, task, announced, cluster, events>>
  BY DEF Visit, dispatch
<1>2. r \in RoundState /\ RoundOK(s)
  BY Types DEF NInv, RoundsOK, Slot
<1>3. new \in Job /\ new.name = x /\ new.slot = r.slot
  BY <1>2 DEF Job, RoundState
<1>4. r.pc \in {"images", "pods"}
  BY <1>1, <1>2 DEF RoundOK, RoundState, NoRound
<1>5. \A j \in Outstanding : j.slot = r.slot => j.name \notin r.todo
  BY <1>2, <1>4 DEF RoundOK
<1>6. new \notin Outstanding
  BY <1>1, <1>3, <1>5
<1>7. J \subseteq Job /\ \A j \in J : j = new /\ Known(x)
  BY <1>3
<1>8. /\ q \in RoundState
      /\ \/ /\ q.pc = r.pc /\ q.slot = r.slot /\ q.todo = r.todo \ {x}
         \/ /\ r.pc = "images" /\ q.pc = "pods" /\ q.slot = r.slot /\ q.todo = Image
            /\ r.todo = {x}
         \/ q = NoRound
  <2>1. CASE r.todo # {x}
    BY <1>2, <2>1 DEF AfterVisit, RoundState
  <2>2. CASE r.todo = {x} /\ r.pc = "images"
    BY <1>2, <2>2 DEF AfterVisit, RoundState
  <2>3. CASE r.todo = {x} /\ r.pc # "images"
    <3>1. NoRound \in RoundState
      BY Constants DEF NoRound, RoundState
    <3> QED
      BY <2>3, <3>1 DEF AfterVisit
  <2> QED
    BY <2>1, <2>2, <2>3
<1> HIDE DEF q, J, new
<1>9. /\ round' \in [Slot -> RoundState] /\ round'[s] = q
      /\ \A u \in Slot : u # s => round'[u] = round[u]
  BY <1>1, <1>8, Types
<1>10. Outstanding' = Outstanding \cup J
  BY <1>1 DEF Outstanding
<1>11. RoundsOK'
  <2> SUFFICES ASSUME NEW u \in Slot PROVE RoundOK(u)'
    BY DEF RoundsOK, Slot
  <2>1. CASE u = s
    <3>1. /\ r.pc = "images" => r.todo \subseteq ScanImage
          /\ r.pc = "pods" => r.todo \subseteq Image
          /\ r.slot = 0 <=> s = "load"
      BY <1>2, <1>4 DEF RoundOK
    <3>2. \A j \in Outstanding : j.slot = r.slot =>
              j.name \notin r.todo /\ (r.pc = "images" => j.name \notin Image)
      BY <1>2, <1>4 DEF RoundOK
    <3>3. CASE q.pc = r.pc /\ q.slot = r.slot /\ q.todo = r.todo \ {x}
      <4>1. r.pc = "images" => x \notin Image
        BY <1>1, <3>1, Constants
      <4>2. ASSUME NEW j \in Outstanding', j.slot = q.slot
            PROVE  j.name \notin q.todo /\ (q.pc = "images" => j.name \notin Image)
        <5>1. CASE j \in Outstanding
          BY <3>2, <3>3, <4>2, <5>1
        <5>2. CASE j = new
          BY <1>3, <3>3, <4>1, <5>2
        <5> QED
          BY <1>7, <1>10, <5>1, <5>2
      <4> QED
        BY <1>4, <1>9, <2>1, <3>1, <3>3, <4>2 DEF RoundOK
    <3>4. CASE r.pc = "images" /\ q.pc = "pods" /\ q.slot = r.slot /\ q.todo = Image
      <4>1. x \notin Image
        BY <1>1, <3>1, <3>4, Constants
      <4>2. \A j \in Outstanding' : j.slot = q.slot => j.name \notin q.todo
        BY <1>3, <1>7, <1>10, <3>2, <3>4, <4>1
      <4> QED
        BY <1>9, <2>1, <3>1, <3>4, <4>2 DEF RoundOK
    <3>5. CASE q = NoRound
      BY <1>9, <2>1, <3>5 DEF RoundOK, NoRound
    <3> QED
      BY <1>8, <3>3, <3>4, <3>5
  <2>2. CASE u # s
    <3>1. RoundOK(u) /\ round'[u] = round[u] /\ round[u] \in RoundState
      BY <1>9, <2>2, Types DEF NInv, RoundsOK, Slot
    <3>2. round[u].pc # "idle" => round[u].slot # r.slot
      BY <1>2, <1>4, <2>2, <3>1 DEF RoundOK, Slot
    <3>3. ASSUME NEW j \in Outstanding', round[u].pc # "idle", j.slot = round[u].slot
          PROVE  /\ j.name \notin round[u].todo
                 /\ round[u].pc = "images" => j.name \notin Image
      <4>1. j \in Outstanding
        BY <1>3, <1>7, <1>10, <3>2, <3>3
      <4> QED
        BY <3>1, <3>3, <4>1 DEF RoundOK
    <3> QED
      BY <3>1, <3>3 DEF RoundOK
  <2> QED
    BY <2>1, <2>2
<1>12. StartOK'
  BY <1>1, <1>4 DEF NInv, StartOK, Slot
<1>13. UsageOK'
  <2>1. Known(x) /\ x \in Image => imageUsage[x] # <<>>
    BY Constants, Types DEF Known
  <2> QED
    BY <1>1, <1>3, <1>7, <1>10, <2>1 DEF NInv, UsageOK
<1>14. WorkersOK'
  BY <1>1 DEF NInv, WorkersOK
<1>15. TypeOK'
  <2>1. round' \in [{"load", "ticker"} -> [pc : {"idle", "images", "pods"},
                    todo : SUBSET (ScanImage \cup Image), slot : 0..MaxRounds]]
    BY <1>9 DEF Slot, RoundState
  <2> QED
    BY <1>1, <1>7, <2>1, ControllersSame DEF NInv, TypeOK, cluster
<1>16. UNCHANGED dispatching \/ \E j \in Job \ Outstanding : dispatching' = dispatching \cup {j}
  BY <1>1, <1>3, <1>6 DEF J
<1> QED
  BY <1>1, <1>11, <1>12, <1>13, <1>14, <1>15, <1>16 DEF NInv

-----------------------------------------------------------------------------
(***************************************************************************)
(* Workers.                                                                *)
(***************************************************************************)

\* A worker goes on with q; no job is made.
LEMMA WorkerStep ==
    ASSUME NInv, NEW w \in Worker, NEW q \in WorkerState,
           worker' = [worker EXCEPT ![w] = q], UNCHANGED sourceVars,
           q.pc = "pool" <=> q.job = NoJob, q.pc = "apply" => q.pods # <<>>,
           q.job \in Outstanding \cup {NoJob}, dispatching' \subseteq dispatching,
           label' \in [Pod -> Count \cup {None}], UNCHANGED <<pod, hub, missed, controllers>>,
           events' \in 0..MaxEvents
    PROVE  /\ NInv' /\ worker'[w] = q
           /\ \A v \in Worker : v # w => worker'[v] = worker[v]
<1>1. UNCHANGED <<main, listed, images, imageUsage, round, task, announced>>
  BY DEF sourceVars
<1>2. /\ worker' \in [Worker -> WorkerState] /\ worker'[w] = q
      /\ \A v \in Worker : v # w => worker'[v] = worker[v]
  BY Types
<1>3. Outstanding' \subseteq Outstanding
  BY <1>2 DEF Outstanding
<1>4. WorkersOK'
  BY <1>2 DEF NInv, WorkersOK
<1>5. RoundsOK'
  BY <1>1, <1>3 DEF NInv, RoundsOK, RoundOK
<1>6. StartOK'
  BY <1>1, <1>3 DEF NInv, StartOK
<1>7. UsageOK'
  BY <1>1, <1>3 DEF NInv, UsageOK
<1>8. ASSUME NEW v \in Worker
      PROVE  /\ worker'[v].pc \in {"pool", "results", "apply"}
             /\ worker'[v].job \in Job \cup {NoJob}
             /\ worker'[v].count \in Count \cup {None}
             /\ worker'[v].pods \in Seq(Pod)
             /\ worker'[v].pc = "apply" => worker'[v].pods # <<>>
  <2>1. worker'[v] \in WorkerState
    BY <1>2
  <2>2. worker'[v].pc = "apply" => worker'[v].pods # <<>>
    BY <1>2, Types
  <2> QED
    BY <2>1, <2>2 DEF WorkerState
<1>9. TypeOK'
  BY <1>1, <1>8, ControllersSame DEF NInv, TypeOK
<1> QED
  BY <1>1, <1>2, <1>4, <1>5, <1>6, <1>7, <1>9 DEF NInv

\* A worker of the pool.
LEMMA FreeIs ==
    Free \in WorkerState /\ Free.pc = "pool" /\ Free.job = NoJob
<1>1. <<>> \in Seq(Pod)
  OBVIOUS
<1> QED
  BY <1>1 DEF Free, WorkerState

\* A goroutine of dispatch gives its job to a worker of the pool.
LEMMA HandOverNInv ==
    ASSUME NInv, NEW w \in Worker, NEW j \in dispatching, HandOver(j, w)
    PROVE  /\ NInv' /\ worker[w].job = NoJob /\ worker'[w].job = j
           /\ \A v \in Worker : v # w => worker'[v] = worker[v]
           /\ dispatching' = dispatching \ {j}
<1> DEFINE q == [worker[w] EXCEPT !.pc = "results", !.job = j]
<1>1. /\ worker[w].pc = "pool" /\ dispatching' = dispatching \ {j}
      /\ worker' = [worker EXCEPT ![w] = q]
      /\ UNCHANGED <<sourceVars, cluster, events>>
  BY Types DEF HandOver
<1>2. worker[w].job = NoJob /\ j \in Job /\ j # NoJob /\ worker[w] \in WorkerState
  BY <1>1, Types, Constants DEF NInv, WorkersOK
<1>3. q \in WorkerState /\ q.pc = "results" /\ q.job = j
  BY <1>2 DEF WorkerState
<1>4. j \in Outstanding
  BY DEF Outstanding
<1> HIDE DEF q
<1>5. /\ NInv' /\ worker'[w] = q /\ \A v \in Worker : v # w => worker'[v] = worker[v]
  BY <1>1, <1>2, <1>3, <1>4, Types, WorkerStep DEF cluster
<1> QED
  BY <1>1, <1>2, <1>3, <1>5

\* A worker goes on with its job, or is free again.
WorkStep(w) ==
    /\ UNCHANGED dispatching
    /\ \A v \in Worker : v # w => worker'[v] = worker[v]
    /\ \/ worker'[w].job = worker[w].job
       \/ worker[w].job \in Job /\ worker'[w].job = NoJob

\* The results of a job are asked for.
LEMMA ResultsNInv ==
    ASSUME NInv, NEW w \in Worker, ScanResults(w)
    PROVE  NInv' /\ WorkStep(w)
<1> DEFINE i == worker[w].job.name
           q == [worker[w] EXCEPT !.pc = "apply", !.count = Results(w), !.pods = imageUsage[i]]
<1>1. /\ worker[w].pc = "results" /\ Results(w) # None
      /\ worker' = [worker EXCEPT ![w] = q]
      /\ UNCHANGED <<sourceVars, dispatching, cluster, events>>
  BY Types DEF ScanResults
<1>2. worker[w] \in WorkerState /\ worker[w].job # NoJob /\ worker[w].job \in Outstanding
  BY <1>1, Types DEF NInv, WorkersOK, Outstanding
<1>3. i \in PullSpec /\ i \in Image
  BY <1>1, Constants DEF Results
<1>4. Results(w) \in Count \cup {None}
  BY <1>3, Types DEF Results
<1>5. imageUsage[i] \in Seq(Pod) /\ imageUsage[i] # <<>>
  BY <1>2, <1>3, Types DEF NInv, UsageOK
<1>6. /\ q \in WorkerState /\ q.pc = "apply" /\ q.job = worker[w].job /\ q.pods # <<>>
  BY <1>2, <1>4, <1>5 DEF WorkerState
<1> HIDE DEF q
<1>7. NInv' /\ worker'[w] = q /\ \A v \in Worker : v # w => worker'[v] = worker[v]
  BY <1>1, <1>2, <1>6, Types, WorkerStep DEF cluster
<1> QED
  BY <1>1, <1>6, <1>7 DEF WorkStep

\* A job ends: there are no results, a call fails, or the last pod is patched.
LEMMA EndsNInv ==
    ASSUME NInv, NEW w \in Worker, worker[w].pc # "pool",
           worker' = [worker EXCEPT ![w] = Free],
           UNCHANGED <<sourceVars, dispatching, pod, hub, missed, controllers>>,
           label' \in [Pod -> Count \cup {None}], events' \in 0..MaxEvents
    PROVE  NInv' /\ WorkStep(w)
<1>1. worker[w].job \in Job
  BY Types DEF NInv, WorkersOK, TypeOK
<1>2. Free \in WorkerState /\ Free.pc = "pool" /\ Free.job = NoJob
  BY FreeIs
<1> HIDE DEF Free
<1>3. NInv' /\ worker'[w] = Free /\ \A v \in Worker : v # w => worker'[v] = worker[v]
  BY <1>2, WorkerStep
<1> QED
  BY <1>1, <1>2, <1>3 DEF WorkStep

\* There is a pod after the first of several.
LEMMA TailRest ==
    ASSUME NEW S, NEW s \in Seq(S), s # <<>>, Len(s) # 1
    PROVE  Tail(s) # <<>>
<1>1. Len(s) \in Nat /\ Len(s) # 0
  OBVIOUS
<1>2. Len(Tail(s)) = Len(s) - 1
  OBVIOUS
<1>3. Len(Tail(s)) # 0
  BY <1>1, <1>2
<1>4. Len(<<>>) = 0
  OBVIOUS
<1> QED
  BY <1>3, <1>4

\* The next pod is patched.
LEMMA ApplyNInv ==
    ASSUME NInv, NEW w \in Worker, ApplyAnnotationInfoToPods(w)
    PROVE  NInv' /\ WorkStep(w)
<1> DEFINE p == Head(worker[w].pods)
           q == [worker[w] EXCEPT !.pods = Tail(worker[w].pods)]
<1>1. /\ worker[w].pc = "apply" /\ UNCHANGED events
      /\ label' = [label EXCEPT ![p] = worker[w].count]
      /\ UNCHANGED <<sourceVars, dispatching, pod, hub, missed, controllers>>
  BY DEF ApplyAnnotationInfoToPods, CallSucceeds
<1>2. /\ worker[w] \in WorkerState /\ worker[w].pods # <<>> /\ worker[w].job # NoJob
      /\ worker[w].job \in Outstanding
  BY <1>1, Types DEF NInv, WorkersOK, Outstanding
<1>3. worker[w].pods \in Seq(Pod) /\ worker[w].count \in Count \cup {None}
  BY <1>2 DEF WorkerState
<1>4. p \in Pod /\ Tail(worker[w].pods) \in Seq(Pod)
  BY <1>2, <1>3
<1>5. label' \in [Pod -> Count \cup {None}]
  BY <1>1, <1>3, <1>4, Types
<1>6. CASE worker' = [worker EXCEPT ![w] = Free]
  BY <1>1, <1>5, <1>6, Types, EndsNInv
<1>7. CASE worker' = [worker EXCEPT ![w] = q] /\ Len(worker[w].pods) # 1
  <2>1. /\ q \in WorkerState /\ q.pc = "apply" /\ q.job = worker[w].job
        /\ q.pods = Tail(worker[w].pods)
    BY <1>1, <1>2, <1>4 DEF WorkerState
  <2>2. Tail(worker[w].pods) # <<>>
    BY <1>2, <1>3, <1>7, TailRest
  <2> HIDE DEF q
  <2>3. NInv' /\ worker'[w] = q /\ \A v \in Worker : v # w => worker'[v] = worker[v]
    BY <1>1, <1>2, <1>5, <1>7, <2>1, <2>2, Types, WorkerStep
  <2> QED
    BY <1>1, <2>1, <2>3 DEF WorkStep
<1>8. worker' = [worker EXCEPT ![w] = IF Len(worker[w].pods) = 1 THEN Free ELSE q]
  BY DEF ApplyAnnotationInfoToPods
<1> HIDE DEF q
<1> QED
  BY <1>6, <1>7, <1>8

\* All steps of a worker with a job.
LEMMA WorkNInv ==
    ASSUME NInv, NEW w \in Worker, JobEnds(w) \/ ScanResults(w) \/ WorkerPatches(w)
    PROVE  NInv' /\ WorkStep(w)
<1>1. CASE ScanResults(w)
  BY <1>1, ResultsNInv
<1>2. CASE ApplyAnnotationInfoToPods(w)
  BY <1>2, ApplyNInv
<1>3. CASE JobEnds(w) \/ PatchFails(w)
  <2>1. /\ worker[w].pc # "pool" /\ worker' = [worker EXCEPT ![w] = Free]
        /\ UNCHANGED <<sourceVars, dispatching, cluster>>
        /\ (Event \/ UNCHANGED events)
    BY <1>3 DEF JobEnds, PatchFails, CallSucceeds, CallFails
  <2>2. events' \in 0..MaxEvents
    BY <2>1, EventType
  <2> QED
    BY <2>1, <2>2, Types, EndsNInv DEF cluster
<1> QED
  BY <1>1, <1>2, <1>3 DEF WorkerPatches

-----------------------------------------------------------------------------
(***************************************************************************)
(* Controllers.                                                            *)
(***************************************************************************)

ScanState ==
    [pc : {"none", "stored", "apply", "reported"}, by : Controller \cup {None},
     image : PullSpec \cup {None}, count : Count \cup {None}, pods : Seq(Pod)]

\* What a scan's worker needs at each point.
ScanOK(s) ==
    /\ s.pc = "stored" => s.by # None /\ s.image # None
    /\ s.pc = "apply" => s.pods # <<>>

\* A scan before and after its worker patches pods, and no pods.
LEMMA NoScanType ==
    /\ NoScan \in ScanState /\ NoScan.pc = "none"
    /\ Reported \in ScanState /\ Reported.pc = "reported"
    /\ [i \in Image |-> <<>>] \in [Image -> Seq(Pod)]
<1>1. <<>> \in Seq(Pod)
  OBVIOUS
<1> QED
  BY <1>1 DEF NoScan, Reported, ScanState

\* ControllerTypes, scan by scan.
LEMMA ScansAre ==
    ASSUME NInv
    PROVE  /\ usage \in [Controller -> [Image -> Seq(Pod)]] /\ scan \in [Scan -> ScanState]
           /\ \A x \in Scan : scan[x] \in ScanState /\ ScanOK(scan[x])
  BY Types DEF ControllerTypes, ScanState, ScanOK

\* A controller's step that leaves the arbiter alone.
LEMMA ControllerStepNInv ==
    ASSUME NInv, UNCHANGED <<memory, pod, hub, missed>>, label' \in [Pod -> Count \cup {None}],
           Event \/ UNCHANGED events,
           usage' \in [Controller -> [Image -> Seq(Pod)]], scan' \in [Scan -> ScanState],
           \A x \in Scan : ScanOK(scan'[x])
    PROVE  NInv' /\ UNCHANGED <<dispatching, worker>>
<1>1. ControllerTypes'
  BY DEF ControllerTypes, ScanState, ScanOK
<1>2. UNCHANGED <<main, listed, images, imageUsage, queueVars, task, announced>>
  BY DEF memory
<1>3. events' \in 0..MaxEvents
  BY EventType
<1>4. main' \in {"getImages", "getPods", "register", "round", "watch"}
  BY <1>2 DEF NInv, TypeOK
<1> QED
  BY <1>1, <1>2, <1>3, <1>4, Types, QuietStep

\* The worker of one scan goes on with s.
LEMMA ScanStepNInv ==
    ASSUME NInv, NEW x \in Scan, NEW s \in ScanState, ScanOK(s), scan' = [scan EXCEPT ![x] = s],
           UNCHANGED <<memory, pod, hub, missed, usage>>, label' \in [Pod -> Count \cup {None}],
           Event \/ UNCHANGED events
    PROVE  NInv' /\ UNCHANGED <<dispatching, worker>>
<1>1. scan' \in [Scan -> ScanState] /\ \A y \in Scan : ScanOK(scan'[y])
  BY ScansAre
<1> QED
  BY <1>1, ScansAre, ControllerStepNInv

\* Registrations, scans and deaths of controllers.
LEMMA ControllersNInv ==
    ASSUME NInv, (\E c \in Controller : ControllerRuns(c)) \/ (\E x \in Scan : ScanRuns(x))
    PROVE  NInv' /\ UNCHANGED <<dispatching, worker>>
<1>1. ASSUME NEW c \in Controller, NEW p \in Pod, NEW i \in Image, ControllerRegisters(c, p, i)
      PROVE  NInv' /\ UNCHANGED <<dispatching, worker>>
  <2>1. /\ usage' = [usage EXCEPT ![c][i] = Append(@, p)]
        /\ UNCHANGED <<memory, pod, label, hub, missed, scan, events>>
    BY <1>1 DEF ControllerRegisters
  <2>2. usage[c] \in [Image -> Seq(Pod)] /\ usage[c][i] \in Seq(Pod)
    BY ScansAre
  <2>3. Append(usage[c][i], p) \in Seq(Pod)
    BY <2>2
  <2>4. usage' \in [Controller -> [Image -> Seq(Pod)]]
    BY <2>1, <2>2, <2>3, ScansAre
  <2> QED
    BY <2>1, <2>4, ScansAre, Types, ControllerStepNInv
<1>2. ASSUME NEW c \in Controller, NEW x \in Scan, NEW i \in PullSpec, ScanCompleted(x, c, i)
      PROVE  NInv' /\ UNCHANGED <<dispatching, worker>>
  <2> DEFINE s == [pc |-> "stored", by |-> c, image |-> i, count |-> hub[i], pods |-> <<>>]
  <2>1. scan' = [scan EXCEPT ![x] = s] /\ UNCHANGED <<memory, pod, label, hub, missed, usage, events>>
    BY <1>2 DEF ScanCompleted
  <2>2. hub[i] \in Count \cup {None} /\ <<>> \in Seq(Pod) /\ i # None /\ c # None
    BY Types, Constants
  <2>3. s \in ScanState /\ ScanOK(s)
    BY <2>2 DEF ScanState, ScanOK
  <2> HIDE DEF s
  <2> QED
    BY <2>1, <2>3, Types, ScanStepNInv
<1>3. ASSUME NEW c \in Controller, ControllerDies(c)
      PROVE  NInv' /\ UNCHANGED <<dispatching, worker>>
  <2>1. /\ usage' = [usage EXCEPT ![c] = [i \in Image |-> <<>>]]
        /\ scan' = [x \in Scan |-> IF scan[x].by = c THEN Reported ELSE scan[x]]
        /\ Event /\ UNCHANGED <<memory, pod, label, hub, missed>>
    BY <1>3 DEF ControllerDies
  <2>2. usage' \in [Controller -> [Image -> Seq(Pod)]]
    BY <2>1, ScansAre, NoScanType
  <2>3. ScanOK(Reported) /\ Reported \in ScanState
    BY NoScanType DEF ScanOK
  <2>4. scan' \in [Scan -> ScanState] /\ \A x \in Scan : ScanOK(scan'[x])
    BY <2>1, <2>3, ScansAre
  <2> QED
    BY <2>1, <2>2, <2>4, Types, ControllerStepNInv
<1>4. ASSUME NEW x \in Scan, ReadUsage(x)
      PROVE  NInv' /\ UNCHANGED <<dispatching, worker>>
  <2> DEFINE pods == usage[scan[x].by][scan[x].image]
             s == [scan[x] EXCEPT !.pc = "apply", !.pods = pods]
             t == IF pods = <<>> THEN Reported ELSE s
  <2>1. /\ scan[x].pc = "stored" /\ scan' = [scan EXCEPT ![x] = t]
        /\ UNCHANGED <<memory, pod, label, hub, missed, usage, events>>
    BY <1>4 DEF ReadUsage
  <2>2. scan[x] \in ScanState /\ scan[x].by # None /\ scan[x].image # None
    BY <2>1, ScansAre DEF ScanOK
  <2>3. scan[x].by \in Controller /\ scan[x].image \in Image
    BY <2>2, Constants DEF ScanState
  <2>4. pods \in Seq(Pod)
    BY <2>3, ScansAre
  <2>5. s \in ScanState /\ s.pc = "apply" /\ s.pods = pods
    BY <2>2, <2>4 DEF ScanState
  <2>6. t \in ScanState /\ ScanOK(t)
    BY <2>5, NoScanType DEF ScanOK
  <2> HIDE DEF t
  <2> QED
    BY <2>1, <2>6, Types, ScanStepNInv
<1>5. ASSUME NEW x \in Scan, ScanPatches(x)
      PROVE  NInv' /\ UNCHANGED <<dispatching, worker>>
  <2> DEFINE p == Head(scan[x].pods)
             s == [scan[x] EXCEPT !.pods = Tail(scan[x].pods)]
             t == IF Len(scan[x].pods) = 1 THEN Reported ELSE s
  <2>1. /\ scan[x].pc = "apply" /\ scan' = [scan EXCEPT ![x] = t]
        /\ label' = [label EXCEPT ![p] = scan[x].count]
        /\ UNCHANGED <<memory, pod, hub, missed, usage, events>>
    BY <1>5 DEF ScanPatches, CallSucceeds
  <2>2. scan[x] \in ScanState /\ scan[x].pods # <<>>
    BY <2>1, ScansAre DEF ScanOK
  <2>3. scan[x].pods \in Seq(Pod) /\ scan[x].count \in Count \cup {None}
    BY <2>2 DEF ScanState
  <2>4. p \in Pod /\ Tail(scan[x].pods) \in Seq(Pod)
    BY <2>2, <2>3
  <2>5. s \in ScanState /\ s.pc = "apply" /\ s.pods = Tail(scan[x].pods)
    BY <2>1, <2>2, <2>4 DEF ScanState
  <2>6. t \in ScanState /\ ScanOK(t)
    BY <2>2, <2>3, <2>5, TailRest, NoScanType DEF ScanOK
  <2>7. label' \in [Pod -> Count \cup {None}]
    BY <2>1, <2>3, <2>4, Types
  <2> HIDE DEF t
  <2> QED
    BY <2>1, <2>6, <2>7, ScanStepNInv
<1>6. ASSUME NEW x \in Scan, ScanPatchFails(x)
      PROVE  NInv' /\ UNCHANGED <<dispatching, worker>>
  <2>1. /\ scan' = [scan EXCEPT ![x] = Reported] /\ (Event \/ UNCHANGED events)
        /\ UNCHANGED <<memory, pod, label, hub, missed, usage>>
    BY <1>6 DEF ScanPatchFails, CallSucceeds, CallFails
  <2>2. ScanOK(Reported) /\ Reported \in ScanState
    BY NoScanType DEF ScanOK
  <2> QED
    BY <2>1, <2>2, Types, ScanStepNInv
<1> QED
  BY <1>1, <1>2, <1>3, <1>4, <1>5, <1>6 DEF ControllerRuns, ScanRuns

-----------------------------------------------------------------------------
(***************************************************************************)
(* The invariant, and the abstract pool.                                   *)
(***************************************************************************)

\* An arbiter that has just been started, for the first time or after a crash.
LEMMA StartedIs ==
    /\ Started.main = "getImages"
    /\ Started.round \in [Slot -> RoundState] /\ \A s \in Slot : Started.round[s] = NoRound
    /\ Started.worker \in [Worker -> WorkerState] /\ \A w \in Worker : Started.worker[w] = Free
    /\ Started.imageUsage \in [Image -> Seq(Pod)]
    /\ Started.task \in [Pod \X Origin -> TaskState]
<1>1. NoRound \in RoundState
  BY Constants DEF NoRound, RoundState
<1>2. /\ Started.main = "getImages" /\ Started.round = [s \in {"load", "ticker"} |-> NoRound]
      /\ Started.worker = [w \in Worker |-> Free] /\ Started.imageUsage = [i \in Image |-> <<>>]
      /\ Started.task = [g \in Pod \X Origin |-> NoTask]
  BY DEF Started
<1>3. <<>> \in Seq(Pod)
  OBVIOUS
<1> QED
  BY <1>1, <1>2, <1>3, FreeIs, NoTaskType DEF Slot

\* The memory of an arbiter that has just been started.
Fresh ==
    /\ main = Started.main
    /\ listed = {}
    /\ images = {}
    /\ imageUsage = Started.imageUsage
    /\ round = Started.round
    /\ dispatching = {}
    /\ worker = Started.worker
    /\ task = Started.task
    /\ announced = {}

ClusterTypes ==
    /\ pod \in [Pod -> Phase]
    /\ label \in [Pod -> Count \cup {None}]
    /\ hub \in [PullSpec -> Count \cup {None}]
    /\ missed \subseteq Pod
    /\ ControllerTypes
    /\ events \in 0..MaxEvents

\* A process that has just been started satisfies the invariant.
LEMMA FreshNInv == Fresh /\ ClusterTypes => NInv
<1> SUFFICES ASSUME Fresh, ClusterTypes PROVE NInv
  OBVIOUS
<1>1. /\ main = "getImages" /\ round \in [Slot -> RoundState] /\ \A s \in Slot : round[s] = NoRound
      /\ worker \in [Worker -> WorkerState] /\ \A w \in Worker : worker[w] = Free
      /\ imageUsage \in [Image -> Seq(Pod)] /\ task \in [Pod \X Origin -> TaskState]
      /\ dispatching = {} /\ listed = {} /\ images = {} /\ announced = {}
  BY StartedIs DEF Fresh
<1>2. /\ Free.pc = "pool" /\ Free.job = NoJob /\ Free \in WorkerState
      /\ NoRound.pc = "idle"
  BY FreeIs DEF NoRound
<1>3. Outstanding = {}
  BY <1>1, <1>2 DEF Outstanding
<1>4. TypeOK
  <2>1. round \in [{"load", "ticker"} -> [pc : {"idle", "images", "pods"},
                    todo : SUBSET (ScanImage \cup Image), slot : 0..MaxRounds]]
    BY <1>1 DEF Slot, RoundState
  <2>2. \A w \in Worker :
            /\ worker[w].pc \in {"pool", "results", "apply"} /\ worker[w].job \in Job \cup {NoJob}
            /\ worker[w].count \in Count \cup {None} /\ worker[w].pods \in Seq(Pod)
            /\ worker[w].pc = "apply" => worker[w].pods # <<>>
    BY <1>1, <1>2 DEF WorkerState
  <2>3. \A g \in Pod \X Origin :
            task[g].pc \in {"none", "wait", "waited", "process"} /\ task[g].left \in Seq(Image)
    BY <1>1 DEF TaskState
  <2> QED
    BY <1>1, <2>1, <2>2, <2>3 DEF TypeOK, ClusterTypes
<1>5. WorkersOK
  BY <1>1, <1>2 DEF WorkersOK
<1>6. RoundsOK
  BY <1>1, <1>2, <1>3 DEF RoundsOK, RoundOK, Slot
<1>7. StartOK /\ UsageOK
  BY <1>1, <1>2, <1>3 DEF StartOK, UsageOK, Slot
<1> QED
  BY <1>1, <1>4, <1>5, <1>6, <1>7 DEF NInv

\* The first start.
LEMMA InitNInv ==
    ASSUME Init
    PROVE  NInv
<1>1. Fresh
  BY DEF Init, Fresh
<1>2. pod \in [Pod -> Phase] /\ hub \in [PullSpec -> Count \cup {None}]
  BY NotificationAssumption DEF Init, NotificationAssumption, Phase
<1>3. label \in [Pod -> Count \cup {None}] /\ missed \subseteq Pod /\ events \in 0..MaxEvents
  BY Constants DEF Init
<1>4. ControllerTypes
  BY NoScanType DEF Init, ControllerTypes, ScanState
<1> QED
  BY <1>1, <1>2, <1>3, <1>4, FreshNInv DEF ClusterTypes

\* The process dies and is started again.
LEMMA CrashNInv ==
    ASSUME NInv, Crash
    PROVE  NInv'
<1>1. Fresh' /\ UNCHANGED <<pod, label, hub, controllers>> /\ missed' = {} /\ Event
  BY DEF Crash, Fresh
<1>2. ClusterTypes'
  BY <1>1, Types, EventType, ControllersSame DEF ClusterTypes
<1> QED
  BY <1>1, <1>2, FreshNInv, PTL

\* What a step does to the jobs.
PoolStep ==
    \/ UNCHANGED dispatching /\ \A v \in Worker : worker'[v].job = worker[v].job
    \/ /\ UNCHANGED worker
       /\ \E j \in Job \ Outstanding : dispatching' = dispatching \cup {j}
    \/ \E w \in Worker, j \in dispatching :
          /\ worker[w].job = NoJob /\ worker'[w].job = j
          /\ \A v \in Worker : v # w => worker'[v] = worker[v]
          /\ dispatching' = dispatching \ {j}
    \/ \E w \in Worker : WorkStep(w)
    \/ Crash

\* One case for each action.
LEMMA NextNInv ==
    ASSUME NInv, [Next]_vars
    PROVE  NInv' /\ PoolStep
<1>1. CASE MainRuns \/ TickerRuns
  <2>1. ASSUME NEW s \in Slot, NEW x \in ScanImage \cup Image, Visit(s, x)
        PROVE  NInv' /\ PoolStep
    BY <2>1, VisitNInv DEF PoolStep
  <2>2. CASE Tick \/ PodsLoaded \/ (getPods /\ round' # round)
    BY <2>2, RoundStartsNInv DEF PoolStep
  <2>3. CASE \/ getImages \/ LoadReturns
             \/ \E p \in Pod, ph \in Phase : LoadPod(p, ph)
             \/ getPods /\ UNCHANGED round
    BY <2>3, MainNInv DEF PoolStep
  <2> QED
    BY <1>1, <2>1, <2>2, <2>3 DEF MainRuns, TickerRuns, Slot
<1>2. ASSUME NEW w \in Worker, NEW j \in dispatching, HandOver(j, w)
      PROVE  NInv' /\ PoolStep
  BY <1>2, HandOverNInv DEF PoolStep
<1>3. ASSUME NEW w \in Worker, JobEnds(w) \/ ScanResults(w) \/ WorkerPatches(w)
      PROVE  NInv' /\ PoolStep
  BY <1>3, WorkNInv DEF PoolStep
<1>4. CASE \/ \E p \in Pod : PodCreated(p)
           \/ \E p \in Pod, o \in Origin : WaiterRuns(p, o) \/ WaiterFails(p, o)
  BY <1>4, PodsNInv DEF PoolStep
<1>5. CASE Crash
  BY <1>5, CrashNInv DEF PoolStep
<1>6. CASE \/ \E p \in Pod : PodStarts(p) \/ PodGoes(p)
           \/ \E i \in PullSpec : HubChanges(i)
  BY <1>6, ClusterNInv DEF PoolStep
<1>7. CASE (\E c \in Controller : ControllerRuns(c)) \/ (\E x \in Scan : ScanRuns(x))
  BY <1>7, ControllersNInv DEF PoolStep
<1>8. CASE UNCHANGED vars
  <2>1. UNCHANGED <<main, listed, images, imageUsage, queueVars, task, announced, pod, label,
                    hub, missed, controllers, events>>
    BY <1>8 DEF vars, memory, cluster
  <2>2. main' \in {"getImages", "getPods", "register", "round", "watch"}
    BY <2>1 DEF NInv, TypeOK
  <2> QED
    BY <2>1, <2>2, Types, QuietStep, ControllersSame DEF PoolStep
<1> QED
  BY <1>1, <1>2, <1>3, <1>4, <1>5, <1>6, <1>7, <1>8 DEF Next

\* NInv is an inductive invariant, in spite of crashes.
THEOREM NotificationInvariant == Spec => []NInv
<1>1. Init => NInv
  BY InitNInv
<1>2. NInv /\ [Next]_vars => NInv'
  BY NextNInv
<1> QED
  BY <1>1, <1>2, PTL DEF Spec

\* Type correctness.  A worker that patches always has a pod to patch: the
\* index into imageUsage is within bounds whatever is registered meanwhile.
THEOREM NotificationTypeCorrect == Spec => []TypeOK
<1>1. NInv => TypeOK
  BY DEF NInv
<1> QED
  BY <1>1, NotificationInvariant, PTL

\* The arbiter's dispatcher and workers implement a job pool that forgets its
\* jobs in a crash: no job is queued while it is outstanding, every other one
\* is given to one worker, once.
THEOREM ArbiterImplementsPool == Spec => ServesAsPool
<1> DEFINE running == [w \in Worker |-> IF worker[w].job = NoJob THEN None ELSE worker[w].job]
<1>1. Init => Pool!Init
  <2> SUFFICES ASSUME Init PROVE Pool!Init
    OBVIOUS
  <2>1. dispatching = {} /\ \A w \in Worker : worker[w].job = NoJob
    BY StartedIs, FreeIs DEF Init
  <2> QED
    BY <2>1 DEF Pool!Init
<1>2. NInv /\ [Next]_vars => [Pool!Next \/ Crash]_<<dispatching, Pool!vars>>
  <2> SUFFICES ASSUME NInv, [Next]_vars
               PROVE  Pool!Next \/ Crash \/ UNCHANGED <<dispatching, Pool!vars>>
    OBVIOUS
  <2>1. PoolStep
    BY NextNInv
  <2>2. \A w \in Worker : worker[w].job \in Job \cup {NoJob}
    BY DEF NInv, TypeOK
  <2>3. CASE UNCHANGED dispatching /\ \A v \in Worker : worker'[v].job = worker[v].job
    <3>1. UNCHANGED running
      BY <2>3
    <3> QED
      BY <2>3, <3>1 DEF Pool!vars
  <2>4. ASSUME NEW j \in Job \ Outstanding, UNCHANGED worker, dispatching' = dispatching \cup {j}
        PROVE  Pool!Next
    <3>1. UNCHANGED running
      BY <2>4
    <3>2. j \notin dispatching \cup {running[w] : w \in Worker}
      BY <2>4, Constants DEF Outstanding
    <3>3. Pool!Submit(j)
      BY <2>4, <3>1, <3>2 DEF Pool!Submit
    <3> QED
      BY <3>3 DEF Pool!Next
  <2>5. ASSUME NEW w \in Worker, NEW j \in dispatching,
               worker[w].job = NoJob, worker'[w].job = j,
               \A v \in Worker : v # w => worker'[v] = worker[v],
               dispatching' = dispatching \ {j}
        PROVE  Pool!Next
    <3>1. j \in Job /\ j # NoJob
      BY Types, Constants
    <3>2. running[w] = None /\ running' = [running EXCEPT ![w] = j]
      BY <2>5, <3>1
    <3>3. Pool!Take(w, j)
      BY <2>5, <3>2 DEF Pool!Take
    <3> QED
      BY <3>1, <3>3 DEF Pool!Next
  <2>6. ASSUME NEW w \in Worker, WorkStep(w)
        PROVE  Pool!Next \/ UNCHANGED <<dispatching, Pool!vars>>
    <3>1. CASE worker'[w].job = worker[w].job
      <4>1. UNCHANGED running /\ UNCHANGED dispatching
        BY <2>6, <3>1 DEF WorkStep
      <4> QED
        BY <4>1 DEF Pool!vars
    <3>2. CASE worker[w].job \in Job /\ worker'[w].job = NoJob
      <4>1. running[w] # None /\ running' = [running EXCEPT ![w] = None] /\ UNCHANGED dispatching
        BY <2>6, <3>2, Constants DEF WorkStep
      <4>2. Pool!Finish(w)
        BY <4>1 DEF Pool!Finish
      <4> QED
        BY <4>2 DEF Pool!Next
    <3> QED
      BY <2>6, <3>1, <3>2 DEF WorkStep
  <2> QED
    BY <2>1, <2>3, <2>4, <2>5, <2>6 DEF PoolStep
<1> QED
  BY <1>1, <1>2, NotificationInvariant, PTL DEF Spec, ServesAsPool
=============================================================================
