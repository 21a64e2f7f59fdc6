--------------------------- MODULE ScanContainerProofs ---------------------------
(***************************************************************************)
(* For every output a scanner may print: what is reported as done was      *)
(* announced by the container, which has exited and is removed.            *)
(***************************************************************************)
EXTENDS ScanContainer, TLAPS

\* What the goroutines know of one another: a part of a line is a part of a
\* printed one, the reader has seen what it says, and the worker collects a
\* result only when the container is gone.
Knowledge ==
    /\ partial => delivered < printed
    /\ completed => Announced
    /\ result # "none" => launch \in {"returned", "crashed"}
    /\ launch = "collect" => container = "removed"
    /\ result = "good" => completed /\ container = "removed"
    /\ verdict = "done" => result = "good"

IInv == TypeOK /\ Knowledge

\* Every step of the worker, of the engine and of the pipe's goroutines keeps
\* the shape of the state.
LEMMA TypeStep == ASSUME TypeOK, Next PROVE TypeOK'
<1> USE ScriptAssumption DEF TypeOK, Line
<1>1. CASE Worker
  BY <1>1 DEF Worker, CreateFails, CreateContainer, StartContainer, WaitContainer,
     RemoveContainer, EngineFails, Collect, Report, engineVars, pipeVars
<1>2. CASE Pipe
  <2>1. CASE AttachConnects \/ DeliverPart \/ PollAbort
    BY <1>2, <2>1 DEF AttachConnects, DeliverPart, CanDeliver, PollAbort, workerVars, engineVars
  <2>2. CASE Deliver
    <3>1. delivered' \in 0..printed'
      BY <2>2 DEF Deliver, CanDeliver, engineVars
    <3>2. reader' \in {"put", "read"}
      BY <2>2 DEF Deliver
    <3>3. completed' \in BOOLEAN /\ partial' \in BOOLEAN
      BY <2>2 DEF Deliver
    <3>4. UNCHANGED <<launch, result, verdict, container, printed, attach, closed, abort, poller>>
      BY <2>2 DEF Deliver, workerVars, engineVars
    <3> QED BY <3>1, <3>2, <3>3, <3>4
  <2>3. CASE LastLine
    <3>1. launch' \in {launch, "crashed"}
      BY <2>3 DEF LastLine
    <3>2. completed' \in BOOLEAN
      BY <2>3 DEF LastLine
    <3>3. reader' = "put" /\ UNCHANGED <<result, verdict, container, printed, attach,
                                         delivered, partial, closed, abort, poller>>
      BY <2>3 DEF LastLine, engineVars
    <3> QED BY <3>1, <3>2, <3>3
  <2> QED BY <1>2, <2>1, <2>2, <2>3 DEF Pipe
<1>3. CASE AttachReturns \/ ContainerPrints \/ ContainerExits
  BY <1>3 DEF AttachReturns, ContainerPrints, ContainerExits, workerVars, engineVars, pipeVars
<1> QED BY <1>1, <1>2, <1>3 DEF Next

\* What was announced stays announced: nothing printed is taken back.
LEMMA AnnouncedStays ==
    ASSUME TypeOK, Announced, printed' \in Nat, printed <= printed'
    PROVE  Announced'
BY DEF Announced, TypeOK

\* Every step keeps what the goroutines know of one another.
LEMMA KnowledgeStep == ASSUME IInv, Next PROVE Knowledge'
<1> USE DEF IInv, Knowledge
<1>1. CASE Worker
  <2>1. Announced' <=> Announced
    BY <1>1 DEF Worker, CreateFails, CreateContainer, StartContainer, WaitContainer,
       RemoveContainer, EngineFails, Collect, Report, engineVars, Announced
  <2> QED
    BY <1>1, <2>1 DEF Worker, CreateFails, CreateContainer, StartContainer, WaitContainer,
       RemoveContainer, EngineFails, Collect, Report, engineVars, pipeVars, TypeOK
<1>2. CASE Pipe
  <2>1. Announced' <=> Announced
    BY <1>2 DEF Pipe, AttachConnects, DeliverPart, Deliver, PollAbort, LastLine,
       engineVars, Announced
  <2>2. CASE AttachConnects \/ DeliverPart \/ PollAbort
    BY <2>1, <2>2 DEF AttachConnects, DeliverPart, CanDeliver, PollAbort,
       workerVars, engineVars
  <2>3. ASSUME delivered < printed, Script[delivered + 1] = "post" PROVE Announced
    BY <2>3 DEF Announced, TypeOK
  <2>4. CASE Deliver
    BY <2>1, <2>3, <2>4 DEF Deliver, CanDeliver, workerVars, engineVars, TypeOK
  <2>5. CASE LastLine
    BY <2>1, <2>3, <2>5 DEF LastLine, Alive, engineVars, TypeOK
  <2> QED BY <1>2, <2>2, <2>4, <2>5 DEF Pipe
<1>3. CASE ContainerPrints
  <2>1. printed' \in Nat /\ printed <= printed' /\ printed < printed'
    BY <1>3 DEF ContainerPrints, TypeOK
  <2>2. Announced => Announced'
    BY <2>1, AnnouncedStays
  <2> QED BY <1>3, <2>1, <2>2 DEF ContainerPrints, workerVars, pipeVars, TypeOK
<1>4. CASE AttachReturns \/ ContainerExits
  BY <1>4 DEF AttachReturns, ContainerExits, Announced, workerVars, engineVars, pipeVars
<1> QED BY <1>1, <1>2, <1>3, <1>4 DEF Next

\* The strengthened invariant holds in every reachable state.
THEOREM ContainerInvariant == Spec => []IInv
<1>1. Init => IInv
  <2>1. Len(Script) \in Nat
    BY ScriptAssumption
  <2>2. Init => TypeOK
    <3> SUFFICES ASSUME Init PROVE TypeOK
      OBVIOUS
    <3>1. printed \in 0..Len(Script) /\ delivered \in 0..printed
      BY <2>1 DEF Init
    <3>2. /\ partial \in BOOLEAN /\ completed \in BOOLEAN
          /\ closed \in BOOLEAN /\ abort \in BOOLEAN
      BY Zenon DEF Init
    <3> QED BY <3>1, <3>2 DEF Init, TypeOK
  <2>3. Init => Knowledge
    BY DEF Init, Knowledge
  <2> QED BY <2>2, <2>3 DEF IInv
<1>2. IInv /\ [Next]_vars => IInv'
  <2> SUFFICES ASSUME IInv, [Next]_vars PROVE IInv'
    OBVIOUS
  <2>1. CASE Next
    BY <2>1, TypeStep, KnowledgeStep DEF IInv
  <2>2. CASE UNCHANGED vars
    BY <2>2 DEF vars, IInv, TypeOK, Knowledge, Announced
  <2> QED BY <2>1, <2>2
<1> QED BY <1>1, <1>2, PTL DEF Spec

\* The worker, the pipe and its goroutines are in states launchContainer and
\* pipeOutput know, and no line is read that was not printed.
THEOREM ContainerTypeCorrect == Spec => []TypeOK
<1>1. IInv => TypeOK BY DEF IInv
<1> QED BY <1>1, ContainerInvariant, PTL

\* scanDone is sent only for a scan whose container announced its end, exited
\* and was removed.
THEOREM DoneIsTrue == Spec => []NoFalseDone
<1>1. IInv => NoFalseDone BY DEF IInv, Knowledge, NoFalseDone
<1> QED BY <1>1, ContainerInvariant, PTL
=============================================================================
