------------------------------ MODULE ScanContainer ------------------------------
(***************************************************************************)
(* One scan as the controller runs it: launchContainer and pipeOutput of   *)
(* controller/pkg/controller/docker.go, scan of scanimage.go, and what     *)
(* worker.go makes of the result.                                          *)
(*                                                                         *)
(* The Docker engine runs the container and streams what it prints.  Four  *)
(* goroutines are involved: the worker, which waits for the container;     *)
(* one that copies the stream into a pipe (AttachToContainer); one that    *)
(* looks once a second whether it is to close the pipe; one that reads     *)
(* lines from the pipe and finally sends its result on an unbuffered       *)
(* channel.  Nothing but the exit of the container tells them that the     *)
(* output is complete.                                                     *)
(*                                                                         *)
(* Lines are told apart as far as the reader does:                         *)
(*   "text"  of no interest           "post"  contains "Post Scan..."      *)
(*   "view"  contains the scan id     "long"  exceeds the scanner's token  *)
(* A scan id that the reader finds is left out; a "view" line that ends    *)
(* before its comma makes the reader slice up to -1, and the controller    *)
(* panics.                                                                 *)
(***************************************************************************)
EXTENDS Integers, Sequences

CONSTANT Script     \* what the container prints if it runs to its end

Line == {"text", "post", "view", "long"}

ASSUME ScriptAssumption == Script \in Seq(Line)

VARIABLES
    launch,     \* the worker, in launchContainer
    result,     \* what launchContainer has returned
    verdict,    \* what the worker reports to the arbiter
    container,  \* the container's state in the engine
    printed,    \* how many lines it has printed
    attach,     \* the copying goroutine
    delivered,  \* how many lines it has written to the pipe
    partial,    \* has it written a part of the next line?
    reader,     \* the reading goroutine
    completed,  \* its scan.completed
    closed,     \* is the read side of the pipe closed?
    abort,      \* the abort channel, of capacity 1, holds a token
    poller      \* the goroutine that watches the abort channel

vars == <<launch, result, verdict, container, printed, attach, delivered,
          partial, reader, completed, closed, abort, poller>>

engineVars == <<container, printed>>
pipeVars == <<attach, delivered, partial, reader, completed, closed, abort, poller>>
workerVars == <<launch, result, verdict>>

Init ==
    /\ launch = "create" /\ result = "none" /\ verdict = "none"
    /\ container = "none" /\ printed = 0
    /\ attach = "off" /\ delivered = 0 /\ partial = FALSE
    /\ reader = "off" /\ completed = FALSE
    /\ closed = FALSE /\ abort = FALSE /\ poller = "off"

\* A panic in any goroutine ends the process.
Alive == launch # "crashed"

-----------------------------------------------------------------------------
(***************************************************************************)
(* The worker.                                                             *)
(***************************************************************************)

\* No Docker client, the image is gone, the scanner cannot be pulled, or the
\* container cannot be created.
CreateFails ==
    /\ launch = "create"
    /\ launch' = "returned" /\ result' = "error"
    /\ UNCHANGED <<verdict, engineVars, pipeVars>>

\* CreateContainer, then pipeOutput starts the three goroutines.
CreateContainer ==
    /\ launch = "create"
    /\ launch' = "start"
    /\ container' = "created"
    /\ attach' = "connect" /\ reader' = "read" /\ poller' = "poll"
    /\ UNCHANGED <<result, verdict, printed, delivered, partial, completed, closed, abort>>

StartContainer ==
    /\ launch = "start"
    /\ launch' = "wait"
    /\ container' = "running"
    /\ UNCHANGED <<result, verdict, printed, pipeVars>>

WaitContainer ==
    /\ launch = "wait"
    /\ container = "exited"
    /\ launch' = "remove"
    /\ UNCHANGED <<result, verdict, engineVars, pipeVars>>

\* Mutant: the reader is not told that the container is gone.
RemoveUnsignalled ==
    /\ launch = "remove"
    /\ launch' = "collect"
    /\ container' = "removed"
    /\ UNCHANGED <<result, verdict, printed, pipeVars>>

\* RemoveContainer; abort <- true, which cannot block.
RemoveContainer ==
    /\ launch = "remove"
    /\ launch' = "collect"
    /\ container' = "removed"
    /\ abort' = TRUE
    /\ UNCHANGED <<result, verdict, printed, attach, delivered, partial, reader,
                   completed, closed, poller>>

\* Starting, waiting or removing fails: an early return that leaves container
\* and goroutines behind.
EngineFails ==
    /\ launch \in {"start", "wait", "remove"}
    /\ launch' = "returned" /\ result' = "error"
    /\ UNCHANGED <<verdict, engineVars, pipeVars>>

\* Mutant: the container's exit counts as a scan.
CollectExit ==
    /\ launch = "collect"
    /\ reader = "put"
    /\ launch' = "returned"
    /\ reader' = "ended"
    /\ result' = "good"
    /\ UNCHANGED <<verdict, engineVars, attach, delivered, partial, completed,
                   closed, abort, poller>>

\* result := <-done
Collect ==
    /\ launch = "collect"
    /\ reader = "put"
    /\ launch' = "returned"
    /\ reader' = "ended"
    /\ result' = IF completed THEN "good" ELSE "bad"
    /\ UNCHANGED <<verdict, engineVars, attach, delivered, partial, completed,
                   closed, abort, poller>>

\* scan fetches the results of a completed scan from the Hub, and may fail to;
\* RequestScanAuthorization then aborts, as for an error or no completion.
Report ==
    /\ launch = "returned"
    /\ verdict = "none"
    /\ verdict' \in IF result = "good" THEN {"done", "abort"} ELSE {"abort"}
    /\ UNCHANGED <<launch, result, engineVars, pipeVars>>

-----------------------------------------------------------------------------
(***************************************************************************)
(* The engine (external): the container prints and, at any point, ends.    *)
(***************************************************************************)

ContainerPrints ==
    /\ container = "running"
    /\ printed < Len(Script)
    /\ printed' = printed + 1
    /\ UNCHANGED <<workerVars, container, pipeVars>>

ContainerExits ==
    /\ container = "running"
    /\ container' = "exited"
    /\ UNCHANGED <<workerVars, printed, pipeVars>>

-----------------------------------------------------------------------------
(***************************************************************************)
(* The goroutines of pipeOutput.                                           *)
(***************************************************************************)

\* Logs: true, so the stream starts with the first line.
AttachConnects ==
    /\ Alive
    /\ attach = "connect"
    /\ container # "removed"
    /\ attach' = "copy"
    /\ UNCHANGED <<workerVars, engineVars, delivered, partial, reader, completed,
                   closed, abort, poller>>

\* The connection fails or breaks, the stream ends, or the pipe is closed;
\* AttachToContainer's error is dropped, and it never closes the pipe.
AttachReturns ==
    /\ Alive
    /\ attach \in {"connect", "copy"}
    /\ attach' = "ended"
    /\ UNCHANGED <<workerVars, engineVars, delivered, partial, reader, completed,
                   closed, abort, poller>>

\* The pipe has no buffer: writing is reading.
CanDeliver ==
    /\ Alive
    /\ attach = "copy"
    /\ reader = "read"
    /\ ~closed
    /\ delivered < printed

\* The engine's stream cuts lines where it likes.
DeliverPart ==
    /\ CanDeliver
    /\ ~partial
    /\ partial' = TRUE
    /\ UNCHANGED <<workerVars, engineVars, attach, delivered, reader, completed,
                   closed, abort, poller>>

\* Mutant: the rest of a line counts as a line of its own.
DeliverTwice ==
    /\ CanDeliver
    /\ delivered' = delivered + IF partial THEN 2 ELSE 1
    /\ partial' = FALSE
    /\ UNCHANGED <<workerVars, engineVars, attach, reader, completed, closed, abort, poller>>

\* scanner.Scan() gets the next line, or gives up on a long one.
Deliver ==
    LET line == Script[delivered + 1]
    IN  /\ CanDeliver
        /\ delivered' = delivered + 1
        /\ partial' = FALSE
        /\ completed' = (completed \/ line = "post")
        /\ reader' = IF line = "long" THEN "put" ELSE "read"
        /\ UNCHANGED <<workerVars, engineVars, attach, closed, abort, poller>>

\* Mutant: the poller closes the pipe and goes on polling.
PollAbortLoops ==
    /\ Alive
    /\ poller = "poll"
    /\ abort
    /\ abort' = FALSE
    /\ closed' = TRUE
    /\ UNCHANGED <<workerVars, engineVars, attach, delivered, partial, reader, completed, poller>>

PollAbort ==
    /\ Alive
    /\ poller = "poll"
    /\ abort
    /\ abort' = FALSE
    /\ closed' = TRUE
    /\ poller' = "ended"
    /\ UNCHANGED <<workerVars, engineVars, attach, delivered, partial, reader, completed>>

\* Once the pipe is closed, what was read of an unfinished line is the last
\* line.
LastLine ==
    /\ Alive
    /\ reader = "read"
    /\ closed
    /\ IF partial /\ Script[delivered + 1] = "view"
       THEN launch' \in {launch, "crashed"}
       ELSE launch' = launch
    /\ completed' \in IF partial /\ Script[delivered + 1] = "post"
                      THEN {completed, TRUE}
                      ELSE {completed}
    /\ reader' = "put"
    /\ UNCHANGED <<result, verdict, engineVars, attach, delivered, partial,
                   closed, abort, poller>>

-----------------------------------------------------------------------------

Worker ==
    \/ CreateFails
    \/ CreateContainer
    \/ StartContainer
    \/ WaitContainer
    \/ RemoveContainer
    \/ EngineFails
    \/ Collect
    \/ Report

Pipe ==
    \/ AttachConnects
    \/ DeliverPart
    \/ Deliver
    \/ PollAbort
    \/ LastLine

Next ==
    \/ Worker
    \/ Pipe
    \/ AttachReturns
    \/ ContainerPrints
    \/ ContainerExits

Spec == Init /\ [][Next]_vars

\* A write to the closed pipe fails; a container that is over has no more to
\* copy.
CopyOver == closed \/ (container \in {"exited", "removed"} /\ delivered = printed)

\* The goroutines run; the copy ends once it can go on no longer.
Fairness ==
    /\ WF_vars(Worker)
    /\ WF_vars(Deliver) /\ WF_vars(PollAbort) /\ WF_vars(LastLine)
    /\ WF_vars(AttachReturns /\ CopyOver)

FairSpec == Spec /\ Fairness

-----------------------------------------------------------------------------

\* Type invariant: and never is more read than was printed.
TypeOK ==
    /\ launch \in {"create", "start", "wait", "remove", "collect", "returned", "crashed"}
    /\ result \in {"none", "error", "good", "bad"}
    /\ verdict \in {"none", "done", "abort"}
    /\ container \in {"none", "created", "running", "exited", "removed"}
    /\ printed \in 0..Len(Script)
    /\ attach \in {"off", "connect", "copy", "ended"}
    /\ delivered \in 0..printed
    /\ reader \in {"off", "read", "put", "ended"}
    /\ poller \in {"off", "poll", "ended"}
    /\ partial \in BOOLEAN /\ completed \in BOOLEAN
    /\ closed \in BOOLEAN /\ abort \in BOOLEAN

\* The container has printed the line that says the scan is complete.
Announced == \E k \in 1..printed : Script[k] = "post"

\* Nothing is reported as done that was not scanned: the container announced
\* the end of the scan, exited and is removed.  (The converse fails: the pipe
\* may be closed on a completed scan's last words, and the scan is aborted.)
NoFalseDone == verdict = "done" => Announced /\ container = "removed"

\* If the container comes to an end, so does launchContainer, whatever was
\* printed, cut, lost or too long: the worker never waits in vain for the
\* reader's result.
LaunchReturns ==
    (container = "running" ~> container = "exited")
        => <>(launch \in {"returned", "crashed"})

\* A launch that returns a result leaves no goroutine behind.
GoroutinesEnd ==
    result \in {"good", "bad"} ~>
        attach = "ended" /\ reader = "ended" /\ poller = "ended"
=============================================================================
