--------------------------- MODULE MCNotification ---------------------------
(***************************************************************************)
(* Instances of Notification for TLC: pods of one image, which run when    *)
(* the arbiter is started, wait to run, or are created later.              *)
(***************************************************************************)
EXTENDS Notification, TLC

CONSTANTS p1, p2

OneContainer == [p \in Pod |-> <<"a">>]

OneToCome == {p1 :> "running" @@ p2 :> "absent"}

OneWaits == {p1 :> "running" @@ p2 :> "pending"}

NoneYet == {[p \in Pod |-> "absent"]}

BothRun == {[p \in Pod |-> "running"]}

HubKnows == {[i \in PullSpec |-> 1]}
=============================================================================
