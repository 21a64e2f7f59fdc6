------------------------------ MODULE MCArbiter ------------------------------
(***************************************************************************)
(* A small instance of Arbiter for TLC.                                    *)
(***************************************************************************)
EXTENDS Arbiter, TLC

CONSTANTS c1, c2, s1, h1, k1, k2

\* One image wanted by two controllers, two workers each.
OneImageMd5 == s1 :> h1

TwoControllerWorkers == c1 :> 2 @@ c2 :> 2

\* Controllers with equal worker counts are alike, and so are connections.
RaceSymmetry == Permutations({c1, c2}) \cup Permutations({k1, k2})

\* No action and no property of Arbiter reads what a response said, so states
\* that differ in nothing else are the same.
Unread ==
    [k \in Conn |-> IF At(k, "replied") THEN [pc |-> "replied"] ELSE handler[k]]

ResponseView == <<tables, Unread>>
=============================================================================
