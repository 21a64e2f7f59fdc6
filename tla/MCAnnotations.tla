----------------------------- MODULE MCAnnotations -----------------------------
(***************************************************************************)
(* An instance of Annotations for TLC: two controllers of different        *)
(* versions, and an arbiter of the newer one.                              *)
(***************************************************************************)
EXTENDS Annotations, TLC

CONSTANTS c1, c2, arb, v1, v2

Versions == c1 :> v1 @@ c2 :> v2 @@ arb :> v2
=============================================================================
