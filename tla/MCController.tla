----------------------------- MODULE MCController -----------------------------
(***************************************************************************)
(* An instance of Controller for TLC.  The pull spec "a" has the Docker id *)
(* "d1", and OpenShift announces it under the name "n1", which is no id of *)
(* the engine.  Ids come with and without "sha256:".                       *)
(***************************************************************************)
EXTENDS Controller

OneSpec == {"a"}

Ids == {"d1", "n1"}

ResolveOne == [r \in OneSpec |-> {"d1"}]

Says(r, h, p) == [ref |-> r, hex |-> h, prefixed |-> p]

\* Pods announce the Docker id, image streams the name.  The two replace each
\* other, so that every call can queue a job.
OneSpecThreeNames ==
    {Says("a", "d1", TRUE), Says("a", "d1", FALSE), Says("a", "n1", TRUE)}
=============================================================================
