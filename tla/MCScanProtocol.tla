---------------------------- MODULE MCScanProtocol ----------------------------
(***************************************************************************)
(* Small instances of ScanProtocol for TLC.                                *)
(***************************************************************************)
EXTENDS ScanProtocol, TLC

CONSTANTS c1, c2, s1, s2, h1, h2, k1, k2, w1, w2

\* Two nodes with a worker each, or one node with two workers.
PeersHostOf == w1 :> c1 @@ w2 :> c2
PeersWorkers == c1 :> 1 @@ c2 :> 1
SameNodeHostOf == w1 :> c1 @@ w2 :> c1
SameNodeWorkers == c1 :> 2

OneImageMd5 == s1 :> h1
TwoImageMd5 == s1 :> h1 @@ s2 :> h2

PeersOneImage == c1 :> {s1} @@ c2 :> {s1}
PeersSharedImage == c1 :> {s1, s2} @@ c2 :> {s1}
SameNodeOneImage == c1 :> {s1}
SameNodeTwoImages == c1 :> {s1, s2}

\* Connections are alike, and so are two nodes with all that is on them.
NodeSwap == c1 :> c2 @@ c2 :> c1 @@ w1 :> w2 @@ w2 :> w1

PeersSymmetry == Permutations(Conn) \cup {NodeSwap}

SameNodeSymmetry == Permutations(Conn) \cup Permutations(Worker)
=============================================================================
