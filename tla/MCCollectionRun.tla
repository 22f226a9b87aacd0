-------------------------- MODULE MCCollectionRun --------------------------
(* Small instances of CollectionRun for TLC.                               *)
EXTENDS CollectionRun, TLC

CONSTANTS s1, s2, p1, p2, c1, c2, q1

Homes == (c1 :> p1) @@ (c2 :> p2) @@ (q1 :> p1)

=============================================================================
