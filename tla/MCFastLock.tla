---------------------------- MODULE MCFastLock ----------------------------
(* Small instances of FastLock: three tasks, two of them of one node. *)
EXTENDS FastLock, TLC

CONSTANTS t1, t2, t3, nodeA, nodeB

MCOwnerOf == (t1 :> nodeA) @@ [t \in Tasks |-> nodeB]

\* t2 and t3 have the same owner string and the same code.
MCSymmetry == Permutations({t2, t3})

=============================================================================
