---------------------------- MODULE MCDistLock ----------------------------
(* Small instances of DistLock: three lock servers, two clients. *)
EXTENDS DistLock, FiniteSetsExt, TLC

CONSTANTS
  c1, c2, p1,
  MaxRequests   \* bound: acquisitions of all clients together

MCProcOf == [c \in Clients |-> p1]

MCQuorum == (Cardinality(Nodes) \div 2) + 1

\* The servers, and the clients of one process, are interchangeable.
MCSymmetry == Permutations(Nodes) \cup Permutations(Clients)

Requests == MapThenSumSet(LAMBDA c : attempt[c], Clients)

\* The bounded number of requests is used up and nothing is left to do.
Done ==
  /\ \A c \in Clients : pc[c] = "idle"
  /\ Requests = MaxRequests
  /\ late = {}
  /\ PendingReleases = {}
  /\ UNCHANGED vars

MCNext == (Next /\ Requests' <= MaxRequests) \/ Done

MCSpec == Init /\ [][MCNext]_vars

MCFairSpec == MCSpec /\ Fairness

=============================================================================
