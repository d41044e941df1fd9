---------------------------- MODULE MCErasureSet ----------------------------
(* Four disks, whose default parity is 2; REDUCED_REDUNDANCY gives an object 1. *)
EXTENDS ErasureSet, TLC

NoConditions == << >>

\* Late calls; heals and cut shards; heals with two parity blocks;
\* two puts that create the object; one that replaces what the other created.
MCSettings ==
  {[default |-> 2, parity |-> 1, cuts |-> 0, heals |-> 0, lost |-> 1, late |-> 1, expect |-> NoConditions],
   [default |-> 2, parity |-> 1, cuts |-> 1, heals |-> 1, lost |-> 1, late |-> 0, expect |-> NoConditions],
   [default |-> 2, parity |-> 2, cuts |-> 0, heals |-> 1, lost |-> 0, late |-> 0, expect |-> NoConditions],
   [default |-> 2, parity |-> 1, cuts |-> 0, heals |-> 0, lost |-> 1, late |-> 0, expect |-> <<Gone, Gone>>],
   [default |-> 2, parity |-> 2, cuts |-> 0, heals |-> 0, lost |-> 1, late |-> 0, expect |-> 2 :> 1]}

\* Calls are done or not done.
MCUndoSettings ==
  {[default |-> 2, parity |-> 2, cuts |-> 0, heals |-> 0, lost |-> 0, late |-> 0, expect |-> NoConditions]}

MCSymmetry == Permutations(Disks)

\* States are told apart by what later steps and the properties can see: the
\* temporary shards of a put that is over matter only to its late calls, and of
\* a disk's data directories only the one its xl.meta names, unless a heal may
\* come.
Over(w) == op[w] \in {"acked", "failed"}

MCView ==
  <<setting,
    [w \in Writes |-> IF Over(w) THEN "over" ELSE op[w]],
    [w \in Writes |-> [d \in Disks |->
       IF Over(w) /\ <<d, w>> \notin late THEN "none" ELSE tmp[w][d]]],
    xl,
    [d \in Disks |-> IF heals < setting.heals THEN parts[d]
                     ELSE [w \in Writes |-> IF xl[d] = w THEN parts[d][w] ELSE "none"]],
    lock, oldDir, deletes, heals, late, lates, legal, short>>

=============================================================================
