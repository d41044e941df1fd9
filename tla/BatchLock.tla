----------------------------- MODULE BatchLock -----------------------------
(***************************************************************************)
(* Tasks that take the locks of several keys:                              *)
(* FastObjectLockManager::acquire_locks_batch of                           *)
(* crates/lock/src/fast_lock/manager.rs, two-phase and best effort, and    *)
(* the lock loop of delete_objects (crates/ecstore/src/set_disk.rs).       *)
(*                                                                         *)
(* Each key's lock is the reader-writer lock that FastLock and DistLock    *)
(* implement; a request for it ends with a guard or with a timeout, also   *)
(* on a free lock (a wake-up may be lost).  A batch names a key at         *)
(* most once, as delete_objects makes sure.                                *)
(***************************************************************************)
EXTENDS Naturals, Sequences, FiniteSets, SequencesExt

CONSTANTS
  Batches,   \* tasks
  Keys,      \* object keys, numbered in the order of ObjectKey
  ShardOf,   \* [Keys -> Nat], ObjectKey::shard_index
  Kinds,     \* the calls that are made: a subset of AllKinds
  MaxBatch   \* bound on the keys of a batch

AllKinds == {"two_phase", "best_effort", "delete_objects"}

ASSUME BatchAssumption ==
  /\ Keys \subseteq Nat /\ IsFiniteSet(Keys)
  /\ ShardOf \in [Keys -> Nat]
  /\ Kinds \subseteq AllKinds
  /\ MaxBatch \in Nat

VARIABLES
  pc,      \* idle, acquiring, returned or releasing
  kind,    \* the call
  modes,   \* the keys requested, each with its mode
  todo,    \* the keys still to lock, in order
  guards,  \* the keys locked
  failed   \* the keys whose request timed out

vars == <<pc, kind, modes, todo, guards, failed>>

Modes == {"Shared", "Exclusive"}

NoRequest == [k \in {} |-> "Shared"]

\* One mode for each key of a set of keys.
Requests == UNION {[K -> Modes] : K \in SUBSET Keys}

StateType ==
  /\ pc \in [Batches -> {"idle", "acquiring", "returned", "releasing"}]
  /\ kind \in [Batches -> AllKinds]
  /\ modes \in [Batches -> Requests]
  /\ todo \in [Batches -> Seq(Keys)]
  /\ guards \in [Batches -> Seq(Keys)]
  /\ failed \in [Batches -> SUBSET Keys]

\* A key of a batch is in one place at a time: to do, locked or failed.
OnePlace(b) ==
  /\ ToSet(todo[b]) \cap (ToSet(guards[b]) \cup failed[b]) = {}
  /\ ToSet(guards[b]) \cap failed[b] = {}

\* The state's types, with the three lists of each batch kept apart, as
\* acquire_locks_batch moves a request from the first into one of the others.
TypeOK == StateType /\ \A b \in Batches : OnePlace(b)

Init ==
  /\ pc = [b \in Batches |-> "idle"]
  /\ kind = [b \in Batches |-> "two_phase"]
  /\ modes = [b \in Batches |-> NoRequest]
  /\ todo = [b \in Batches |-> <<>>]
  /\ guards = [b \in Batches |-> <<>>]
  /\ failed = [b \in Batches |-> {}]

-----------------------------------------------------------------------------
\* Faulty: the shard's group keeps the order of the request.
GroupUnsorted(s) == TRUE

\* Within a shard the requests stay sorted by key.
GroupSorted(s) ==
  \A i, j \in DOMAIN s : i < j /\ ShardOf[s[i]] = ShardOf[s[j]] => s[i] < s[j]

\* A shard's requests come one after the other.
GroupTogether(s) ==
  \A i, j, k \in DOMAIN s :
    i < j /\ j < k /\ ShardOf[s[i]] = ShardOf[s[k]] => ShardOf[s[j]] = ShardOf[s[i]]

\* The orders in which the keys K may be locked.  group_requests_by_shard puts
\* the sorted requests into a HashMap, whose iteration order is arbitrary;
\* delete_objects follows the client's list.
LockOrders(K, call) ==
  IF call = "delete_objects" THEN SetToSeqs(K)
  ELSE {s \in SetToSeqs(K) : GroupSorted(s) /\ GroupTogether(s)}

Begin(b, call, m) ==
  /\ pc[b] = "idle"
  /\ Cardinality(DOMAIN m) \in 1 .. MaxBatch
  /\ call = "delete_objects" => \A k \in DOMAIN m : m[k] = "Exclusive"
  /\ pc' = [pc EXCEPT ![b] = "acquiring"]
  /\ kind' = [kind EXCEPT ![b] = call]
  /\ modes' = [modes EXCEPT ![b] = m]
  /\ \E s \in LockOrders(DOMAIN m, call) : todo' = [todo EXCEPT ![b] = s]
  /\ UNCHANGED <<guards, failed>>

Holds(b, k) == \E i \in DOMAIN guards[b] : guards[b][i] = k

\* Batch c keeps batch b from locking key k.
Blocks(c, b, k) ==
  Holds(c, k) /\ ~(modes[b][k] = "Shared" /\ modes[c][k] = "Shared")

\* The next key is locked and its guard kept.
Acquire(b) ==
  /\ pc[b] = "acquiring"
  /\ todo[b] # <<>>
  /\ \A c \in Batches : ~Blocks(c, b, Head(todo[b]))
  /\ guards' = [guards EXCEPT ![b] = Append(@, Head(todo[b]))]
  /\ todo' = [todo EXCEPT ![b] = Tail(@)]
  /\ UNCHANGED <<pc, kind, modes, failed>>

\* Faulty: a two-phase batch goes on after a failure.
TimeoutGoesOn(b) ==
  /\ pc[b] = "acquiring"
  /\ todo[b] # <<>>
  /\ failed' = [failed EXCEPT ![b] = @ \cup {Head(todo[b])}]
  /\ todo' = [todo EXCEPT ![b] = Tail(@)]
  /\ UNCHANGED <<pc, kind, modes, guards>>

\* Faulty: a request that failed is noted and tried again.
TimeoutRetries(b) ==
  /\ pc[b] = "acquiring"
  /\ todo[b] # <<>>
  /\ failed' = [failed EXCEPT ![b] = @ \cup {Head(todo[b])}]
  /\ UNCHANGED <<pc, kind, modes, todo, guards>>

\* Faulty: the request waits without a deadline.
TimeoutNever(b) == FALSE /\ UNCHANGED vars

\* The next key's request times out.  A two-phase batch stops and drops its
\* guards; the others note the failure and go on.
Timeout(b) ==
  /\ pc[b] = "acquiring"
  /\ todo[b] # <<>>
  /\ failed' = [failed EXCEPT ![b] = @ \cup {Head(todo[b])}]
  /\ \/ /\ kind[b] = "two_phase"
        /\ todo' = [todo EXCEPT ![b] = <<>>]
        /\ pc' = [pc EXCEPT ![b] = "releasing"]
     \/ /\ kind[b] # "two_phase"
        /\ todo' = [todo EXCEPT ![b] = Tail(@)]
        /\ UNCHANGED pc
  /\ UNCHANGED <<kind, modes, guards>>

\* Every request is decided: the result, with its guards, goes to the caller.
Return(b) ==
  /\ pc[b] = "acquiring"
  /\ todo[b] = <<>>
  /\ pc' = [pc EXCEPT ![b] = "returned"]
  /\ UNCHANGED <<kind, modes, todo, guards, failed>>

\* The caller is done with its guards.
DropGuards(b) ==
  /\ pc[b] = "returned"
  /\ pc' = [pc EXCEPT ![b] = "releasing"]
  /\ UNCHANGED <<kind, modes, todo, guards, failed>>

\* Dropping a vector of guards releases them one after the other.
ReleaseOne(b) ==
  /\ pc[b] = "releasing"
  /\ guards[b] # <<>>
  /\ guards' = [guards EXCEPT ![b] = Tail(@)]
  /\ UNCHANGED <<pc, kind, modes, todo, failed>>

Finish(b) ==
  /\ pc[b] = "releasing"
  /\ guards[b] = <<>>
  /\ pc' = [pc EXCEPT ![b] = "idle"]
  /\ kind' = [kind EXCEPT ![b] = "two_phase"]
  /\ modes' = [modes EXCEPT ![b] = NoRequest]
  /\ failed' = [failed EXCEPT ![b] = {}]
  /\ UNCHANGED <<todo, guards>>

BatchStep(b) ==
  \/ Acquire(b) \/ Timeout(b) \/ Return(b)
  \/ DropGuards(b) \/ ReleaseOne(b) \/ Finish(b)

Next ==
  \E b \in Batches :
    \/ BatchStep(b)
    \/ \E call \in Kinds, m \in Requests : Begin(b, call, m)

Spec == Init /\ [][Next]_vars

\* Requests end by their deadlines and callers finish.
FairSpec == Spec /\ \A b \in Batches : WF_vars(BatchStep(b))

-----------------------------------------------------------------------------
(* Properties. *)

\* Batch b waits for batch c.
WaitsFor(b, c) == pc[b] = "acquiring" /\ todo[b] # <<>> /\ Blocks(c, b, Head(todo[b]))

\* A batch of the manager whose keys lie in one shard.
OneShard(b) ==
  /\ kind[b] # "delete_objects"
  /\ \A j, k \in DOMAIN modes[b] : ShardOf[j] = ShardOf[k]

\* "Pre-sort requests by (shard_id, key) to avoid deadlocks" (manager.rs:133):
\* batches of one shard never wait for each other in a circle: in every set of
\* them, some batch waits for no other of the set.  Batches of several shards
\* and multi-deletes may wait in a circle, until a request times out.
NoCircularWait ==
  \A S \in (SUBSET {b \in Batches : OneShard(b)}) \ {{}} :
    \E b \in S : \A c \in S : ~WaitsFor(b, c)

\* What a caller gets: of a two-phase batch all the locks, since one that
\* failed is never returned with guards; of the others a guard or a failure for
\* each key, never both.
ResultComplete ==
  \A b \in Batches : pc[b] = "returned" =>
    /\ \A k \in DOMAIN modes[b] : Holds(b, k) <=> k \notin failed[b]
    /\ kind[b] = "two_phase" => failed[b] = {}

\* Whatever the order of locking, every batch ends and its locks are free.
BatchEnds == \A b \in Batches : pc[b] = "acquiring" ~> pc[b] = "idle" /\ guards[b] = <<>>

=============================================================================
