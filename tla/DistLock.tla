------------------------------ MODULE DistLock ------------------------------
(***************************************************************************)
(* The quorum lock of one resource: DistributedLock, DistributedLockGuard  *)
(* and the background unlock worker of crates/lock/src/distributed_lock.rs *)
(* over LockClients, LocalClient (client/local.rs) or RemoteClient         *)
(* (ecstore/src/rpc/remote_locker.rs) with its server side                 *)
(* (rustfs/src/storage/rpc/lock.rs).                                       *)
(*                                                                         *)
(* - A lock server is the guard storage of one node; it grants what a      *)
(*   reader-writer lock grants (module FastLock shows that it is one) and  *)
(*   refuses after the request's own timeout.                              *)
(* - A server makes a new LockId for every grant, so a stored guard is     *)
(*   named by its client and the client's attempt.                         *)
(* - A call can fail on the way there (the request is lost or goes on at   *)
(*   the server without its caller, for RPCs time out after 30 s and lock  *)
(*   requests may wait longer) or on the way back.  Failed calls and lost  *)
(*   releases are counted in "faults", abandoned acquisitions (a dropped   *)
(*   future) in "cancels", server restarts in "restarts".                  *)
(***************************************************************************)
EXTENDS Naturals, FiniteSets, Sequences

CONSTANTS
  Nodes,        \* the lock clients of a set, one per host
  Clients,      \* tasks that take the namespace lock
  Procs,        \* processes the tasks run in
  ProcOf,       \* [Clients -> Procs]
  Quorum,       \* lockers / 2 + 1
  NoMode,
  QueueCap,     \* capacity of the unlock channel (8192)
  MaxAttempts,  \* bound: acquisitions per client
  MaxFaults,    \* bound: failed calls and lost releases
  MaxCancels,   \* bound: acquisitions dropped half way
  MaxRestarts   \* bound: lock servers that lose their memory

ASSUME DistLockAssumption ==
  /\ IsFiniteSet(Nodes)
  /\ ProcOf \in [Clients -> Procs]
  /\ Quorum \in Nat
  /\ 2 * Quorum > Cardinality(Nodes)
  /\ NoMode \notin {"Shared", "Exclusive"}
  /\ QueueCap \in Nat
  /\ MaxAttempts \in Nat
  /\ MaxFaults \in Nat
  /\ MaxCancels \in Nat
  /\ MaxRestarts \in Nat

VARIABLES
  pc,        \* each client: idle, acquiring, rollback or held
  mode,      \* the mode it asks for
  attempt,   \* its acquisitions so far
  call,      \* its acquire_lock call to each node
  entries,   \* nodes whose lock it has and must release
  guards,    \* guard_storage of each node
  late,      \* requests that still wait at a node, their caller gone
  queue,     \* UNLOCK_RUNTIME of each process: jobs to release
  detached,  \* releases spawned because the channel was full
  faults, cancels, restarts

clientVars == <<pc, mode, attempt, call, entries>>
unlockVars == <<queue, detached>>
faultVars == <<faults, cancels, restarts>>
vars == <<clientVars, guards, late, unlockVars, faultVars>>

Modes == {"Shared", "Exclusive"}

CallStates == {"none", "sent", "granted", "ok", "failed"}

\* A guard as a server stores it.
Guards == [client : Clients, attempt : 0..MaxAttempts, mode : Modes]

\* A release to perform at a node.
Releases == [node : Nodes, guard : Guards]

TypeOK ==
  /\ pc \in [Clients -> {"idle", "acquiring", "rollback", "held"}]
  /\ mode \in [Clients -> Modes]
  /\ attempt \in [Clients -> 0..MaxAttempts]
  /\ call \in [Clients -> [Nodes -> CallStates]]
  /\ entries \in [Clients -> SUBSET Nodes]
  /\ guards \in [Nodes -> SUBSET Guards]
  /\ late \in SUBSET Releases
  /\ queue \in [Procs -> Seq(SUBSET Releases)]
  /\ detached \in SUBSET Releases
  /\ faults \in 0..MaxFaults
  /\ cancels \in 0..MaxCancels
  /\ restarts \in 0..MaxRestarts

Init ==
  /\ pc = [c \in Clients |-> "idle"]
  /\ mode = [c \in Clients |-> "Shared"]
  /\ attempt = [c \in Clients |-> 0]
  /\ call = [c \in Clients |-> [n \in Nodes |-> "none"]]
  /\ entries = [c \in Clients |-> {}]
  /\ guards = [n \in Nodes |-> {}]
  /\ late = {}
  /\ queue = [p \in Procs |-> <<>>]
  /\ detached = {}
  /\ faults = 0
  /\ cancels = 0
  /\ restarts = 0

-----------------------------------------------------------------------------
\* Faulty: the id of the next grant is stored.
GuardOfNext(c) == [client |-> c, attempt |-> attempt[c] + 1, mode |-> mode[c]]

\* LocalClient makes a new LockId per grant: the client's attempt names it.
GuardOf(c) == [client |-> c, attempt |-> attempt[c], mode |-> mode[c]]

\* What the node's FastLock grants.
Compatible(n, m) ==
  \A g \in guards[n] : m = "Shared" /\ g.mode = "Shared"

SetCall(c, n, s) == call' = [call EXCEPT ![c][n] = s]

CountFault == faults < MaxFaults /\ faults' = faults + 1

NoCalls == [n \in Nodes |-> "none"]

-----------------------------------------------------------------------------
(* Acquisition: acquire_lock_quorum. *)

\* Faulty: a client uses one lock id for all its acquisitions.
BeginSameId(c, m) ==
  /\ pc[c] = "idle"
  /\ pc' = [pc EXCEPT ![c] = "acquiring"]
  /\ mode' = [mode EXCEPT ![c] = m]
  /\ call' = [call EXCEPT ![c] = [n \in Nodes |-> "sent"]]
  /\ UNCHANGED <<attempt, entries, guards, late, unlockVars, faultVars>>

\* join_all sends the request to every client at once.
Begin(c, m) ==
  /\ pc[c] = "idle"
  /\ attempt[c] < MaxAttempts
  /\ pc' = [pc EXCEPT ![c] = "acquiring"]
  /\ mode' = [mode EXCEPT ![c] = m]
  /\ attempt' = [attempt EXCEPT ![c] = @ + 1]
  /\ call' = [call EXCEPT ![c] = [n \in Nodes |-> "sent"]]
  /\ UNCHANGED <<entries, guards, late, unlockVars, faultVars>>

\* LocalClient::acquire_lock: take the lock, store the guard, answer.
Grant(c, n) ==
  /\ call[c][n] = "sent"
  /\ Compatible(n, mode[c])
  /\ guards' = [guards EXCEPT ![n] = @ \cup {GuardOf(c)}]
  /\ SetCall(c, n, "granted")
  /\ UNCHANGED <<pc, mode, attempt, entries, late, unlockVars, faultVars>>

\* The request's acquire timeout passes at the server.
Refuse(c, n) ==
  /\ call[c][n] = "sent"
  /\ SetCall(c, n, "failed")
  /\ UNCHANGED <<pc, mode, attempt, entries, guards, late, unlockVars, faultVars>>

\* The answer names the guard's id.  The server sends it with every success, so
\* the fallback to the request's own id, by which the guard could not be
\* released, is left out.
Reply(c, n) ==
  /\ call[c][n] = "granted"
  /\ SetCall(c, n, "ok")
  /\ UNCHANGED <<pc, mode, attempt, entries, guards, late, unlockVars, faultVars>>

\* The caller gets an error.  A request the server has not decided is lost or
\* goes on there; a guard the server has stored stays.
CallFails(c, n) ==
  /\ call[c][n] \in {"sent", "granted"}
  /\ CountFault
  /\ SetCall(c, n, "failed")
  /\ \/ late' = late
     \/ /\ call[c][n] = "sent"
        /\ late' = late \cup {[node |-> n, guard |-> GuardOf(c)]}
  /\ UNCHANGED <<pc, mode, attempt, entries, guards, unlockVars, cancels, restarts>>

\* An abandoned request is granted, or gives up.
LateGrant(l) ==
  /\ l \in late
  /\ Compatible(l.node, l.guard.mode)
  /\ guards' = [guards EXCEPT ![l.node] = @ \cup {l.guard}]
  /\ late' = late \ {l}
  /\ UNCHANGED <<clientVars, unlockVars, faultVars>>

LateTimeout(l) ==
  /\ l \in late
  /\ late' = late \ {l}
  /\ UNCHANGED <<clientVars, guards, unlockVars, faultVars>>

Locked(c) == {n \in Nodes : call[c][n] = "ok"}

Outcome(c, quorum) == IF Cardinality(Locked(c)) >= quorum THEN "held"
                      ELSE IF Locked(c) = {} THEN "idle" ELSE "rollback"

DecideWith(c, quorum) ==
  /\ pc[c] = "acquiring"
  /\ \A n \in Nodes : call[c][n] \in {"ok", "failed"}
  /\ pc' = [pc EXCEPT ![c] = Outcome(c, quorum)]
  /\ entries' = [entries EXCEPT ![c] = Locked(c)]
  /\ call' = [call EXCEPT ![c] = NoCalls]
  /\ UNCHANGED <<mode, attempt, guards, late, unlockVars, faultVars>>

\* Faulty: half of the nodes are enough.
DecideByHalf(c) == DecideWith(c, Quorum - 1)

\* All calls are back: a quorum of locks makes a guard, fewer are given back.
Decide(c) == DecideWith(c, Quorum)

-----------------------------------------------------------------------------
(* Release. *)

\* LocalClient::release removes the guard, which releases the lock; a release
\* that fails on the way there changes nothing and is not tried again.
ReleaseAt(n, g) ==
  \/ /\ guards' = [guards EXCEPT ![n] = @ \ {g}]
     /\ UNCHANGED faultVars
  \/ /\ CountFault
     /\ UNCHANGED <<guards, cancels, restarts>>

\* Faulty: the rollback forgets the locks it collected.
RollbackNothing(c) ==
  /\ pc[c] = "rollback"
  /\ entries' = [entries EXCEPT ![c] = {}]
  /\ pc' = [pc EXCEPT ![c] = "idle"]
  /\ UNCHANGED <<mode, attempt, call, guards, late, unlockVars, faultVars>>

\* The rollback releases its locks one after the other, then the request fails.
Rollback(c) ==
  /\ pc[c] = "rollback"
  /\ \E n \in entries[c] :
       /\ ReleaseAt(n, GuardOf(c))
       /\ entries' = [entries EXCEPT ![c] = @ \ {n}]
       /\ pc' = [pc EXCEPT ![c] = IF entries[c] = {n} THEN "idle" ELSE @]
  /\ UNCHANGED <<mode, attempt, call, late, unlockVars>>

\* The future of an acquisition is dropped: its locks have no guard yet.
Cancel(c) ==
  /\ pc[c] \in {"acquiring", "rollback"}
  /\ cancels < MaxCancels
  /\ cancels' = cancels + 1
  /\ pc' = [pc EXCEPT ![c] = "idle"]
  /\ entries' = [entries EXCEPT ![c] = {}]
  /\ call' = [call EXCEPT ![c] = NoCalls]
  /\ \E N \in SUBSET {n \in Nodes : call[c][n] = "sent"} :
       late' = late \cup {[node |-> n, guard |-> GuardOf(c)] : n \in N}
  /\ UNCHANGED <<mode, attempt, guards, unlockVars, faults, restarts>>

Job(c) == {[node |-> n, guard |-> GuardOf(c)] : n \in entries[c]}

\* Faulty: the job names only a quorum of the entries.
DropOneShort(c) ==
  /\ pc[c] = "held"
  /\ pc' = [pc EXCEPT ![c] = "idle"]
  /\ entries' = [entries EXCEPT ![c] = {}]
  /\ \E r \in Job(c) :
       queue' = [queue EXCEPT ![ProcOf[c]] = Append(@, Job(c) \ {r})]
  /\ UNCHANGED <<mode, attempt, call, guards, late, detached, faultVars>>

\* DistributedLockGuard::release (and drop): hand the entries to the worker,
\* or to a detached task when the channel is full.
Drop(c) ==
  /\ pc[c] = "held"
  /\ pc' = [pc EXCEPT ![c] = "idle"]
  /\ entries' = [entries EXCEPT ![c] = {}]
  /\ \/ /\ Len(queue[ProcOf[c]]) < QueueCap
        /\ queue' = [queue EXCEPT ![ProcOf[c]] = Append(@, Job(c))]
        /\ UNCHANGED detached
     \/ /\ Len(queue[ProcOf[c]]) >= QueueCap
        /\ detached' = detached \cup Job(c)
        /\ UNCHANGED queue
  /\ UNCHANGED <<mode, attempt, call, guards, late, faultVars>>

\* The worker of process p releases one entry of its oldest job and takes the
\* next job after the last one.
Worker(p) ==
  /\ queue[p] # <<>>
  /\ \E r \in Head(queue[p]) :
       /\ ReleaseAt(r.node, r.guard)
       /\ queue' = [queue EXCEPT ![p] = IF Head(@) = {r} THEN Tail(@)
                                        ELSE <<Head(@) \ {r}>> \o Tail(@)]
  /\ UNCHANGED <<clientVars, late, detached>>

DetachedRelease(r) ==
  /\ r \in detached
  /\ detached' = detached \ {r}
  /\ ReleaseAt(r.node, r.guard)
  /\ UNCHANGED <<clientVars, late, queue>>

-----------------------------------------------------------------------------
\* A lock server restarts: its guards were in memory, its calls fail.
Restart(n) ==
  /\ restarts < MaxRestarts
  /\ restarts' = restarts + 1
  /\ guards' = [guards EXCEPT ![n] = {}]
  /\ late' = {l \in late : l.node # n}
  /\ call' = [c \in Clients |->
               [call[c] EXCEPT ![n] =
                  IF @ \in {"sent", "granted"} THEN "failed" ELSE @]]
  /\ UNCHANGED <<pc, mode, attempt, entries, unlockVars, faults, cancels>>

ClientStep(c) ==
  \/ \E n \in Nodes : Grant(c, n) \/ Refuse(c, n) \/ Reply(c, n)
  \/ Decide(c)
  \/ Rollback(c)
  \/ Drop(c)

Next ==
  \/ \E c \in Clients :
       \/ \E m \in Modes : Begin(c, m)
       \/ ClientStep(c)
       \/ \E n \in Nodes : CallFails(c, n)
       \/ Cancel(c)
  \/ \E l \in late : LateGrant(l) \/ LateTimeout(l)
  \/ \E p \in Procs : Worker(p)
  \/ \E r \in detached : DetachedRelease(r)
  \/ \E n \in Nodes : Restart(n)

Spec == Init /\ [][Next]_vars

\* Calls end (the server's timeout, the RPC's timeout), guards are dropped when
\* their operation ends, and the worker and the detached tasks run.
Fairness ==
  /\ \A c \in Clients : WF_vars(ClientStep(c))
  /\ WF_vars(\E l \in late : LateGrant(l) \/ LateTimeout(l))
  /\ \A p \in Procs : WF_vars(Worker(p))
  /\ WF_vars(\E r \in detached : DetachedRelease(r))

FairSpec == Spec /\ Fairness

-----------------------------------------------------------------------------
(* Properties. *)

\* Mutual exclusion across the cluster: while a client holds an exclusive
\* guard, no other client holds any guard, whatever calls and releases of
\* earlier attempts were lost, delayed or granted late.
MutualExclusion ==
  \A c, d \in Clients :
    c # d /\ pc[c] = "held" /\ pc[d] = "held" => mode[c] = "Shared" /\ mode[d] = "Shared"

\* A holder's locks stay at the servers it got them from, and they are a
\* quorum: no rollback, queued release or late answer of anyone, including its
\* own earlier attempts, takes them away.
HolderKeepsQuorum ==
  \A c \in Clients :
    pc[c] = "held" => /\ Cardinality(entries[c]) >= Quorum
                      /\ \A n \in entries[c] : GuardOf(c) \in guards[n]

\* The parts of the inductive invariant behind mutual exclusion.
NodesExclude ==
  \A n \in Nodes : \A g, h \in guards[n] :
    g # h => g.mode = "Shared" /\ h.mode = "Shared"

CallsOfAcquirers ==
  \A c \in Clients, n \in Nodes : call[c][n] # "none" => pc[c] = "acquiring"

CallsStored ==
  \A c \in Clients, n \in Nodes :
    call[c][n] \in {"granted", "ok"} => GuardOf(c) \in guards[n]

EntriesStored ==
  \A c \in Clients : \A n \in entries[c] :
    pc[c] \in {"rollback", "held"} /\ GuardOf(c) \in guards[n]

HeldQuorum ==
  \A c \in Clients : pc[c] = "held" => Cardinality(entries[c]) >= Quorum

\* A release names a finished attempt of its client.
Stale(r) ==
  LET c == r.guard.client IN
  \/ attempt[c] > r.guard.attempt
  \/ attempt[c] = r.guard.attempt /\ pc[c] = "idle"

ReleasesStale ==
  /\ \A r \in detached : Stale(r)
  /\ \A p \in Procs : \A i \in 1..Len(queue[p]) : \A r \in queue[p][i] : Stale(r)

\* Servers store compatible guards; what a client counts on is stored; the
\* releases still under way, left by clients that moved on, name nothing that
\* anyone counts on.
Inductive ==
  /\ NodesExclude
  /\ CallsOfAcquirers
  /\ CallsStored
  /\ EntriesStored
  /\ HeldQuorum
  /\ ReleasesStale

\* Releases that a worker or a detached task still has to perform.
PendingReleases ==
  detached \cup UNION {UNION {queue[p][i] : i \in 1..Len(queue[p])} : p \in Procs}

\* Somebody knows of guard g at node n and will release it there.
Remembered(n, g) ==
  \/ \E c \in Clients :
       /\ GuardOf(c) = g
       /\ call[c][n] \in {"granted", "ok"} \/ n \in entries[c]
  \/ [node |-> n, guard |-> g] \in PendingReleases

ForgottenAt(n) == {g \in guards[n] : ~Remembered(n, g)}

Forgotten == UNION {{n} \X ForgottenAt(n) : n \in Nodes}

\* Every stored guard is remembered by whoever must release it; each failed
\* call or lost release strands at most one.  A server restart strands none.
GuardsRemembered == cancels = 0 => Cardinality(Forgotten) <= faults

\* Once no more requests are made, every server is free for good, unless a call
\* or release was lost or an acquisition abandoned: nothing frees such a guard.
EventuallyAllFree ==
  <>[](faults = 0 /\ cancels = 0 => \A n \in Nodes : guards[n] = {})

\* The quorum lock implements the abstract reader-writer lock for the guards
\* its callers hold.
HeldMode == [c \in Clients |-> IF pc[c] = "held" THEN mode[c] ELSE NoMode]

Abstract == INSTANCE RWLock WITH held <- HeldMode

ImplementsRWLock == Abstract!RWSpec

=============================================================================
