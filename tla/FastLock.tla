------------------------------ MODULE FastLock ------------------------------
(***************************************************************************)
(* The in-process lock of one object key: LockShard, ObjectLockState,      *)
(* OptimizedNotify and FastLockGuard of crates/lock/src/fast_lock, at the  *)
(* granularity of the atomic operations tasks interleave at.               *)
(*                                                                         *)
(* - The shard's map sends the key to an ObjectLockState instance; tasks   *)
(*   clone the Arc under the map lock and use it after the lock is gone,   *)
(*   so instances are numbered 1..MaxStates and the map is the variable    *)
(*   "objects" (0: no entry).  Removed instances never return to the pool  *)
(*   (Arc::try_unwrap of a fresh clone fails), so each one is new.         *)
(* - A section under current_owner's or shared_owners' own lock touches    *)
(*   the lock-free word once, so it is one step.                           *)
(* - The map's read lock is held by a release until its notification is    *)
(*   sent, which keeps every map writer out (MapWritable).                 *)
(* - Time passes between any two steps: a free instance may be older than  *)
(*   the cleanup threshold, and "expired" is a request past its deadline.  *)
(* - The instances' Notify is one slot of the global pool of 128; with     *)
(*   SharedSlot other keys use the slot too.                               *)
(* - A caller may drop the acquire future wherever it is suspended, at the *)
(*   back-off sleep or at the wait (the Cancel actions).                   *)
(***************************************************************************)
EXTENDS LockWord, Sequences, FiniteSets

Seqs == INSTANCE SequencesExt

CONSTANTS
  Tasks,          \* asynchronous tasks that use the lock
  Owners,         \* owner strings
  OwnerOf,        \* [Tasks -> Owners]; one string for all tasks of a node
  None,
  MaxStates,      \* bound: ObjectLockState instances created
  MaxRetries,     \* MAX_RETRIES back-off rounds before waiting
  MaxWaiters,     \* bound: leaky OptimizedNotify counter at which waits start
  MaxCancels,     \* bound: waits dropped, per instance and mode
  SharedSlot,     \* TRUE: another key's lock uses the same pool slot
  CleanupWindow   \* TRUE: cleanup may hit a task between clone and use

ASSUME FastLockAssumption ==
  /\ IsFiniteSet(Tasks)
  /\ OwnerOf \in [Tasks -> Owners]
  /\ None \notin Owners
  /\ MaxStates \in Nat \ {0}
  /\ MaxRetries \in Nat
  /\ MaxWaiters \in Nat
  /\ MaxCancels \in Nat
  /\ SharedSlot \in BOOLEAN
  /\ CleanupWindow \in BOOLEAN

ASSUME NoModeAssumption == None \notin Modes

VARIABLES
  objects,   \* LockShard.objects at the key: an instance, or 0
  alloc,     \* instances created so far
  word,      \* AtomicLockState of each instance
  owner,     \* current_owner of each instance
  shared,    \* shared_owners of each instance: count per owner
  hits,      \* history: instances cleanup removed under a task in flight
  waiters,   \* OptimizedNotify counters of each instance, per mode
  queue,     \* Notify: parked tasks, first in first out
  permit,    \* Notify: a stored notify_one
  leaked,    \* history: dropped waits of each instance, per mode
  guards,    \* LockShard.active_guards, a guard named by its task
  pc, mode, ref, retries, expired   \* each task's request

stateVars == <<objects, alloc, word, owner, shared, hits>>
notifyVars == <<waiters, queue, permit, leaked>>
taskVars == <<guards, pc, mode, ref, retries, expired>>
vars == <<stateVars, notifyVars, taskVars>>

States == 1..MaxStates

PCs == {"idle", "lookup", "cas1", "recheck", "cas2", "getOrCreate", "cas3",
        "decide", "register", "park", "granted", "parked", "woken", "dec",
        "timedOut", "record", "guard", "held", "rel", "notify", "refused"}

StateType ==
  /\ objects \in 0..MaxStates
  /\ alloc \in 0..MaxStates
  /\ word \in [States -> LockWords]
  /\ owner \in [States -> Owners \cup {None}]
  /\ shared \in [States -> [Owners -> Nat]]
  /\ hits \subseteq States

NotifyType ==
  /\ waiters \in [States -> [Modes -> Nat]]
  /\ queue \in Seq(Tasks)
  /\ permit \in BOOLEAN
  /\ leaked \in [States -> [Modes -> 0..MaxCancels]]

TaskType ==
  /\ guards \subseteq Tasks
  /\ pc \in [Tasks -> PCs]
  /\ mode \in [Tasks -> Modes]
  /\ ref \in [Tasks -> 0..MaxStates]
  /\ retries \in [Tasks -> 0..MaxRetries]
  /\ expired \in [Tasks -> BOOLEAN]

\* The types of the shard's state, the notification's and the tasks'.
TypeOK == StateType /\ NotifyType /\ TaskType

Init ==
  /\ objects = 0
  /\ alloc = 0
  /\ word = [s \in States |-> FreeWord]
  /\ owner = [s \in States |-> None]
  /\ shared = [s \in States |-> [o \in Owners |-> 0]]
  /\ hits = {}
  /\ waiters = [s \in States |-> [m \in Modes |-> 0]]
  /\ queue = <<>>
  /\ permit = FALSE
  /\ leaked = [s \in States |-> [m \in Modes |-> 0]]
  /\ guards = {}
  /\ pc = [t \in Tasks |-> "idle"]
  /\ mode = [t \in Tasks |-> "Shared"]
  /\ ref = [t \in Tasks |-> 0]
  /\ retries = [t \in Tasks |-> 0]
  /\ expired = [t \in Tasks |-> FALSE]

-----------------------------------------------------------------------------
\* Releases hold the map's read lock until they have notified.
MapWritable == \A u \in Tasks : pc[u] # "notify"

Goto(t, l) == pc' = [pc EXCEPT ![t] = l]

\* A request ends: the task's local variables are forgotten.
Forget(t) ==
  /\ mode' = [mode EXCEPT ![t] = "Shared"]
  /\ ref' = [ref EXCEPT ![t] = 0]
  /\ retries' = [retries EXCEPT ![t] = 0]
  /\ expired' = [expired EXCEPT ![t] = FALSE]

Finish(t) == Goto(t, "idle") /\ Forget(t)

-----------------------------------------------------------------------------
(* Acquisition: the fast path. *)

Start(t, m) ==
  /\ pc[t] = "idle"
  /\ Goto(t, "lookup")
  /\ mode' = [mode EXCEPT ![t] = m]
  /\ UNCHANGED <<stateVars, notifyVars, guards, ref, retries, expired>>

\* try_fast_path clones the Arc under the read lock and drops the lock.
Lookup(t) ==
  /\ pc[t] = "lookup"
  /\ \/ /\ objects # 0
        /\ ref' = [ref EXCEPT ![t] = objects]
        /\ Goto(t, "cas1")
     \/ /\ objects = 0
        /\ Goto(t, IF mode[t] = "Exclusive" THEN "recheck" ELSE "getOrCreate")
        /\ UNCHANGED ref
  /\ UNCHANGED <<stateVars, notifyVars, guards, mode, retries, expired>>

\* One try_acquire_*: the compare-and-swap on whatever instance was cloned.
Try(t, from, onFail) ==
  LET s == ref[t] IN
  /\ pc[t] = from
  /\ \/ /\ CanAcquire(word[s], mode[t])
        /\ word' = [word EXCEPT ![s] = Acquired(@, mode[t])]
        /\ Goto(t, "record")
     \/ /\ ~CanAcquire(word[s], mode[t])
        /\ Goto(t, onFail)
        /\ UNCHANGED word
  /\ UNCHANGED <<objects, alloc, owner, shared, hits, notifyVars,
                 guards, mode, ref, retries, expired>>

TryFast(t) ==
  Try(t, "cas1", IF mode[t] = "Exclusive" THEN "recheck" ELSE "getOrCreate")

TryRechecked(t) == Try(t, "cas2", "getOrCreate")

TrySlow(t) == Try(t, "cas3", "decide")

\* A fresh instance with word w and owner o becomes the map's entry.
Create(t, w, o) ==
  LET s == alloc + 1 IN
  /\ objects = 0
  /\ alloc < MaxStates
  /\ alloc' = s
  /\ objects' = s
  /\ word' = [word EXCEPT ![s] = w]
  /\ owner' = [owner EXCEPT ![s] = o]
  /\ ref' = [ref EXCEPT ![t] = s]
  /\ UNCHANGED <<shared, hits>>

CloneEntry(t) ==
  /\ objects # 0
  /\ ref' = [ref EXCEPT ![t] = objects]
  /\ UNCHANGED stateVars

\* Faulty: no second look under the write lock; the entry is replaced.
RecheckWithoutLooking(t) ==
  LET s == alloc + 1 IN
  /\ pc[t] = "recheck"
  /\ MapWritable
  /\ alloc < MaxStates
  /\ alloc' = s
  /\ objects' = s
  /\ word' = [word EXCEPT ![s] = Acquired(FreeWord, "Exclusive")]
  /\ owner' = [owner EXCEPT ![s] = OwnerOf[t]]
  /\ ref' = [ref EXCEPT ![t] = s]
  /\ Goto(t, "guard")
  /\ UNCHANGED <<shared, hits, notifyVars, guards, mode, retries, expired>>

\* Exclusive requests look again under the write lock; an instance created
\* there is acquired, with its owner, before anyone else can see it.
Recheck(t) ==
  /\ pc[t] = "recheck"
  /\ MapWritable
  /\ \/ CloneEntry(t) /\ Goto(t, "cas2")
     \/ /\ Create(t, Acquired(FreeWord, "Exclusive"), OwnerOf[t])
        /\ Goto(t, "guard")
  /\ UNCHANGED <<notifyVars, guards, mode, retries, expired>>

-----------------------------------------------------------------------------
(* Acquisition: acquire_lock_slow_path. *)

GetOrCreate(t) ==
  /\ pc[t] = "getOrCreate"
  /\ MapWritable
  /\ \/ CloneEntry(t)
     \/ Create(t, FreeWord, None)
  /\ Goto(t, "cas3")
  /\ UNCHANGED <<notifyVars, guards, mode, retries, expired>>

\* The request's deadline passes.
Deadline(t) ==
  /\ pc[t] \in {"getOrCreate", "cas3", "decide", "register", "park", "granted",
                "parked", "woken", "dec"}
  /\ ~expired[t]
  /\ expired' = [expired EXCEPT ![t] = TRUE]
  /\ UNCHANGED <<stateVars, notifyVars, guards, pc, mode, ref, retries>>

GiveUp(t) ==
  /\ pc[t] = "decide"
  /\ expired[t]
  /\ Finish(t)
  /\ UNCHANGED <<stateVars, notifyVars, guards>>

\* retry_count is only compared with MAX_RETRIES.
CountRetry(t) ==
  retries' = [retries EXCEPT ![t] = IF @ < MaxRetries THEN @ + 1 ELSE @]

Backoff(t) ==
  /\ pc[t] = "decide"
  /\ ~expired[t]
  /\ retries[t] < MaxRetries
  /\ CountRetry(t)
  /\ Goto(t, "getOrCreate")
  /\ UNCHANGED <<stateVars, notifyVars, guards, mode, ref, expired>>

\* After the retries, or with too little time left for another back-off.
Wait(t) ==
  /\ pc[t] = "decide"
  /\ ~expired[t]
  /\ waiters[ref[t]][mode[t]] < MaxWaiters
  /\ word' = [word EXCEPT ![ref[t]] = IncWaiting(@, mode[t])]
  /\ Goto(t, "register")
  /\ UNCHANGED <<objects, alloc, owner, shared, hits, notifyVars,
                 guards, mode, ref, retries, expired>>

\* Faulty: wait_for_write, copied from wait_for_read, counts a reader.
RegisterWaiterAsReader(t) ==
  /\ pc[t] = "register"
  /\ waiters' = [waiters EXCEPT ![ref[t]]["Shared"] = @ + 1]
  /\ Goto(t, "park")
  /\ UNCHANGED <<stateVars, queue, permit, leaked, guards, mode, ref, retries, expired>>

\* wait_for_read / wait_for_write: count the waiter, then notified().await,
\* which takes a stored permit at once or suspends the task.
RegisterWaiter(t) ==
  /\ pc[t] = "register"
  /\ waiters' = [waiters EXCEPT ![ref[t]][mode[t]] = @ + 1]
  /\ Goto(t, "park")
  /\ UNCHANGED <<stateVars, queue, permit, leaked, guards, mode, ref, retries, expired>>

Park(t) ==
  /\ pc[t] = "park"
  /\ \/ /\ permit
        /\ permit' = FALSE
        /\ Goto(t, "granted")
        /\ UNCHANGED queue
     \/ /\ ~permit
        /\ queue' = Append(queue, t)
        /\ Goto(t, "parked")
        /\ UNCHANGED permit
  /\ UNCHANGED <<stateVars, waiters, leaked, guards, mode, ref, retries, expired>>

Woken(t) ==
  /\ pc[t] \in {"granted", "woken"}
  /\ waiters' = [waiters EXCEPT ![ref[t]][mode[t]] = @ - 1]
  /\ Goto(t, "dec")
  /\ UNCHANGED <<stateVars, queue, permit, leaked, guards, mode, ref, retries, expired>>

\* Faulty: the wait is not wrapped in a timeout.
WaitTimeoutMissing(t) == FALSE /\ UNCHANGED vars

LeaveQueue(t) ==
  \E i \in 1..Len(queue) : queue[i] = t /\ queue' = Seqs!RemoveAt(queue, i)

\* The timeout drops the wait: the waiter leaves the queue, its count in
\* OptimizedNotify stays.
WaitTimeout(t) ==
  /\ pc[t] = "parked"
  /\ expired[t]
  /\ LeaveQueue(t)
  /\ Goto(t, "timedOut")
  /\ UNCHANGED <<stateVars, waiters, permit, leaked,
                 guards, mode, ref, retries, expired>>

\* Faulty: an early return on timeout skips dec_*_waiting.
DecAfterWakeOnly(t) ==
  /\ pc[t] \in {"dec", "timedOut"}
  /\ \/ /\ pc[t] = "dec"
        /\ word' = [word EXCEPT ![ref[t]] = DecWaiting(@, mode[t])]
        /\ CountRetry(t)
        /\ Goto(t, "getOrCreate")
        /\ UNCHANGED <<mode, ref, expired>>
     \/ /\ pc[t] = "timedOut"
        /\ Finish(t)
        /\ UNCHANGED word
  /\ UNCHANGED <<objects, alloc, owner, shared, hits, notifyVars, guards>>

\* dec_*_waiting runs after a wake-up and after a timeout alike.
DecAfterWait(t) ==
  /\ pc[t] \in {"dec", "timedOut"}
  /\ word' = [word EXCEPT ![ref[t]] = DecWaiting(@, mode[t])]
  /\ \/ /\ pc[t] = "dec"
        /\ CountRetry(t)
        /\ Goto(t, "getOrCreate")
        /\ UNCHANGED <<mode, ref, expired>>
     \/ /\ pc[t] = "timedOut"
        /\ Finish(t)
  /\ UNCHANGED <<objects, alloc, owner, shared, hits, notifyVars, guards>>

-----------------------------------------------------------------------------
(* Acquisition: after the compare-and-swap. *)

\* Faulty: an owner's second shared guard does not raise its count.
RecordOwnerOnce(t) ==
  LET s == ref[t] IN
  /\ pc[t] = "record"
  /\ \/ /\ mode[t] = "Shared"
        /\ shared' = [shared EXCEPT ![s][OwnerOf[t]] = 1]
        /\ UNCHANGED owner
     \/ /\ mode[t] = "Exclusive"
        /\ owner' = [owner EXCEPT ![s] = OwnerOf[t]]
        /\ UNCHANGED shared
  /\ Goto(t, "guard")
  /\ UNCHANGED <<objects, alloc, word, hits, notifyVars,
                 guards, mode, ref, retries, expired>>

RecordOwner(t) ==
  LET s == ref[t] IN
  /\ pc[t] = "record"
  /\ \/ /\ mode[t] = "Shared"
        /\ shared' = [shared EXCEPT ![s][OwnerOf[t]] = @ + 1]
        /\ UNCHANGED owner
     \/ /\ mode[t] = "Exclusive"
        /\ owner' = [owner EXCEPT ![s] = OwnerOf[t]]
        /\ UNCHANGED shared
  /\ Goto(t, "guard")
  /\ UNCHANGED <<objects, alloc, word, hits, notifyVars,
                 guards, mode, ref, retries, expired>>

\* FastLockGuard::new and register_guard.
RegisterGuard(t) ==
  /\ pc[t] = "guard"
  /\ guards' = guards \cup {t}
  /\ Goto(t, "held")
  /\ UNCHANGED <<stateVars, notifyVars, mode, ref, retries, expired>>

-----------------------------------------------------------------------------
(* Release: FastLockGuard::release or drop, release_lock_with_guard. *)

\* The guard leaves active_guards first.
ReleaseGuard(t) ==
  /\ pc[t] = "held"
  /\ guards' = guards \ {t}
  /\ Goto(t, IF t \in guards THEN "rel" ELSE "refused")
  /\ UNCHANGED <<stateVars, notifyVars, mode, ref, retries, expired>>

\* What release_shared / release_exclusive require of the map's instance.
OwnsEntry(t, s) ==
  IF mode[t] = "Shared" THEN shared[s][OwnerOf[t]] > 0
                        ELSE owner[s] = OwnerOf[t]

NoReaderLeft(s) == \A o \in Owners : shared'[s][o] = 0

\* The release works on the instance the map has now, not on the one acquired.
\* A reader that leaves others behind wakes nobody.
ReleaseState(t) ==
  LET s == objects IN
  /\ pc[t] = "rel"
  /\ s # 0
  /\ OwnsEntry(t, s)
  /\ CanRelease(word[s], mode[t])
  /\ word' = [word EXCEPT ![s] = Released(@, mode[t])]
  /\ \/ /\ mode[t] = "Shared"
        /\ shared' = [shared EXCEPT ![s][OwnerOf[t]] = @ - 1]
        /\ UNCHANGED owner
     \/ /\ mode[t] = "Exclusive"
        /\ owner' = [owner EXCEPT ![s] = None]
        /\ UNCHANGED shared
  /\ \/ /\ mode[t] = "Exclusive" \/ NoReaderLeft(s)
        /\ ref' = [ref EXCEPT ![t] = s]
        /\ Goto(t, "notify")
        /\ UNCHANGED <<mode, retries, expired>>
     \/ /\ mode[t] = "Shared"
        /\ ~NoReaderLeft(s)
        /\ Finish(t)
  /\ UNCHANGED <<objects, alloc, hits, notifyVars, guards>>

\* No entry in the map, another owner's entry, or an inconsistent word.
ReleaseRefused(t) ==
  LET s == objects IN
  /\ pc[t] = "rel"
  /\ ~(s # 0 /\ OwnsEntry(t, s) /\ CanRelease(word[s], mode[t]))
  /\ Goto(t, "refused")
  /\ UNCHANGED <<stateVars, notifyVars, guards, mode, ref, retries, expired>>

\* A guard whose release was refused counts as unreleased: dropping it removes
\* it from active_guards once more, finds it gone, and gives up.
DropRefused(t) ==
  /\ pc[t] = "refused"
  /\ guards' = guards \ {t}
  /\ Finish(t)
  /\ UNCHANGED <<stateVars, notifyVars>>

-----------------------------------------------------------------------------
(* Notification. *)

Woke(W) == [u \in Tasks |-> IF u \in W THEN "woken" ELSE pc[u]]

Parked == {u \in Tasks : pc[u] = "parked"}

\* Notify::notify_one wakes the first parked task or stores a permit; with
\* SharedSlot the first one may be parked there for another key.
NotifyOne(W) ==
  \/ W = {} /\ SharedSlot /\ UNCHANGED <<queue, permit>>
  \/ queue # <<>> /\ W = {Head(queue)} /\ queue' = Tail(queue) /\ UNCHANGED permit
  \/ queue = <<>> /\ W = {} /\ permit' = TRUE /\ UNCHANGED queue

\* Notify::notify_waiters wakes every parked task and stores nothing.
NotifyAll(W) == W = Parked /\ queue' = <<>> /\ UNCHANGED permit

NotifyNone(W) == W = {} /\ UNCHANGED <<queue, permit>>

NotifyWriter(s, W) ==
  IF waiters[s]["Exclusive"] > 0 THEN NotifyOne(W) ELSE NotifyNone(W)

NotifyReaders(s, W) ==
  IF waiters[s]["Shared"] > 0 THEN NotifyAll(W) ELSE NotifyNone(W)

\* The last reader wakes a writer; a writer wakes a writer if the word counts
\* one, else the readers.
NotifyAfterRelease(t, W) ==
  LET s == ref[t] IN
  IF mode[t] = "Shared" \/ word[s].wwait > 0
  THEN NotifyWriter(s, W)
  ELSE NotifyReaders(s, W)

\* The release's last step; it also drops the map's read lock.
NotifyWaiters(t) ==
  /\ pc[t] = "notify"
  /\ \E W \in SUBSET Parked :
       /\ NotifyAfterRelease(t, W)
       /\ pc' = [Woke(W) EXCEPT ![t] = "idle"]
  /\ Forget(t)
  /\ UNCHANGED <<stateVars, waiters, leaked, guards>>

\* Releases of the other keys that use the slot.
ForeignNotify ==
  /\ SharedSlot
  /\ \E W \in SUBSET Parked :
       /\ NotifyOne(W) \/ NotifyAll(W)
       /\ pc' = Woke(W)
  /\ UNCHANGED <<stateVars, waiters, leaked, guards, mode, ref, retries, expired>>

-----------------------------------------------------------------------------
(* The caller drops the acquire future where it is suspended. *)

CancelBackoff(t) ==
  /\ pc[t] = "decide"
  /\ ~expired[t]
  /\ retries[t] < MaxRetries
  /\ Finish(t)
  /\ UNCHANGED <<stateVars, notifyVars, guards>>

\* inc_*_waiting is left without its dec_*_waiting, for good.
Leak(t) ==
  /\ leaked[ref[t]][mode[t]] < MaxCancels
  /\ leaked' = [leaked EXCEPT ![ref[t]][mode[t]] = @ + 1]

CancelParked(t) ==
  /\ pc[t] = "parked"
  /\ LeaveQueue(t)
  /\ Leak(t)
  /\ Finish(t)
  /\ UNCHANGED <<stateVars, waiters, permit, guards>>

\* Woken and not polled since: a dropped Notified passes a notify_one on to the
\* next waiter, and a notify_waiters on to nobody.
CancelWoken(t) ==
  /\ pc[t] = "woken"
  /\ Leak(t)
  /\ \E W \in SUBSET Parked :
       /\ NotifyOne(W) \/ NotifyNone(W)
       /\ pc' = [Woke(W) EXCEPT ![t] = "idle"]
  /\ Forget(t)
  /\ UNCHANGED <<stateVars, waiters, guards>>

Cancel(t) == CancelBackoff(t) \/ CancelParked(t) \/ CancelWoken(t)

-----------------------------------------------------------------------------
(* Cleanup. *)

\* Tasks that cloned instance s and will still act on it.
InFlight(s) ==
  {t \in Tasks : ref[t] = s /\ pc[t] \in {"cas1", "cas2", "cas3", "decide"}}

\* Faulty: waiters protect an entry, holders do not.
CleanupLocked ==
  LET s == objects IN
  /\ s # 0
  /\ MapWritable
  /\ ~HasWaiters(word[s])
  /\ CleanupWindow \/ InFlight(s) = {}
  /\ alloc < MaxStates
  /\ objects' = 0
  /\ hits' = IF InFlight(s) = {} THEN hits ELSE hits \cup {s}
  /\ UNCHANGED <<alloc, word, owner, shared, notifyVars, taskVars>>

\* adaptive_cleanup and cleanup_expired: an unlocked and unwaited entry, last
\* accessed longer ago than the threshold, leaves the map.  Nothing in the
\* code looks for tasks in flight: that is CleanupWindow; with CleanupWindow =
\* FALSE only the runs in which cleanup misses that window are considered.
Cleanup ==
  LET s == objects IN
  /\ s # 0
  /\ MapWritable
  /\ word[s] = FreeWord
  /\ ~HasWaiters(word[s])
  /\ CleanupWindow \/ InFlight(s) = {}
  /\ alloc < MaxStates
  /\ objects' = 0
  /\ hits' = IF InFlight(s) = {} THEN hits ELSE hits \cup {s}
  /\ UNCHANGED <<alloc, word, owner, shared, notifyVars, taskVars>>

-----------------------------------------------------------------------------
TaskStep(t) ==
  \/ Lookup(t) \/ TryFast(t) \/ Recheck(t) \/ TryRechecked(t)
  \/ GetOrCreate(t) \/ TrySlow(t)
  \/ GiveUp(t) \/ Backoff(t) \/ Wait(t)
  \/ RegisterWaiter(t) \/ Park(t) \/ Woken(t) \/ WaitTimeout(t)
  \/ DecAfterWait(t)
  \/ RecordOwner(t) \/ RegisterGuard(t)
  \/ ReleaseState(t) \/ ReleaseRefused(t) \/ DropRefused(t)
  \/ NotifyWaiters(t)

Next ==
  \/ \E t \in Tasks :
       \/ TaskStep(t)
       \/ \E m \in Modes : Start(t, m)
       \/ Deadline(t)
       \/ ReleaseGuard(t)
       \/ Cancel(t)
  \/ ForeignNotify
  \/ Cleanup

Spec == Init /\ [][Next]_vars

\* The runtime schedules every runnable task, time passes, and the map's lock
\* lets a waiting writer in (parking_lot's RwLock queues later readers behind
\* it).  Nothing makes a caller start or drop a request or release its guard, or
\* other keys notify.
Fairness ==
  \A t \in Tasks : /\ WF_vars(TaskStep(t))
                   /\ WF_vars(Deadline(t))
                   /\ SF_vars(Recheck(t))
                   /\ SF_vars(GetOrCreate(t))

FairSpec == Spec /\ Fairness

-----------------------------------------------------------------------------
(* Properties. *)

\* From the compare-and-swap to the release of the state.
Holds(t, m) == mode[t] = m /\ pc[t] \in {"record", "guard", "held", "rel"}

Holders(m) == {t \in Tasks : Holds(t, m)}

\* Mutual exclusion of the key: while a task holds the lock exclusively, from
\* its compare-and-swap to its release, no other task holds it in any mode.
MutualExclusion ==
  \A t, u \in Tasks :
    Holds(t, "Exclusive") /\ u # t => ~Holds(u, "Exclusive") /\ ~Holds(u, "Shared")

\* What a cleanup between a task's clone and its use costs, whatever owner
\* strings the tasks share: each instance removed that way (a hit) adds at most
\* one exclusive holder, or one group of readers, to the one there may be.
\* Without a hit this is mutual exclusion.  The guard of a removed instance can
\* release the lock another task of its node has on the new one, and still no
\* more holders than that get in.
HitsBoundHolders ==
  Cardinality(Holders("Exclusive")) + (IF Holders("Shared") = {} THEN 0 ELSE 1)
    <= Cardinality(hits) + 1

\* The word counts what is held: readers equals the shared holders and the
\* flag the exclusive one, so neither a lost count keeps writers out for ever
\* nor a spare one lets a writer in.
WordCountsHolders ==
  objects # 0 =>
    /\ word[objects].readers = Cardinality(Holders("Shared"))
    /\ word[objects].writer <=> Holders("Exclusive") # {}

\* The owner tables, written after the word, agree with it: each owner's count
\* is the number of its recorded shared guards (the node's tasks share one
\* string), and the exclusive owner is the holder's.
OwnerTablesAgree ==
  objects # 0 =>
    /\ \A o \in Owners :
         shared[objects][o] =
           Cardinality({t \in Holders("Shared") : pc[t] # "record" /\ OwnerOf[t] = o})
    /\ owner[objects] # None =>
         \E t \in Holders("Exclusive") : pc[t] # "record" /\ OwnerOf[t] = owner[objects]

Waiting(t, m) ==
  mode[t] = m /\ pc[t] \in {"register", "park", "granted", "parked", "woken", "dec",
                            "timedOut"}

\* The waiting counts of the word, which keep writers out of a free lock,
\* count exactly the tasks that wait now and the waits that were dropped: a
\* wait that is woken or times out leaves no count behind, and a dropped one
\* leaves one for ever.
WaitingCountsExact ==
  objects # 0 =>
    /\ word[objects].rwait = Cardinality({t \in Tasks : Waiting(t, "Shared")})
                               + leaked[objects]["Shared"]
    /\ word[objects].wwait = Cardinality({t \in Tasks : Waiting(t, "Exclusive")})
                               + leaked[objects]["Exclusive"]

\* A guard's release is never refused: the instance it acquired is the one
\* the map has, and its owner is recorded there.
NoRefusedRelease == \A t \in Tasks : pc[t] # "refused"

\* Every parked task can still be reached by a release: it is in the queue and
\* its instance's counter is not 0.
ParkedReachable ==
  \A t \in Parked :
    /\ \E i \in 1..Len(queue) : queue[i] = t
    /\ waiters[ref[t]][mode[t]] > 0

\* The lock implements the abstract reader-writer lock: each task's mode, from
\* its compare-and-swap to the release of the state, changes only by an
\* acquisition compatible with all other tasks or by that task's own release.
HeldMode == [t \in Tasks |-> IF pc[t] \in {"record", "guard", "held", "rel"}
                             THEN mode[t] ELSE None]

Abstract == INSTANCE RWLock WITH Clients <- Tasks, NoMode <- None, held <- HeldMode

ImplementsRWLock == Abstract!RWSpec

\* A request always ends, with a guard or with a timeout.
RequestEnds ==
  \A t \in Tasks : pc[t] = "lookup" ~> pc[t] \in {"held", "idle"}

=============================================================================
