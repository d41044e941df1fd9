--------------------------- MODULE FastLockProofs ---------------------------
(***************************************************************************)
(* The in-process lock for any number of tasks, owners, instances, retries *)
(* and waits, and with any use of the notification slot by other keys.     *)
(***************************************************************************)
EXTENDS FastLock, FiniteSetTheorems, SequenceTheorems, TLAPS

USE FastLockAssumption, WidthAssumption DEF FastLockAssumption, WidthAssumption

-----------------------------------------------------------------------------
(* What holds whether or not cleanup hits its window. *)

HoldPCs == {"record", "guard", "held", "rel"}

InFlightPCs == {"cas1", "cas2", "cas3", "decide"}

WaitPCs == {"register", "park", "granted", "parked", "woken", "dec", "timedOut"}

\* A task that will use its Arc has one.
RefsAllocated ==
  \A t \in Tasks :
    pc[t] \in HoldPCs \cup InFlightPCs \cup WaitPCs \cup {"notify"} => ref[t] \in 1..alloc

Registered(s, m) ==
  {t \in Tasks : ref[t] = s /\ mode[t] = m /\ pc[t] \in {"park", "granted", "parked", "woken"}}

\* The notification counters count at least the tasks that have registered.
WaitersCover ==
  \A s \in States, m \in Modes : Cardinality(Registered(s, m)) <= waiters[s][m]

ParkedQueued == \A t \in Tasks : pc[t] = "parked" => \E i \in 1..Len(queue) : queue[i] = t

\* Only exclusive requests look twice; the map's entry has been allocated.
Wellformed ==
  /\ \A t \in Tasks : pc[t] \in {"recheck", "cas2"} => mode[t] = "Exclusive"
  /\ objects <= alloc
  /\ \A s \in States : s > alloc => \A o \in Owners : shared[s][o] = 0
  /\ \A t \in Tasks : t \in guards <=> pc[t] = "held"

Base == TypeOK /\ RefsAllocated /\ WaitersCover /\ ParkedQueued /\ Wellformed

LEMMA FiniteTasks ==
  \A S \in SUBSET Tasks : IsFiniteSet(S) /\ Cardinality(S) \in Nat
BY FS_Subset, FS_CardinalityType

LEMMA WordFields ==
  ASSUME NEW w \in LockWords
  PROVE  /\ w.writer \in BOOLEAN
         /\ w.readers \in 0..MaxReaders
         /\ w.rwait \in 0..MaxWaiting
         /\ w.wwait \in 0..MaxWaiting
         /\ \A b \in BOOLEAN : [w EXCEPT !.writer = b] \in LockWords
         /\ \A n \in 0..MaxReaders : [w EXCEPT !.readers = n] \in LockWords
         /\ \A n \in 0..MaxWaiting : [w EXCEPT !.rwait = n] \in LockWords
         /\ \A n \in 0..MaxWaiting : [w EXCEPT !.wwait = n] \in LockWords
BY DEF LockWords

LEMMA FreeWordType == FreeWord \in LockWords
BY DEF FreeWord, LockWords

LEMMA WordTypes ==
  ASSUME NEW w \in LockWords, NEW m \in Modes
  PROVE  /\ CanAcquire(w, m) => Acquired(w, m) \in LockWords
         /\ CanRelease(w, m) => Released(w, m) \in LockWords
         /\ IncWaiting(w, m) \in LockWords
         /\ DecWaiting(w, m) \in LockWords
<1>1. ASSUME CanAcquire(w, m) PROVE Acquired(w, m) \in LockWords
  <2>1. CASE m = "Shared"
    <3>1. w.readers + 1 \in 0..MaxReaders
      BY <1>1, <2>1, WordFields DEF CanAcquire, CanShare
    <3> QED
      BY <2>1, <3>1, WordFields DEF Acquired
  <2>2. CASE m # "Shared"
    BY <2>2, WordFields DEF Acquired
  <2> QED
    BY <2>1, <2>2
<1>2. ASSUME CanRelease(w, m) PROVE Released(w, m) \in LockWords
  <2>1. CASE m = "Shared"
    <3>1. w.readers - 1 \in 0..MaxReaders
      BY <1>2, <2>1, WordFields DEF CanRelease
    <3> QED
      BY <2>1, <3>1, WordFields DEF Released
  <2>2. CASE m # "Shared"
    BY <2>2, WordFields DEF Released
  <2> QED
    BY <2>1, <2>2
<1>3. IncWaiting(w, m) \in LockWords /\ DecWaiting(w, m) \in LockWords
  BY DEF LockWords, Modes, IncWaiting, DecWaiting
<1> QED
  BY <1>1, <1>2, <1>3

WaitCount(w, m) == IF m = "Shared" THEN w.rwait ELSE w.wwait

\* A waiting count moves by one as long as it is inside its field.
LEMMA WaitFields ==
  ASSUME NEW w \in LockWords, NEW m \in Modes
  PROVE  /\ WaitCount(w, m) < MaxWaiting =>
              /\ IncWaiting(w, m).rwait = w.rwait + (IF m = "Shared" THEN 1 ELSE 0)
              /\ IncWaiting(w, m).wwait = w.wwait + (IF m = "Shared" THEN 0 ELSE 1)
         /\ WaitCount(w, m) # 0 =>
              /\ DecWaiting(w, m).rwait = w.rwait + (IF m = "Shared" THEN -1 ELSE 0)
              /\ DecWaiting(w, m).wwait = w.wwait + (IF m = "Shared" THEN 0 ELSE -1)
<1>1. CASE m = "Shared"
  BY <1>1 DEF LockWords, IncWaiting, DecWaiting, WaitCount
<1>2. CASE m = "Exclusive"
  BY <1>2 DEF LockWords, IncWaiting, DecWaiting, WaitCount
<1> QED
  BY <1>1, <1>2 DEF Modes

LEMMA WaitRoom ==
  ASSUME NEW a \in Nat, NEW b \in Nat, NEW c \in 0..MaxCancels,
         a + 1 <= b, b + MaxCancels <= MaxWaiting
  PROVE  a + c < MaxWaiting
OBVIOUS

USE DEF Goto, States, Forget

LEMMA Counters ==
  ASSUME NotifyType, NEW s \in States, NEW m \in Modes
  PROVE  /\ waiters[s][m] \in Nat /\ waiters[s] \in [Modes -> Nat]
         /\ leaked[s][m] \in 0..MaxCancels /\ leaked[s][m] \in Nat
<1>1. waiters[s] \in [Modes -> Nat]
  BY DEF NotifyType
<1>2. leaked[s] \in [Modes -> 0..MaxCancels]
  BY DEF NotifyType
<1> QED
  BY <1>1, <1>2

LEMMA StateTypeStep == ASSUME TypeOK, RefsAllocated, [Next]_vars PROVE StateType'
<1> USE DEF StateType
<1> StateType
  BY DEF TypeOK
<1>0. \A t \in Tasks : mode[t] \in Modes /\ ref[t] \in 0..MaxStates /\ OwnerOf[t] \in Owners
  BY DEF TypeOK, TaskType
<1>1. \A w \in LockWords, m \in Modes :
          /\ CanAcquire(w, m) => Acquired(w, m) \in LockWords
          /\ CanRelease(w, m) => Released(w, m) \in LockWords
          /\ IncWaiting(w, m) \in LockWords
          /\ DecWaiting(w, m) \in LockWords
  BY WordTypes
<1>2. FreeWord \in LockWords /\ Acquired(FreeWord, "Exclusive") \in LockWords
  BY FreeWordType, WordFields DEF Acquired
<1>3. ASSUME UNCHANGED stateVars PROVE StateType'
  BY <1>3 DEF stateVars
<1>4. ASSUME NEW t \in Tasks, NEW from \in InFlightPCs, NEW onFail, Try(t, from, onFail)
      PROVE  StateType'
  <2>1. ref[t] \in States
    BY <1>4 DEF Try, RefsAllocated
  <2>2. word[ref[t]] \in LockWords
    BY <2>1
  <2> QED
    BY <1>0, <1>1, <1>4, <2>1, <2>2 DEF Try
<1>5. ASSUME NEW t \in Tasks, Recheck(t) \/ GetOrCreate(t) PROVE StateType'
  <2>1. CASE CloneEntry(t)
    BY <1>3, <2>1 DEF CloneEntry
  <2>2. ASSUME NEW w \in LockWords, NEW o \in Owners \cup {None}, Create(t, w, o)
        PROVE  StateType'
    BY <2>2 DEF Create
  <2> QED
    BY <1>0, <1>2, <1>5, <2>1, <2>2 DEF Recheck, GetOrCreate
<1>6. ASSUME NEW t \in Tasks, Wait(t) \/ DecAfterWait(t) PROVE StateType'
  <2>1. ref[t] \in States
    BY <1>6 DEF Wait, DecAfterWait, RefsAllocated, InFlightPCs, WaitPCs
  <2>2. word[ref[t]] \in LockWords
    BY <2>1
  <2>3. IncWaiting(word[ref[t]], mode[t]) \in LockWords /\ DecWaiting(word[ref[t]], mode[t]) \in LockWords
    BY <1>0, <1>1, <2>2
  <2>4. word' \in [States -> LockWords]
    BY <1>6, <2>1, <2>3 DEF Wait, DecAfterWait
  <2>5. UNCHANGED <<objects, alloc, owner, shared, hits>>
    BY <1>6 DEF Wait, DecAfterWait
  <2> QED
    BY <2>4, <2>5
<1>7. ASSUME NEW t \in Tasks, RecordOwner(t) PROVE StateType'
  <2>1. ref[t] \in States
    BY <1>7 DEF RecordOwner, RefsAllocated, HoldPCs
  <2>2. shared[ref[t]] \in [Owners -> Nat] /\ OwnerOf[t] \in Owners
    BY <1>0, <2>1
  <2>3. [shared[ref[t]] EXCEPT ![OwnerOf[t]] = @ + 1] \in [Owners -> Nat]
    BY <2>2
  <2>4. shared' \in [States -> [Owners -> Nat]]
    <3>1. [shared EXCEPT ![ref[t]][OwnerOf[t]] = @ + 1] \in [States -> [Owners -> Nat]]
      BY <2>1, <2>3
    <3> QED
      BY <1>7, <3>1 DEF RecordOwner
  <2>5. owner' \in [States -> Owners \cup {None}]
    BY <1>7, <2>1, <2>2 DEF RecordOwner
  <2> QED
    BY <1>7, <2>4, <2>5 DEF RecordOwner
<1>8. ASSUME NEW t \in Tasks, ReleaseState(t) PROVE StateType'
  <2>1. word' \in [States -> LockWords]
    BY <1>0, <1>1, <1>8 DEF ReleaseState
  <2>2. objects \in States /\ OwnerOf[t] \in Owners
    BY <1>0, <1>8 DEF ReleaseState
  <2>3. shared' \in [States -> [Owners -> Nat]]
    <3>1. mode[t] = "Shared" => shared[objects][OwnerOf[t]] - 1 \in Nat
      BY <1>8, <2>2 DEF ReleaseState, OwnsEntry
    <3>2. ASSUME mode[t] = "Shared"
          PROVE  [shared EXCEPT ![objects][OwnerOf[t]] = @ - 1] \in [States -> [Owners -> Nat]]
      <4>1. [shared[objects] EXCEPT ![OwnerOf[t]] = @ - 1] \in [Owners -> Nat]
        BY <2>2, <3>1, <3>2
      <4> QED
        BY <2>2, <4>1
    <3> QED
      BY <1>8, <3>2 DEF ReleaseState
  <2>4. owner' \in [States -> Owners \cup {None}]
    BY <1>8, <2>2 DEF ReleaseState
  <2> QED
    BY <1>8, <2>1, <2>3, <2>4 DEF ReleaseState
<1>9. ASSUME Cleanup PROVE StateType'
  BY <1>9 DEF Cleanup
<1>10. ASSUME NEW t \in Tasks,
              \/ \E m \in Modes : Start(t, m)
              \/ Lookup(t) \/ Deadline(t) \/ GiveUp(t) \/ Backoff(t)
              \/ RegisterWaiter(t) \/ Park(t) \/ Woken(t) \/ WaitTimeout(t)
              \/ RegisterGuard(t) \/ ReleaseGuard(t) \/ ReleaseRefused(t) \/ DropRefused(t)
              \/ NotifyWaiters(t) \/ Cancel(t)
       PROVE  UNCHANGED stateVars
  BY <1>10 DEF Cancel, CancelBackoff, CancelParked, CancelWoken, Start, Lookup, Deadline, GiveUp, Backoff, RegisterWaiter, Park, Woken,
               WaitTimeout, RegisterGuard, ReleaseGuard, ReleaseRefused, DropRefused,
               NotifyWaiters
<1>11. ASSUME ForeignNotify \/ UNCHANGED vars PROVE UNCHANGED stateVars
  BY <1>11 DEF ForeignNotify, vars
<1> QED
  BY <1>3, <1>4, <1>5, <1>6, <1>7, <1>8, <1>9, <1>10, <1>11
  DEF Next, TaskStep, TryFast, TryRechecked, TrySlow, InFlightPCs

LEMMA Notified ==
  ASSUME NEW t \in Tasks, NEW W, NotifyAfterRelease(t, W)
  PROVE  NotifyOne(W) \/ NotifyAll(W) \/ NotifyNone(W)
BY DEF NotifyAfterRelease, NotifyWriter, NotifyReaders

LEMMA RemoveAtElements ==
  ASSUME NEW T, NEW q \in Seq(T), NEW i \in 1..Len(q)
  PROVE  /\ Seqs!RemoveAt(q, i) \in Seq(T)
         /\ Len(Seqs!RemoveAt(q, i)) = Len(q) - 1
         /\ \A j \in 1..Len(q) : j < i => Seqs!RemoveAt(q, i)[j] = q[j]
         /\ \A j \in 1..Len(q) : j > i => Seqs!RemoveAt(q, i)[j - 1] = q[j]
<1> DEFINE a == SubSeq(q, 1, i - 1)
           b == SubSeq(q, i + 1, Len(q))
<1>0. Len(q) \in Nat /\ i \in 1..Len(q)
  OBVIOUS
<1>1. a \in Seq(T) /\ Len(a) = i - 1 /\ \A j \in 1..(i - 1) : a[j] = q[j]
  OBVIOUS
<1>2. b \in Seq(T) /\ Len(b) = Len(q) - i /\ \A j \in 1..(Len(q) - i) : b[j] = q[i + j]
  OBVIOUS
<1> HIDE DEF a, b
<1>3. Seqs!RemoveAt(q, i) = a \o b
  BY DEF Seqs!RemoveAt, a, b
<1>4. a \in Seq(T) /\ b \in Seq(T)
  BY <1>1, <1>2
<1>5. /\ a \o b \in Seq(T)
      /\ Len(a \o b) = Len(a) + Len(b)
      /\ \A k \in 1..(Len(a) + Len(b)) :
           (a \o b)[k] = IF k <= Len(a) THEN a[k] ELSE b[k - Len(a)]
  BY <1>4, ConcatProperties, Zenon
<1>6. Len(a \o b) = Len(q) - 1
  BY <1>0, <1>1, <1>2, <1>5
<1>7. ASSUME NEW j \in 1..Len(q), j < i PROVE (a \o b)[j] = q[j]
  <2>1. j \in 1..(Len(a) + Len(b)) /\ j <= Len(a) /\ j \in 1..(i - 1)
    BY <1>0, <1>1, <1>2, <1>7
  <2> QED
    BY <1>1, <1>5, <2>1
<1>8. ASSUME NEW j \in 1..Len(q), j > i PROVE (a \o b)[j - 1] = q[j]
  <2>1. /\ j - 1 \in 1..(Len(a) + Len(b)) /\ ~(j - 1 <= Len(a))
        /\ (j - 1) - Len(a) = j - i /\ j - i \in 1..(Len(q) - i) /\ i + (j - i) = j
    BY <1>0, <1>1, <1>2, <1>8
  <2>2. (a \o b)[j - 1] = b[j - i]
    BY <1>5, <2>1
  <2>3. b[j - i] = q[i + (j - i)]
    BY <1>2, <2>1
  <2> QED
    BY <2>1, <2>2, <2>3
<1> QED
  BY <1>3, <1>5, <1>6, <1>7, <1>8

LEMMA RemoveAtKeepsOthers ==
  ASSUME NEW T, NEW q \in Seq(T), NEW i \in 1..Len(q), NEW j \in 1..Len(q), q[j] # q[i]
  PROVE  \E k \in 1..Len(Seqs!RemoveAt(q, i)) : Seqs!RemoveAt(q, i)[k] = q[j]
<1> DEFINE r == Seqs!RemoveAt(q, i)
<1>1. /\ Len(r) = Len(q) - 1
      /\ j < i => r[j] = q[j]
      /\ j > i => r[j - 1] = q[j]
  BY RemoveAtElements
<1> HIDE DEF r
<1>2. Len(q) \in Nat /\ i \in 1..Len(q) /\ j \in 1..Len(q)
  OBVIOUS
<1>3. j # i
  OBVIOUS
<1>4. CASE j < i
  <2>1. j \in 1..Len(r)
    BY <1>1, <1>2, <1>4
  <2>2. \E k \in 1..Len(r) : r[k] = q[j]
    BY <1>1, <1>4, <2>1
  <2> QED
    BY <2>2 DEF r
<1>5. CASE j > i
  <2>1. j - 1 \in 1..Len(r)
    BY <1>1, <1>2, <1>5
  <2>2. \E k \in 1..Len(r) : r[k] = q[j]
    BY <1>1, <1>5, <2>1
  <2> QED
    BY <2>2 DEF r
<1> QED
  BY <1>2, <1>3, <1>4, <1>5

LEMMA TailKeepsOthers ==
  ASSUME NEW T, NEW q \in Seq(T), q # <<>>, NEW i \in 1..Len(q), q[i] # Head(q)
  PROVE  \E k \in 1..Len(Tail(q)) : Tail(q)[k] = q[i]
<1>1. /\ Len(q) \in Nat /\ Head(q) = q[1] /\ Len(Tail(q)) = Len(q) - 1
      /\ \A k \in 1..Len(Tail(q)) : Tail(q)[k] = q[k + 1]
  OBVIOUS
<1>2. i # 1
  BY <1>1
<1>3. i - 1 \in 1..Len(Tail(q)) /\ (i - 1) + 1 = i
  BY <1>1, <1>2
<1>4. Tail(q)[i - 1] = q[(i - 1) + 1]
  BY <1>1, <1>3
<1> QED
  BY <1>3, <1>4

LEMMA NotifyTypeStep ==
  ASSUME TypeOK, RefsAllocated, WaitersCover, [Next]_vars PROVE NotifyType'
<1> USE DEF NotifyType
<1> NotifyType
  BY DEF TypeOK
<1>0. \A t \in Tasks : mode[t] \in Modes
  BY DEF TypeOK, TaskType
<1>1. ASSUME UNCHANGED notifyVars PROVE NotifyType'
  BY <1>1 DEF notifyVars
<1>2. ASSUME NEW t \in Tasks, RegisterWaiter(t) PROVE NotifyType'
  <2>1. ref[t] \in States
    BY <1>2 DEF RegisterWaiter, RefsAllocated, WaitPCs, TypeOK, StateType
  <2>a. [waiters[ref[t]] EXCEPT ![mode[t]] = @ + 1] \in [Modes -> Nat]
    <3>1. waiters[ref[t]] \in [Modes -> Nat] /\ mode[t] \in Modes
      BY <1>0, <2>1, Counters
    <3> HIDE DEF NotifyType
    <3> QED
      BY <3>1
  <2>2. [waiters EXCEPT ![ref[t]][mode[t]] = @ + 1] \in [States -> [Modes -> Nat]]
    BY <2>1, <2>a
  <2> QED
    BY <1>2, <2>2 DEF RegisterWaiter
<1>3. ASSUME NEW t \in Tasks, Park(t) PROVE NotifyType'
  <2>1. Append(queue, t) \in Seq(Tasks)
    OBVIOUS
  <2> QED
    BY <1>3, <2>1 DEF Park
<1>4. ASSUME NEW t \in Tasks, Woken(t) PROVE NotifyType'
  <2>1. ref[t] \in States /\ t \in Registered(ref[t], mode[t])
    BY <1>4 DEF Woken, RefsAllocated, WaitPCs, TypeOK, StateType, Registered
  <2>2. Cardinality(Registered(ref[t], mode[t])) \in Nat \ {0}
    BY <2>1, FiniteTasks, FS_EmptySet DEF Registered
  <2>3. waiters[ref[t]][mode[t]] - 1 \in Nat
    BY <1>0, <2>1, <2>2 DEF WaitersCover
  <2>b. [waiters[ref[t]] EXCEPT ![mode[t]] = @ - 1] \in [Modes -> Nat]
    <3>1. waiters[ref[t]] \in [Modes -> Nat] /\ mode[t] \in Modes
      BY <1>0, <2>1, Counters
    <3> HIDE DEF NotifyType
    <3> QED
      BY <2>3, <3>1
  <2>4. [waiters EXCEPT ![ref[t]][mode[t]] = @ - 1] \in [States -> [Modes -> Nat]]
    BY <2>1, <2>b
  <2> QED
    BY <1>4, <2>4 DEF Woken
<1>a. ASSUME NEW t \in Tasks, LeaveQueue(t) PROVE queue' \in Seq(Tasks)
  BY <1>a, RemoveAtElements DEF LeaveQueue
<1>5. ASSUME NEW t \in Tasks, WaitTimeout(t) PROVE NotifyType'
  <2>1. UNCHANGED <<waiters, permit, leaked>> /\ LeaveQueue(t)
    BY <1>5 DEF WaitTimeout
  <2> QED
    BY <1>a, <2>1
<1>6. ASSUME NEW W, NotifyOne(W) \/ NotifyAll(W) \/ NotifyNone(W)
      PROVE  queue' \in Seq(Tasks) /\ permit' \in BOOLEAN
  <2>1. queue # <<>> => Tail(queue) \in Seq(Tasks)
    OBVIOUS
  <2>2. queue' = queue \/ queue' = <<>> \/ (queue # <<>> /\ queue' = Tail(queue))
    BY <1>6 DEF NotifyOne, NotifyAll, NotifyNone
  <2>e. <<>> \in Seq(Tasks)
    OBVIOUS
  <2>3. queue' \in Seq(Tasks)
    BY <2>1, <2>2, <2>e
  <2>4. permit' \in BOOLEAN
    BY <1>6 DEF NotifyOne, NotifyAll, NotifyNone
  <2> QED
    BY <2>3, <2>4
<1>7. ASSUME NEW t \in Tasks, NotifyWaiters(t) PROVE NotifyType'
  BY <1>6, <1>7, Notified DEF NotifyWaiters
<1>8. ASSUME ForeignNotify PROVE NotifyType'
  BY <1>6, <1>8 DEF ForeignNotify
<1>b. ASSUME NEW t \in Tasks, Leak(t), ref[t] \in States
      PROVE  leaked' \in [States -> [Modes -> 0..MaxCancels]]
  <2>1. leaked[ref[t]][mode[t]] + 1 \in 0..MaxCancels
    BY <1>0, <1>b DEF Leak
  <2>2. [leaked[ref[t]] EXCEPT ![mode[t]] = @ + 1] \in [Modes -> 0..MaxCancels]
    BY <1>0, <1>b, <2>1
  <2>3. [leaked EXCEPT ![ref[t]][mode[t]] = @ + 1] \in [States -> [Modes -> 0..MaxCancels]]
    BY <1>b, <2>2
  <2> QED
    BY <1>b, <2>3 DEF Leak
<1>c. ASSUME NEW t \in Tasks, CancelParked(t) \/ CancelWoken(t) PROVE NotifyType'
  <2>1. ref[t] \in States
    BY <1>c DEF CancelParked, CancelWoken, RefsAllocated, WaitPCs, TypeOK, StateType
  <2>2. leaked' \in [States -> [Modes -> 0..MaxCancels]] /\ waiters' = waiters
    BY <1>b, <1>c, <2>1 DEF CancelParked, CancelWoken
  <2>3. CASE CancelParked(t)
    BY <1>a, <2>2, <2>3 DEF CancelParked
  <2>4. CASE CancelWoken(t)
    BY <1>6, <2>2, <2>4 DEF CancelWoken
  <2> QED
    BY <1>c, <2>3, <2>4
<1>9. ASSUME NEW t \in Tasks,
             \/ \E m \in Modes : Start(t, m)
             \/ Lookup(t) \/ TryFast(t) \/ Recheck(t) \/ TryRechecked(t)
             \/ GetOrCreate(t) \/ TrySlow(t) \/ Deadline(t) \/ GiveUp(t) \/ Backoff(t)
             \/ CancelBackoff(t)
             \/ Wait(t) \/ DecAfterWait(t) \/ RecordOwner(t) \/ RegisterGuard(t)
             \/ ReleaseGuard(t) \/ ReleaseState(t) \/ ReleaseRefused(t) \/ DropRefused(t)
      PROVE  UNCHANGED notifyVars
  BY <1>9 DEF Start, Lookup, TryFast, Recheck, TryRechecked, GetOrCreate, TrySlow, Try,
              Deadline, CancelBackoff, GiveUp, Backoff, Wait, DecAfterWait, RecordOwner, RegisterGuard,
              ReleaseGuard, ReleaseState, ReleaseRefused, DropRefused
<1>10. ASSUME Cleanup \/ UNCHANGED vars PROVE UNCHANGED notifyVars
  BY <1>10 DEF Cleanup, vars
<1> QED
  BY <1>1, <1>2, <1>3, <1>4, <1>5, <1>7, <1>8, <1>c, <1>9, <1>10 DEF Next, TaskStep, Cancel

LEMMA TaskTypeStep == ASSUME TypeOK, [Next]_vars PROVE TaskType'
<1> USE DEF TaskType
<1> TaskType
  BY DEF TypeOK
<1>0. objects \in 0..MaxStates /\ alloc \in 0..MaxStates /\ "Shared" \in Modes
  BY DEF TypeOK, StateType, Modes
<1>1. ASSUME NEW t \in Tasks, NEW l \in PCs PROVE [pc EXCEPT ![t] = l] \in [Tasks -> PCs]
  OBVIOUS
<1>2. ASSUME NEW t \in Tasks, CountRetry(t) PROVE retries' \in [Tasks -> 0..MaxRetries]
  BY <1>2 DEF CountRetry
<1>3. ASSUME NEW t \in Tasks, Finish(t)
      PROVE  /\ pc' \in [Tasks -> PCs]
             /\ mode' \in [Tasks -> Modes]
             /\ ref' \in [Tasks -> 0..MaxStates]
             /\ retries' \in [Tasks -> 0..MaxRetries]
             /\ expired' \in [Tasks -> BOOLEAN]
  BY <1>0, <1>3 DEF Finish, PCs
<1>4. ASSUME NEW t \in Tasks, NEW m \in Modes, Start(t, m) PROVE TaskType'
  BY <1>4 DEF Start, PCs
<1>5. ASSUME NEW t \in Tasks, Lookup(t) PROVE TaskType'
  BY <1>0, <1>5 DEF Lookup, PCs
<1>6. ASSUME NEW t \in Tasks, NEW from, NEW onFail \in PCs, Try(t, from, onFail)
      PROVE  TaskType'
  BY <1>6 DEF Try, PCs
<1>7. ASSUME NEW t \in Tasks, Recheck(t) \/ GetOrCreate(t) PROVE TaskType'
  <2>1. ref' \in [Tasks -> 0..MaxStates]
    BY <1>0, <1>7 DEF Recheck, GetOrCreate, Create, CloneEntry
  <2> QED
    BY <1>7, <2>1 DEF Recheck, GetOrCreate, PCs
<1>8. ASSUME NEW t \in Tasks, Deadline(t) PROVE TaskType'
  BY <1>8 DEF Deadline
<1>9. ASSUME NEW t \in Tasks,
             GiveUp(t) \/ DropRefused(t) \/ CancelBackoff(t) \/ CancelParked(t)
      PROVE  TaskType'
  BY <1>3, <1>9 DEF GiveUp, DropRefused, CancelBackoff, CancelParked
<1>10. ASSUME NEW t \in Tasks, Backoff(t) PROVE TaskType'
  BY <1>2, <1>10 DEF Backoff, PCs
<1>11. ASSUME NEW t \in Tasks, Wait(t) \/ RegisterWaiter(t) \/ Park(t) \/ Woken(t) \/ WaitTimeout(t)
       PROVE  TaskType'
  BY <1>11 DEF Wait, RegisterWaiter, Park, Woken, WaitTimeout, PCs
<1>12. ASSUME NEW t \in Tasks, DecAfterWait(t) PROVE TaskType'
  BY <1>2, <1>3, <1>12 DEF DecAfterWait, PCs
<1>13. ASSUME NEW t \in Tasks, RecordOwner(t) \/ RegisterGuard(t) \/ ReleaseGuard(t) \/ ReleaseRefused(t)
       PROVE  TaskType'
  BY <1>13 DEF RecordOwner, RegisterGuard, ReleaseGuard, ReleaseRefused, PCs
<1>14. ASSUME NEW t \in Tasks, ReleaseState(t) PROVE TaskType'
  <2>1. CASE Finish(t)
    BY <1>3, <1>14, <2>1 DEF ReleaseState
  <2>2. CASE ref' = [ref EXCEPT ![t] = objects] /\ Goto(t, "notify") /\ UNCHANGED <<mode, retries, expired>>
    BY <1>0, <1>14, <2>2 DEF ReleaseState, PCs
  <2> QED
    BY <1>14, <2>1, <2>2 DEF ReleaseState
<1>15. ASSUME NEW W PROVE Woke(W) \in [Tasks -> PCs]
  BY DEF Woke, PCs
<1>16. ASSUME NEW t \in Tasks, NotifyWaiters(t) \/ CancelWoken(t) PROVE TaskType'
  <2>1. PICK W : pc' = [Woke(W) EXCEPT ![t] = "idle"]
    BY <1>16 DEF NotifyWaiters, CancelWoken
  <2>2. pc' \in [Tasks -> PCs]
    BY <1>15, <2>1 DEF PCs
  <2>3. Forget(t) /\ guards' = guards
    BY <1>16 DEF NotifyWaiters, CancelWoken
  <2> QED
    BY <1>0, <2>2, <2>3
<1>17. ASSUME ForeignNotify PROVE TaskType'
  BY <1>15, <1>17 DEF ForeignNotify
<1>18. ASSUME Cleanup \/ UNCHANGED vars PROVE TaskType'
  BY <1>18 DEF Cleanup, vars, taskVars
<1> QED
  BY <1>4, <1>5, <1>6, <1>7, <1>8, <1>9, <1>10, <1>11, <1>12, <1>13, <1>14, <1>16, <1>17, <1>18
  DEF Next, TaskStep, TryFast, TryRechecked, TrySlow, Cancel, PCs

\* A step of one task leaves the others alone, except that it may wake some.
Others(t) ==
  \A u \in Tasks \ {t} :
    /\ mode'[u] = mode[u]
    /\ ref'[u] = ref[u]
    /\ pc'[u] = pc[u] \/ (pc[u] = "parked" /\ pc'[u] = "woken")

\* A dropped request leaves behind only its waiting counts.
LEMMA Dropped ==
  ASSUME TypeOK, NEW t \in Tasks, Cancel(t)
  PROVE  /\ Others(t)
         /\ pc[t] \in {"decide", "parked", "woken"} /\ pc'[t] = "idle"
         /\ UNCHANGED <<stateVars, waiters, guards>>
         /\ leaked' = leaked \/ (pc[t] \in {"parked", "woken"} /\ Leak(t))
         /\ pc[t] = "decide" => leaked' = leaked
<1> USE DEF TypeOK, TaskType, Others
<1>1. CASE CancelBackoff(t) \/ CancelParked(t)
  BY <1>1 DEF CancelBackoff, CancelParked, Finish, notifyVars
<1>2. CASE CancelWoken(t)
  <2>1. PICK W \in SUBSET Parked : pc' = [Woke(W) EXCEPT ![t] = "idle"]
    BY <1>2 DEF CancelWoken
  <2>2. /\ \A u \in Tasks \ {t} : pc'[u] = IF u \in W THEN "woken" ELSE pc[u]
        /\ pc'[t] = "idle"
    BY <2>1 DEF Woke
  <2> QED
    BY <1>2, <2>1, <2>2 DEF CancelWoken, Parked
<1> QED
  BY <1>1, <1>2 DEF Cancel

LEMMA Frame ==
  ASSUME TypeOK, NEW t \in Tasks,
         \/ TaskStep(t) \/ Deadline(t) \/ ReleaseGuard(t) \/ Cancel(t)
         \/ \E m \in Modes : Start(t, m)
  PROVE  Others(t)
<1> USE DEF TypeOK, TaskType, Others
<1>2. ASSUME Finish(t) PROVE Others(t)
  BY <1>2 DEF Finish
<1>3. ASSUME NEW m \in Modes, Start(t, m) PROVE Others(t)
  BY <1>3 DEF Start
<1>4. ASSUME Lookup(t) PROVE Others(t)
  BY <1>4 DEF Lookup
<1>5. ASSUME NEW from, NEW onFail, Try(t, from, onFail) PROVE Others(t)
  BY <1>5 DEF Try
<1>6. ASSUME Recheck(t) \/ GetOrCreate(t) PROVE Others(t)
  BY <1>6 DEF Recheck, GetOrCreate, Create, CloneEntry
<1>7. ASSUME \/ Deadline(t) \/ Backoff(t) \/ Wait(t) \/ RegisterWaiter(t) \/ Park(t)
             \/ Woken(t) \/ WaitTimeout(t) \/ RecordOwner(t) \/ RegisterGuard(t)
             \/ ReleaseGuard(t) \/ ReleaseRefused(t)
      PROVE  Others(t)
  BY <1>7 DEF Deadline, Backoff, Wait, RegisterWaiter, Park, Woken, WaitTimeout,
              RecordOwner, RegisterGuard, ReleaseGuard, ReleaseRefused
<1>8. ASSUME GiveUp(t) \/ DropRefused(t) PROVE Others(t)
  BY <1>2, <1>8 DEF GiveUp, DropRefused
<1>9. ASSUME DecAfterWait(t) PROVE Others(t)
  BY <1>2, <1>9 DEF DecAfterWait
<1>10. ASSUME ReleaseState(t) PROVE Others(t)
  BY <1>2, <1>10 DEF ReleaseState
<1>11. ASSUME NotifyWaiters(t) PROVE Others(t)
  <2>1. PICK W \in SUBSET Parked : pc' = [Woke(W) EXCEPT ![t] = "idle"]
    BY <1>11 DEF NotifyWaiters
  <2>2. \A u \in Tasks \ {t} : pc'[u] = IF u \in W THEN "woken" ELSE pc[u]
    BY <2>1 DEF Woke
  <2> QED
    BY <1>11, <2>1, <2>2 DEF NotifyWaiters, Parked
<1> QED
  BY <1>3, <1>4, <1>5, <1>6, <1>7, <1>8, <1>9, <1>10, <1>11, Dropped
  DEF TaskStep, TryFast, TryRechecked, TrySlow

LEMMA FrameForeign ==
  ASSUME TypeOK, ForeignNotify
  PROVE  /\ UNCHANGED <<stateVars, waiters, leaked, guards, mode, ref>>
         /\ \A u \in Tasks : pc'[u] = pc[u] \/ (pc[u] = "parked" /\ pc'[u] = "woken")
<1>1. PICK W \in SUBSET Parked : pc' = Woke(W)
  BY DEF ForeignNotify
<1>2. \A u \in Tasks : pc'[u] = IF u \in W THEN "woken" ELSE pc[u]
  BY <1>1 DEF Woke
<1> QED
  BY <1>1, <1>2 DEF ForeignNotify, Parked

LEMMA RefsStep ==
  ASSUME TypeOK, RefsAllocated, Wellformed, [Next]_vars PROVE RefsAllocated'
<1> DEFINE Uses == HoldPCs \cup InFlightPCs \cup WaitPCs \cup {"notify"}
<1> USE DEF HoldPCs, InFlightPCs, WaitPCs, TypeOK, StateType, TaskType
<1>1. ASSUME NEW t \in Tasks, Others(t), alloc' \in Nat, alloc' >= alloc,
             pc'[t] \in Uses => ref'[t] \in 1..alloc'
      PROVE  RefsAllocated'
  <2>1. ASSUME NEW u \in Tasks \ {t}, pc'[u] \in Uses PROVE ref'[u] \in 1..alloc'
    <3>1. pc[u] \in Uses /\ ref'[u] = ref[u]
      BY <1>1, <2>1 DEF Others
    <3>2. ref[u] \in 1..alloc
      BY <3>1 DEF RefsAllocated
    <3> QED
      BY <1>1, <3>1, <3>2
  <2> QED
    BY <1>1, <2>1 DEF RefsAllocated
<1>0. ASSUME NEW t \in Tasks, Others(t), alloc' = alloc,
             \/ pc'[t] \in {"idle", "lookup", "recheck", "getOrCreate", "refused"}
             \/ ref'[t] = objects /\ objects # 0
      PROVE  RefsAllocated'
  <2>1. pc'[t] \in Uses => ref'[t] \in 1..alloc'
    BY <1>0 DEF Wellformed
  <2>2. alloc' \in Nat /\ alloc' >= alloc
    BY <1>0
  <2> QED
    BY <1>0, <1>1, <2>1, <2>2
<1>2. ASSUME NEW t \in Tasks,
             \/ TaskStep(t) \/ Deadline(t) \/ ReleaseGuard(t) \/ Cancel(t)
             \/ \E m \in Modes : Start(t, m)
      PROVE  RefsAllocated'
  <2>0. Others(t)
    BY <1>2, Frame
  <2>1. CASE \E m \in Modes : Start(t, m)
    <3>1. pc'[t] = "lookup" /\ alloc' = alloc
      BY <2>1 DEF Start, stateVars
    <3> QED
      BY <1>0, <2>0, <3>1
  <2>2. CASE Lookup(t)
    <3>1. alloc' = alloc /\ (pc'[t] \in {"recheck", "getOrCreate"} \/ (ref'[t] = objects /\ objects # 0))
      BY <2>2 DEF Lookup, stateVars
    <3> QED
      BY <1>0, <2>0, <3>1
  <2>3. ASSUME NEW from \in InFlightPCs, NEW onFail, Try(t, from, onFail) PROVE RefsAllocated'
    <3>1. ref[t] \in 1..alloc /\ ref' = ref /\ alloc' = alloc
      BY <2>3 DEF Try, RefsAllocated
    <3> QED
      BY <1>1, <2>0, <3>1
  <2>4. CASE Recheck(t) \/ GetOrCreate(t)
    <3>1. CASE CloneEntry(t)
      BY <1>1, <2>0, <3>1 DEF CloneEntry, Wellformed, stateVars
    <3>2. ASSUME NEW w, NEW o, Create(t, w, o) PROVE RefsAllocated'
      BY <1>1, <2>0, <3>2 DEF Create
    <3> QED
      BY <2>4, <3>1, <3>2 DEF Recheck, GetOrCreate
  <2>5. CASE \/ Deadline(t) \/ Wait(t) \/ RegisterWaiter(t) \/ Park(t)
             \/ Woken(t) \/ WaitTimeout(t) \/ RecordOwner(t) \/ RegisterGuard(t)
    <3>1. pc[t] \in Uses \/ pc'[t] = pc[t]
      BY <2>5 DEF Deadline, Wait, RegisterWaiter, Park, Woken, WaitTimeout, RecordOwner, RegisterGuard
    <3>2. ref' = ref /\ alloc' = alloc
      BY <2>5 DEF Deadline, Wait, RegisterWaiter, Park, Woken, WaitTimeout, RecordOwner, RegisterGuard,
                  stateVars
    <3> QED
      BY <1>1, <2>0, <3>1, <3>2 DEF RefsAllocated
  <2>6. CASE ReleaseGuard(t) \/ ReleaseRefused(t)
    <3>1. pc[t] \in Uses /\ ref' = ref /\ alloc' = alloc
      BY <2>6 DEF ReleaseGuard, ReleaseRefused, stateVars
    <3> QED
      BY <1>1, <2>0, <3>1 DEF RefsAllocated
  <2>7. CASE GiveUp(t) \/ DropRefused(t) \/ Backoff(t) \/ DecAfterWait(t) \/ NotifyWaiters(t)
    <3>1. pc'[t] \in {"idle", "getOrCreate"} /\ alloc' = alloc
      <4>1. CASE GiveUp(t) \/ DropRefused(t) \/ Backoff(t) \/ DecAfterWait(t)
        BY <4>1 DEF GiveUp, DropRefused, Backoff, DecAfterWait, Finish, stateVars
      <4>2. CASE NotifyWaiters(t)
        BY <4>2 DEF NotifyWaiters, Woke, stateVars
      <4> QED
        BY <2>7, <4>1, <4>2
    <3> QED
      BY <1>0, <2>0, <3>1
  <2>8. CASE ReleaseState(t)
    <3>1. /\ alloc' = alloc /\ objects # 0
          /\ pc'[t] = "idle" \/ (pc'[t] = "notify" /\ ref'[t] = objects)
      BY <2>8 DEF ReleaseState, Finish
    <3> QED
      BY <1>0, <2>0, <3>1
  <2>9. CASE Cancel(t)
    <3>1. pc'[t] = "idle" /\ alloc' = alloc
      BY <2>9, Dropped DEF stateVars
    <3> QED
      BY <1>0, <2>0, <3>1
  <2> QED
    BY <1>2, <2>1, <2>2, <2>3, <2>4, <2>5, <2>6, <2>7, <2>8, <2>9
    DEF TaskStep, TryFast, TryRechecked, TrySlow
<1>3. ASSUME ForeignNotify PROVE RefsAllocated'
  BY <1>3, FrameForeign DEF RefsAllocated, stateVars
<1>4. ASSUME Cleanup \/ UNCHANGED vars PROVE RefsAllocated'
  BY <1>4 DEF Cleanup, vars, taskVars, stateVars, RefsAllocated
<1> QED
  BY <1>2, <1>3, <1>4 DEF Next

LEMMA QueueStep ==
  ASSUME TypeOK, ParkedQueued, [Next]_vars PROVE ParkedQueued'
<1> USE DEF TypeOK, NotifyType, TaskType
<1>1. ASSUME NEW t \in Tasks, Others(t), queue' = queue, pc'[t] = "parked" => pc[t] = "parked"
      PROVE  ParkedQueued'
  BY <1>1 DEF Others, ParkedQueued
<1>2. ASSUME NEW W \in SUBSET Parked, NotifyOne(W) \/ NotifyAll(W) \/ NotifyNone(W),
             NEW u \in Tasks, pc[u] = "parked", u \notin W
      PROVE  \E i \in 1..Len(queue') : queue'[i] = u
  <2>1. PICK i \in 1..Len(queue) : queue[i] = u
    BY <1>2 DEF ParkedQueued
  <2>2. CASE queue' = queue
    BY <2>1, <2>2
  <2>3. CASE queue # <<>> /\ W = {Head(queue)} /\ queue' = Tail(queue)
    <3>1. queue[i] # Head(queue)
      BY <1>2, <2>1, <2>3
    <3>2. \E k \in 1..Len(Tail(queue)) : Tail(queue)[k] = queue[i]
      BY <2>3, <3>1, TailKeepsOthers
    <3> QED
      BY <2>1, <2>3, <3>2
  <2>4. CASE W = Parked
    BY <1>2, <2>4 DEF Parked
  <2> QED
    BY <1>2, <2>2, <2>3, <2>4 DEF NotifyOne, NotifyAll, NotifyNone
<1>3. ASSUME NEW t \in Tasks, Park(t) PROVE ParkedQueued'
  <2>0. Others(t)
    BY <1>3, Frame DEF TaskStep
  <2>1. CASE permit /\ queue' = queue /\ Goto(t, "granted")
    BY <1>1, <2>0, <2>1
  <2>2. CASE queue' = Append(queue, t)
    <3>1. \A i \in 1..Len(queue) : i \in 1..Len(queue') /\ queue'[i] = queue[i]
      BY <2>2
    <3>2. Len(queue') \in 1..Len(queue') /\ queue'[Len(queue')] = t
      BY <2>2
    <3>3. \A u \in Tasks \ {t} : pc'[u] = "parked" => pc[u] = "parked"
      BY <2>0 DEF Others
    <3> QED
      BY <3>1, <3>2, <3>3 DEF ParkedQueued
  <2> QED
    BY <1>3, <2>1, <2>2 DEF Park
<1>4. ASSUME NEW t \in Tasks, WaitTimeout(t) \/ CancelParked(t) PROVE ParkedQueued'
  <2>0. LeaveQueue(t) /\ \A u \in Tasks : pc'[u] = "parked" => u # t /\ pc[u] = "parked"
    BY <1>4 DEF WaitTimeout, CancelParked, Finish
  <2>1. PICK i \in 1..Len(queue) : queue[i] = t /\ queue' = Seqs!RemoveAt(queue, i)
    BY <2>0 DEF LeaveQueue
  <2>2. ASSUME NEW j \in 1..Len(queue), queue[j] # t
        PROVE  \E k \in 1..Len(queue') : queue'[k] = queue[j]
    <3>1. queue \in Seq(Tasks)
      OBVIOUS
    <3>2. \E k \in 1..Len(Seqs!RemoveAt(queue, i)) : Seqs!RemoveAt(queue, i)[k] = queue[j]
      BY <2>1, <2>2, <3>1, RemoveAtKeepsOthers, Zenon
    <3> QED
      BY <2>1, <3>2
  <2>3. ASSUME NEW u \in Tasks, pc'[u] = "parked" PROVE \E j \in 1..Len(queue') : queue'[j] = u
    <3>1. u # t /\ pc[u] = "parked"
      BY <2>0, <2>3
    <3>2. PICK j \in 1..Len(queue) : queue[j] = u
      BY <3>1 DEF ParkedQueued
    <3> QED
      BY <2>2, <3>1, <3>2
  <2> QED
    BY <2>3 DEF ParkedQueued
<1>5. ASSUME NEW t \in Tasks, NotifyWaiters(t) \/ CancelWoken(t) PROVE ParkedQueued'
  <2>1. PICK W \in SUBSET Parked :
          /\ NotifyOne(W) \/ NotifyAll(W) \/ NotifyNone(W)
          /\ pc' = [Woke(W) EXCEPT ![t] = "idle"]
    BY <1>5, Notified DEF NotifyWaiters, CancelWoken
  <2>2. \A u \in Tasks : pc'[u] = "parked" => pc[u] = "parked" /\ u \notin W
    BY <2>1 DEF Woke
  <2> QED
    BY <1>2, <2>1, <2>2 DEF ParkedQueued
<1>6. ASSUME ForeignNotify PROVE ParkedQueued'
  <2>1. PICK W \in SUBSET Parked : (NotifyOne(W) \/ NotifyAll(W)) /\ pc' = Woke(W)
    BY <1>6 DEF ForeignNotify
  <2>2. \A u \in Tasks : pc'[u] = "parked" => pc[u] = "parked" /\ u \notin W
    BY <2>1 DEF Woke
  <2> QED
    BY <1>2, <2>1, <2>2 DEF ParkedQueued
<1>7. ASSUME NEW t \in Tasks,
             \/ \E m \in Modes : Start(t, m)
             \/ Lookup(t) \/ TryFast(t) \/ Recheck(t) \/ TryRechecked(t)
             \/ GetOrCreate(t) \/ TrySlow(t) \/ Deadline(t) \/ GiveUp(t) \/ Backoff(t)
             \/ CancelBackoff(t)
             \/ Wait(t) \/ RegisterWaiter(t) \/ Woken(t) \/ DecAfterWait(t)
             \/ RecordOwner(t) \/ RegisterGuard(t)
             \/ ReleaseGuard(t) \/ ReleaseState(t) \/ ReleaseRefused(t) \/ DropRefused(t)
      PROVE  ParkedQueued'
  <2>1. queue' = queue
    BY <1>7 DEF Start, Lookup, TryFast, Recheck, TryRechecked, GetOrCreate, TrySlow, Try,
                Deadline, CancelBackoff, GiveUp, Backoff, Wait, RegisterWaiter, Woken, DecAfterWait,
                RecordOwner, RegisterGuard, ReleaseGuard, ReleaseState, ReleaseRefused,
                DropRefused, notifyVars
  <2>2. pc'[t] # "parked" \/ pc' = pc
    BY <1>7 DEF Start, Lookup, TryFast, Recheck, TryRechecked, GetOrCreate, TrySlow, Try,
                Deadline, CancelBackoff, GiveUp, Backoff, Wait, RegisterWaiter, Woken, DecAfterWait,
                RecordOwner, RegisterGuard, ReleaseGuard, ReleaseState, ReleaseRefused,
                DropRefused, Finish
  <2> QED
    BY <1>1, <1>7, <2>1, <2>2, Frame DEF TaskStep, Cancel
<1>8. ASSUME Cleanup \/ UNCHANGED vars PROVE ParkedQueued'
  BY <1>8 DEF Cleanup, vars, taskVars, notifyVars, ParkedQueued
<1> QED
  BY <1>3, <1>4, <1>5, <1>6, <1>7, <1>8 DEF Next, TaskStep, Cancel

LEMMA WellformedStep ==
  ASSUME TypeOK, RefsAllocated, Wellformed, [Next]_vars PROVE Wellformed'
<1> USE DEF TypeOK, StateType, TaskType
<1> DEFINE Looks == \A t \in Tasks : pc[t] \in {"recheck", "cas2"} => mode[t] = "Exclusive"
           Alloc == objects <= alloc
           Fresh == \A s \in States : s > alloc => \A o \in Owners : shared[s][o] = 0
           Guards == \A t \in Tasks : t \in guards <=> pc[t] = "held"
<1>0. Looks /\ Alloc /\ Fresh /\ Guards
  BY DEF Wellformed
<1>1. ASSUME NEW t \in Tasks, Others(t),
             pc'[t] \in {"recheck", "cas2"} => mode'[t] = "Exclusive",
             alloc' = alloc \/ alloc' = alloc + 1, objects' <= alloc',
             \A s \in States : s > alloc => shared'[s] = shared[s],
             pc[t] # "held" /\ pc'[t] # "held" /\ guards' = guards
      PROVE  Wellformed'
  <2>1. Looks'
    BY <1>0, <1>1 DEF Others
  <2>2. Fresh'
    BY <1>0, <1>1
  <2>3. Guards'
    BY <1>0, <1>1 DEF Others
  <2> QED
    BY <1>1, <2>1, <2>2, <2>3 DEF Wellformed
<1>2. ASSUME NEW t \in Tasks,
             \/ \E m \in Modes : Start(t, m)
             \/ Lookup(t) \/ TryFast(t) \/ TryRechecked(t) \/ TrySlow(t)
             \/ GiveUp(t) \/ Backoff(t) \/ Wait(t) \/ RegisterWaiter(t) \/ Park(t)
             \/ Woken(t) \/ WaitTimeout(t) \/ DecAfterWait(t) \/ ReleaseRefused(t)
             \/ NotifyWaiters(t)
      PROVE  Wellformed'
  <2>1. UNCHANGED <<objects, alloc, shared, guards>>
    BY <1>2 DEF Start, Lookup, TryFast, TryRechecked, TrySlow, Try, GiveUp, Backoff, Wait,
                RegisterWaiter, Park, Woken, WaitTimeout, DecAfterWait, ReleaseRefused,
                NotifyWaiters, stateVars
  <2>2. pc[t] # "held" /\ pc'[t] # "held"
    BY <1>2 DEF Start, Lookup, TryFast, TryRechecked, TrySlow, Try, GiveUp, Backoff, Wait,
                RegisterWaiter, Park, Woken, WaitTimeout, DecAfterWait, ReleaseRefused,
                NotifyWaiters, Woke, Finish
  <2>3. pc'[t] \in {"recheck", "cas2"} => mode'[t] = "Exclusive"
    BY <1>0, <1>2 DEF Start, Lookup, TryFast, TryRechecked, TrySlow, Try, GiveUp, Backoff, Wait,
                RegisterWaiter, Park, Woken, WaitTimeout, DecAfterWait, ReleaseRefused,
                NotifyWaiters, Woke, Finish, Modes
  <2> QED
    BY <1>0, <1>1, <1>2, <2>1, <2>2, <2>3, Frame DEF TaskStep
<1>3. ASSUME NEW t \in Tasks, Recheck(t) \/ GetOrCreate(t) PROVE Wellformed'
  <2>1. /\ pc[t] \in {"recheck", "getOrCreate"} /\ pc'[t] \in {"cas2", "guard", "cas3"}
        /\ pc'[t] = "cas2" => pc[t] = "recheck"
        /\ mode' = mode /\ guards' = guards
    BY <1>3 DEF Recheck, GetOrCreate
  <2>2. CASE CloneEntry(t)
    BY <1>0, <1>1, <1>3, <2>1, <2>2, Frame DEF TaskStep, CloneEntry, stateVars
  <2>3. ASSUME NEW w, NEW o, Create(t, w, o) PROVE Wellformed'
    <3>1. alloc' = alloc + 1 /\ objects' = alloc' /\ shared' = shared
      BY <2>3 DEF Create
    <3>2. Others(t)
      BY <1>3, Frame DEF TaskStep
    <3>3. pc'[t] \in {"recheck", "cas2"} => mode'[t] = "Exclusive"
      BY <1>0, <2>1
    <3>4. alloc' = alloc + 1 /\ objects' <= alloc' /\ \A s \in States : s > alloc => shared'[s] = shared[s]
      BY <3>1
    <3>5. pc[t] # "held" /\ pc'[t] # "held" /\ guards' = guards
      BY <2>1
    <3> QED
      BY <1>1, <3>2, <3>3, <3>4, <3>5
  <2> QED
    BY <1>3, <2>2, <2>3 DEF Recheck, GetOrCreate
<1>4. ASSUME NEW t \in Tasks, Deadline(t) PROVE Wellformed'
  BY <1>0, <1>4 DEF Deadline, Wellformed, stateVars
<1>5. ASSUME NEW t \in Tasks, RecordOwner(t) PROVE Wellformed'
  <2>1. ref[t] \in 1..alloc
    BY <1>5 DEF RecordOwner, RefsAllocated, HoldPCs
  <2>2. \A s \in States : s > alloc => shared'[s] = shared[s]
    BY <1>5, <2>1 DEF RecordOwner
  <2>3. /\ pc[t] = "record" /\ pc'[t] = "guard" /\ guards' = guards
        /\ objects' = objects /\ alloc' = alloc
    BY <1>5 DEF RecordOwner
  <2> QED
    BY <1>0, <1>1, <1>5, <2>2, <2>3, Frame DEF TaskStep
<1>6. ASSUME NEW t \in Tasks, RegisterGuard(t) \/ ReleaseGuard(t) \/ DropRefused(t)
      PROVE  Wellformed'
  <2>1. Guards'
    BY <1>0, <1>6 DEF RegisterGuard, ReleaseGuard, DropRefused, Finish
  <2>2. Looks'
    BY <1>0, <1>6 DEF RegisterGuard, ReleaseGuard, DropRefused, Finish
  <2>3. UNCHANGED stateVars
    BY <1>6 DEF RegisterGuard, ReleaseGuard, DropRefused
  <2> QED
    BY <1>0, <2>1, <2>2, <2>3 DEF Wellformed, stateVars
<1>7. ASSUME NEW t \in Tasks, ReleaseState(t) PROVE Wellformed'
  <2>1. objects' = objects /\ alloc' = alloc /\ guards' = guards
    BY <1>7 DEF ReleaseState
  <2>2. \A s \in States : s > alloc => shared'[s] = shared[s]
    BY <1>0, <1>7 DEF ReleaseState
  <2>3. pc[t] = "rel" /\ pc'[t] \in {"notify", "idle"}
    BY <1>7 DEF ReleaseState, Finish
  <2> QED
    BY <1>0, <1>1, <1>7, <2>1, <2>2, <2>3, Frame DEF TaskStep
<1>8. ASSUME ForeignNotify PROVE Wellformed'
  <2>1. Looks' /\ Guards'
    BY <1>0, <1>8, FrameForeign
  <2> QED
    BY <1>0, <1>8, <2>1, FrameForeign DEF Wellformed, stateVars
<1>9. ASSUME Cleanup PROVE Wellformed'
  BY <1>0, <1>9 DEF Cleanup, Wellformed, taskVars
<1>10. ASSUME UNCHANGED vars PROVE Wellformed'
  BY <1>10 DEF vars, stateVars, taskVars, Wellformed
<1>11. ASSUME NEW t \in Tasks, Cancel(t) PROVE Wellformed'
  <2>1. /\ Others(t) /\ pc[t] # "held" /\ pc'[t] = "idle"
        /\ UNCHANGED <<objects, alloc, shared, guards>>
    BY <1>11, Dropped DEF stateVars
  <2> QED
    BY <1>0, <1>1, <2>1
<1> QED
  BY <1>2, <1>3, <1>4, <1>5, <1>6, <1>7, <1>8, <1>9, <1>10, <1>11 DEF Next, TaskStep

LEMMA CoverStep ==
  ASSUME TypeOK, RefsAllocated, WaitersCover, [Next]_vars PROVE WaitersCover'
<1> USE DEF TypeOK, TaskType
<1> waiters \in [States -> [Modes -> Nat]]
  BY DEF NotifyType
<1> DEFINE Reg == {"park", "granted", "parked", "woken"}
<1>1. ASSUME NEW s \in States, NEW m \in Modes, Registered(s, m)' \subseteq Registered(s, m)
      PROVE  Cardinality(Registered(s, m)') <= Cardinality(Registered(s, m))
  BY <1>1, FiniteTasks, FS_Subset DEF Registered
<1>2. ASSUME waiters' = waiters,
             \A u \in Tasks : pc'[u] \in Reg => /\ pc[u] \in Reg
                                               /\ ref'[u] = ref[u] /\ mode'[u] = mode[u]
      PROVE  WaitersCover'
  <2> SUFFICES ASSUME NEW s \in States, NEW m \in Modes
               PROVE  Cardinality(Registered(s, m)') <= waiters'[s][m]
    BY DEF WaitersCover
  <2>1. Registered(s, m)' \subseteq Registered(s, m)
    BY <1>2 DEF Registered
  <2>2. Cardinality(Registered(s, m)) \in Nat /\ Cardinality(Registered(s, m)') \in Nat
    BY FiniteTasks DEF Registered
  <2>3. waiters'[s][m] = waiters[s][m] /\ waiters[s][m] \in Nat
    BY <1>2
  <2>4. Cardinality(Registered(s, m)) <= waiters[s][m]
    BY DEF WaitersCover
  <2>5. Cardinality(Registered(s, m)') <= Cardinality(Registered(s, m))
    BY <1>1, <2>1
  <2> QED
    BY <2>2, <2>3, <2>4, <2>5
<1>3. ASSUME NEW t \in Tasks,
             \/ \E m \in Modes : Start(t, m)
             \/ Lookup(t) \/ TryFast(t) \/ Recheck(t) \/ TryRechecked(t)
             \/ GetOrCreate(t) \/ TrySlow(t) \/ GiveUp(t) \/ Backoff(t)
             \/ Wait(t) \/ DecAfterWait(t) \/ RecordOwner(t) \/ RegisterGuard(t)
             \/ ReleaseGuard(t) \/ ReleaseState(t) \/ ReleaseRefused(t) \/ DropRefused(t)
             \/ NotifyWaiters(t)
      PROVE  WaitersCover'
  <2>1. waiters' = waiters
    BY <1>3 DEF Start, Lookup, TryFast, Recheck, TryRechecked, GetOrCreate, TrySlow, Try,
                GiveUp, Backoff, Wait, DecAfterWait, RecordOwner, RegisterGuard, ReleaseGuard,
                ReleaseState, ReleaseRefused, DropRefused, NotifyWaiters, notifyVars
  <2>2. pc'[t] \notin Reg
    BY <1>3 DEF Start, Lookup, TryFast, Recheck, TryRechecked, GetOrCreate, TrySlow, Try,
                GiveUp, Backoff, Wait, DecAfterWait, RecordOwner, RegisterGuard, ReleaseGuard,
                ReleaseState, ReleaseRefused, DropRefused, NotifyWaiters, Woke, Finish
  <2>3. Others(t)
    BY <1>3, Frame DEF TaskStep
  <2> QED
    BY <1>2, <2>1, <2>2, <2>3 DEF Others
<1>4. ASSUME NEW t \in Tasks, Deadline(t) PROVE WaitersCover'
  BY <1>2, <1>4 DEF Deadline, notifyVars
<1>5. ASSUME NEW t \in Tasks, Park(t) PROVE WaitersCover'
  BY <1>2, <1>5 DEF Park
<1>6. ASSUME NEW t \in Tasks, WaitTimeout(t) PROVE WaitersCover'
  BY <1>2, <1>6 DEF WaitTimeout
<1>7. ASSUME ForeignNotify PROVE WaitersCover'
  BY <1>2, <1>7, FrameForeign
<1>8. ASSUME Cleanup \/ UNCHANGED vars PROVE WaitersCover'
  BY <1>2, <1>8 DEF Cleanup, vars, taskVars, notifyVars
<1>9. ASSUME NEW t \in Tasks, RegisterWaiter(t) \/ Woken(t) PROVE WaitersCover'
  <2> SUFFICES ASSUME NEW s \in States, NEW m \in Modes
               PROVE  Cardinality(Registered(s, m)') <= waiters'[s][m]
    BY DEF WaitersCover
  <2>0. /\ IsFiniteSet(Registered(s, m)) /\ Cardinality(Registered(s, m)) \in Nat
        /\ Cardinality(Registered(s, m)') \in Nat
    BY FiniteTasks DEF Registered
  <2>1. waiters[s][m] \in Nat /\ Cardinality(Registered(s, m)) <= waiters[s][m]
    BY DEF WaitersCover
  <2>2. CASE s # ref[t] \/ m # mode[t]
    <3>1. Registered(s, m)' = Registered(s, m)
      BY <1>9, <2>2 DEF RegisterWaiter, Woken, Registered
    <3>2. waiters'[s][m] = waiters[s][m]
      BY <1>9, <2>2 DEF RegisterWaiter, Woken
    <3> QED
      BY <2>1, <3>1, <3>2
  <2>3. CASE s = ref[t] /\ m = mode[t] /\ RegisterWaiter(t)
    <3>1. Registered(s, m)' = Registered(s, m) \cup {t} /\ t \notin Registered(s, m)
      BY <2>3 DEF RegisterWaiter, Registered
    <3>2. waiters'[s][m] = waiters[s][m] + 1
      BY <2>3 DEF RegisterWaiter
    <3>3. Cardinality(Registered(s, m)') = Cardinality(Registered(s, m)) + 1
      BY <2>0, <3>1, FS_AddElement
    <3>4. Cardinality(Registered(s, m)) + 1 <= waiters[s][m] + 1
      BY <2>0, <2>1
    <3> QED
      BY <3>2, <3>3, <3>4
  <2>4. CASE s = ref[t] /\ m = mode[t] /\ Woken(t)
    <3>1. Registered(s, m)' = Registered(s, m) \ {t} /\ t \in Registered(s, m)
      BY <2>4 DEF Woken, Registered
    <3>2. waiters'[s][m] = waiters[s][m] - 1
      BY <2>4 DEF Woken
    <3>3. Cardinality(Registered(s, m)') = Cardinality(Registered(s, m)) - 1
      BY <2>0, <3>1, FS_RemoveElement
    <3>4. Cardinality(Registered(s, m)) - 1 <= waiters[s][m] - 1
      BY <2>0, <2>1
    <3> QED
      BY <3>2, <3>3, <3>4
  <2> QED
    BY <1>9, <2>2, <2>3, <2>4
<1>10. ASSUME NEW t \in Tasks, Cancel(t) PROVE WaitersCover'
  BY <1>2, <1>10, Dropped DEF Others
<1> QED
  BY <1>3, <1>4, <1>5, <1>6, <1>7, <1>8, <1>9, <1>10 DEF Next, TaskStep

LEMMA BaseInit == Init => Base
<1> SUFFICES ASSUME Init PROVE Base
  OBVIOUS
<1>1. TypeOK
  <2>1. StateType
    BY FreeWordType DEF Init, StateType
  <2>2. queue \in Seq(Tasks)
    <3>1. <<>> \in Seq(Tasks)
      OBVIOUS
    <3> QED
      BY <3>1 DEF Init
  <2>5. permit \in BOOLEAN
    BY DEF Init
  <2>3. waiters \in [States -> [Modes -> Nat]] /\ leaked \in [States -> [Modes -> 0..MaxCancels]]
    BY DEF Init
  <2>4. TaskType
    BY DEF Init, TaskType, PCs, Modes
  <2> QED
    BY <2>1, <2>2, <2>3, <2>4, <2>5 DEF TypeOK, NotifyType
<1>2. RefsAllocated /\ ParkedQueued /\ Wellformed
  BY DEF Init, RefsAllocated, HoldPCs, InFlightPCs, WaitPCs, ParkedQueued, Wellformed
<1>3. \A s \in States, m \in Modes : Registered(s, m) = {}
  BY DEF Init, Registered
<1>4. WaitersCover
  <2>1. \A s \in States, m \in Modes : Cardinality(Registered(s, m)) = 0
    BY <1>3, FS_EmptySet
  <2> QED
    BY <2>1 DEF Init, WaitersCover
<1> QED
  BY <1>1, <1>2, <1>4 DEF Base

LEMMA BaseStep == Base /\ [Next]_vars => Base'
BY StateTypeStep, NotifyTypeStep, TaskTypeStep, RefsStep, QueueStep, WellformedStep, CoverStep
DEF Base, TypeOK

LEMMA BaseHolds == Spec => []Base
BY BaseInit, BaseStep, PTL DEF Spec

\* Every reachable state is well typed: the word's fields keep their widths,
\* and no owner's count or waiter count falls below 0.
THEOREM Typing == Spec => []TypeOK
<1>1. Base => TypeOK
  BY DEF Base
<1> QED
  BY <1>1, BaseHolds, PTL

\* Whoever is parked can be reached by a release, whatever times out, and
\* whether or not cleanup or other keys interfere.
THEOREM Reachable == Spec => []ParkedReachable
<1>1. Base => ParkedReachable
  <2> SUFFICES ASSUME Base, NEW t \in Tasks, pc[t] = "parked"
               PROVE  /\ \E i \in 1..Len(queue) : queue[i] = t
                      /\ waiters[ref[t]][mode[t]] > 0
    BY DEF ParkedReachable, Parked
  <2>1. ref[t] \in States /\ mode[t] \in Modes
    BY DEF Base, TypeOK, StateType, TaskType, RefsAllocated, WaitPCs
  <2>2. t \in Registered(ref[t], mode[t])
    BY DEF Registered
  <2>3. Cardinality(Registered(ref[t], mode[t])) \in Nat \ {0}
    BY <2>2, FiniteTasks, FS_EmptySet DEF Registered
  <2>4. waiters[ref[t]][mode[t]] > 0
    <3>1. waiters[ref[t]][mode[t]] \in Nat
      BY <2>1, Counters DEF Base, TypeOK
    <3> QED
      BY <2>1, <2>3, <3>1 DEF Base, WaitersCover
  <2> QED
    BY <2>4 DEF Base, ParkedQueued
<1> QED
  BY <1>1, BaseHolds, PTL

-----------------------------------------------------------------------------
(* Exclusion, in the runs in which cleanup misses its window. *)

\* Whoever holds the lock, is about to try for it or has just released it
\* works on the instance that the map has.
OnTheEntry ==
  \A t \in Tasks :
    pc[t] \in HoldPCs \cup InFlightPCs \cup {"notify"} => objects # 0 /\ ref[t] = objects

\* The exclusive holder, once recorded, is the owner the table names.
OwnerRecorded ==
  \A t \in Tasks :
    Holds(t, "Exclusive") /\ pc[t] # "record" => owner[objects] = OwnerOf[t]

Closed ==
  /\ OnTheEntry
  /\ NoRefusedRelease
  /\ MutualExclusion
  /\ WordCountsHolders
  /\ OwnerTablesAgree
  /\ OwnerRecorded

Recorded(o) == {t \in Holders("Shared") : pc[t] # "record" /\ OwnerOf[t] = o}

\* A step that neither acquires, records nor releases.
QuietFor(t) ==
  /\ UNCHANGED <<objects, owner, shared>>
  /\ objects # 0 => /\ word'[objects].readers = word[objects].readers
                    /\ word'[objects].writer = word[objects].writer
  /\ \/ pc[t] \notin HoldPCs /\ pc'[t] \notin HoldPCs
     \/ /\ pc[t] \in HoldPCs /\ pc'[t] \in HoldPCs
        /\ pc'[t] = "record" <=> pc[t] = "record"
        /\ mode'[t] = mode[t] /\ ref'[t] = ref[t]
  /\ pc'[t] # "refused"
  /\ pc'[t] \in InFlightPCs \cup {"notify"} => objects # 0 /\ ref'[t] = objects

LEMMA QuietSets ==
  ASSUME TypeOK, NEW t \in Tasks, Others(t), QuietFor(t)
  PROVE  /\ Holders("Shared")' = Holders("Shared")
         /\ Holders("Exclusive")' = Holders("Exclusive")
         /\ \A o \in Owners : Recorded(o)' = Recorded(o)
<1> USE DEF TypeOK, TaskType
<1>1. \A u \in Tasks : /\ pc'[u] \in HoldPCs <=> pc[u] \in HoldPCs
                       /\ pc[u] \in HoldPCs => mode'[u] = mode[u]
                       /\ pc[u] \in HoldPCs => (pc'[u] = "record" <=> pc[u] = "record")
  BY DEF Others, QuietFor, HoldPCs
<1>2. \A m \in Modes : Holders(m)' = Holders(m)
  BY <1>1 DEF Holders, Holds, HoldPCs
<1>3. \A o \in Owners : Recorded(o)' = Recorded(o)
  BY <1>1, <1>2 DEF Recorded, Holders, Holds, HoldPCs, Modes
<1> QED
  BY <1>2, <1>3 DEF Modes

\* The invariant only looks at the holders, the map's entry and its tables.
LEMMA ClosedQuiet ==
  ASSUME TypeOK, Closed, NEW t \in Tasks, Others(t), QuietFor(t)
  PROVE  Closed'
<1> USE DEF TypeOK, TaskType
<1>0. /\ Holders("Shared")' = Holders("Shared")
      /\ Holders("Exclusive")' = Holders("Exclusive")
      /\ \A o \in Owners : Recorded(o)' = Recorded(o)
  BY QuietSets
<1>1. OnTheEntry'
  BY DEF Closed, OnTheEntry, Others, QuietFor, HoldPCs, InFlightPCs
<1>2. NoRefusedRelease'
  BY DEF Closed, NoRefusedRelease, Others, QuietFor
<1>3. MutualExclusion'
  BY <1>0 DEF Closed, MutualExclusion, Holders
<1>4. WordCountsHolders'
  BY <1>0 DEF Closed, WordCountsHolders, QuietFor
<1>5. \A u \in Tasks : Holds(u, "Exclusive")' /\ pc'[u] # "record"
                       => Holds(u, "Exclusive") /\ pc[u] # "record"
  BY DEF Holds, Others, QuietFor, HoldPCs
<1>6. OwnerRecorded'
  BY <1>5 DEF Closed, OwnerRecorded, QuietFor
<1>7. \A u \in Holders("Exclusive") : pc[u] # "record" => u \in Holders("Exclusive")' /\ pc'[u] # "record"
  BY DEF Holders, Holds, Others, QuietFor, HoldPCs
<1>8. OwnerTablesAgree'
  BY <1>0, <1>7 DEF Closed, OwnerTablesAgree, QuietFor, Recorded
<1> QED
  BY <1>1, <1>2, <1>3, <1>4, <1>6, <1>8 DEF Closed

LEMMA NoHolderOnFree ==
  ASSUME TypeOK, Closed
  PROVE  /\ objects = 0 => \A m \in Modes : Holders(m) = {}
         /\ objects # 0 /\ word[objects].readers = 0 => Holders("Shared") = {}
         /\ objects # 0 /\ ~word[objects].writer => Holders("Exclusive") = {}
         /\ objects # 0 /\ ~word[objects].writer => owner[objects] = None
<1>1. ASSUME objects = 0, NEW m \in Modes PROVE Holders(m) = {}
  BY <1>1 DEF Closed, OnTheEntry, Holders, Holds, HoldPCs
<1>2. ASSUME objects # 0, word[objects].readers = 0 PROVE Holders("Shared") = {}
  <2>1. Cardinality(Holders("Shared")) = 0 /\ IsFiniteSet(Holders("Shared"))
    BY <1>2, FiniteTasks DEF Closed, WordCountsHolders, Holders
  <2> QED
    BY <2>1, FS_EmptySet
<1>3. ASSUME objects # 0, ~word[objects].writer PROVE Holders("Exclusive") = {}
  BY <1>3 DEF Closed, WordCountsHolders
<1>4. ASSUME objects # 0, ~word[objects].writer PROVE owner[objects] = None
  BY <1>3, <1>4 DEF Closed, OwnerTablesAgree
<1> QED
  BY <1>1, <1>2, <1>3, <1>4

LEMMA ClosedTry ==
  ASSUME Base, Closed, NEW t \in Tasks, NEW from \in InFlightPCs,
         NEW onFail \in {"recheck", "getOrCreate", "decide"}, Others(t), Try(t, from, onFail)
  PROVE  Closed'
<1> USE DEF TypeOK, TaskType, StateType
<1> TypeOK
  BY DEF Base
<1>0. objects # 0 /\ ref[t] = objects /\ objects \in States /\ word[objects] \in LockWords
  BY DEF Try, Closed, OnTheEntry
<1>1. CASE ~CanAcquire(word[objects], mode[t])
  <2>1. UNCHANGED <<objects, owner, shared, word, mode, ref>> /\ pc'[t] = onFail /\ pc[t] = from
    BY <1>0, <1>1 DEF Try
  <2>2. QuietFor(t)
    BY <1>0, <2>1 DEF QuietFor, HoldPCs, InFlightPCs
  <2> QED
    BY <2>2, ClosedQuiet
<1>2. CASE CanAcquire(word[objects], mode[t])
  <2>1. /\ UNCHANGED <<objects, owner, shared, mode, ref>>
        /\ pc' = [pc EXCEPT ![t] = "record"] /\ pc[t] \notin HoldPCs
        /\ word'[objects] = Acquired(word[objects], mode[t])
    BY <1>0, <1>2 DEF Try, InFlightPCs, HoldPCs
  <2>2. \A o \in Owners : Recorded(o)' = Recorded(o)
    BY <2>1 DEF Recorded, Holders, Holds, HoldPCs
  <2>3. OnTheEntry' /\ NoRefusedRelease'
    BY <1>0, <2>1 DEF Closed, OnTheEntry, NoRefusedRelease, HoldPCs, InFlightPCs
  <2>4. ~word[objects].writer
    BY <1>0, <1>2 DEF CanAcquire, CanShare, CanOwn, FreeWord
  <2>5. Holders("Exclusive") = {} /\ owner[objects] = None
    BY <1>0, <2>4, NoHolderOnFree
  <2>6. OwnerTablesAgree'
    BY <2>1, <2>2, <2>5 DEF Closed, OwnerTablesAgree, Recorded
  <2>7. OwnerRecorded'
    <3>1. \A u \in Tasks : Holds(u, "Exclusive")' => u = t \/ u \in Holders("Exclusive")
      BY <2>1 DEF Holders, Holds
    <3> QED
      BY <2>1, <2>5, <3>1 DEF OwnerRecorded
  <2>8. CASE mode[t] = "Shared"
    <3>1. /\ Holders("Shared")' = Holders("Shared") \cup {t} /\ t \notin Holders("Shared")
          /\ Holders("Exclusive")' = Holders("Exclusive")
      BY <2>1, <2>8 DEF Holders, Holds, HoldPCs
    <3>2. /\ word'[objects].readers = word[objects].readers + 1
          /\ word'[objects].writer = word[objects].writer
      BY <1>0, <2>1, <2>8 DEF Acquired, LockWords
    <3>3. Cardinality(Holders("Shared")') = Cardinality(Holders("Shared")) + 1
      BY <3>1, FiniteTasks, FS_AddElement DEF Holders
    <3>4. WordCountsHolders'
      BY <1>0, <2>1, <3>1, <3>2, <3>3 DEF Closed, WordCountsHolders
    <3>5. MutualExclusion'
      BY <2>5, <3>1 DEF MutualExclusion, Holders
    <3> QED
      BY <2>3, <2>6, <2>7, <3>4, <3>5 DEF Closed
  <2>9. CASE mode[t] = "Exclusive"
    <3>0. word[objects].readers = 0
      BY <1>2, <2>9 DEF CanAcquire, CanOwn, FreeWord
    <3>1. Holders("Shared") = {}
      BY <1>0, <3>0, NoHolderOnFree
    <3>2. Holders("Shared")' = {} /\ Holders("Exclusive")' = {t}
      BY <2>1, <2>5, <2>9, <3>1 DEF Holders, Holds, HoldPCs
    <3>3. word'[objects].readers = 0 /\ word'[objects].writer = TRUE
      BY <1>0, <2>1, <2>9, <3>0 DEF Acquired, LockWords
    <3>4. WordCountsHolders'
      BY <2>1, <3>2, <3>3, FS_EmptySet DEF WordCountsHolders
    <3>5. MutualExclusion'
      BY <3>2 DEF MutualExclusion, Holders
    <3> QED
      BY <2>3, <2>6, <2>7, <3>4, <3>5 DEF Closed
  <2> QED
    BY <2>8, <2>9 DEF Modes
<1> QED
  BY <1>1, <1>2

LEMMA ClosedCreate ==
  ASSUME Base, Closed, NEW t \in Tasks, Others(t), NEW w, NEW o, Create(t, w, o), mode' = mode,
         \/ w = FreeWord /\ o = None /\ pc' = [pc EXCEPT ![t] = "cas3"]
         \/ /\ w = Acquired(FreeWord, "Exclusive") /\ o = OwnerOf[t] /\ mode[t] = "Exclusive"
            /\ pc' = [pc EXCEPT ![t] = "guard"]
  PROVE  Closed'
<1> USE DEF TypeOK, TaskType, StateType
<1> TypeOK
  BY DEF Base
<1> DEFINE s == alloc + 1
<1>0. /\ objects = 0 /\ s \in States /\ s # 0 /\ objects' = s /\ alloc' = s
      /\ word'[s] = w /\ owner'[s] = o /\ ref'[t] = s /\ shared' = shared
  BY DEF Create
<1>1. \A p \in Owners : shared'[s][p] = 0
  BY <1>0 DEF Base, Wellformed
<1>2. \A u \in Tasks : pc[u] \notin HoldPCs \cup InFlightPCs \cup {"notify"}
  BY <1>0 DEF Closed, OnTheEntry
<1>3. \A u \in Tasks \ {t} : pc'[u] \notin HoldPCs \cup InFlightPCs \cup {"notify"}
  BY <1>2 DEF Others, HoldPCs, InFlightPCs
<1>4. OnTheEntry'
  BY <1>0, <1>3 DEF OnTheEntry
<1>5. NoRefusedRelease'
  BY DEF Closed, NoRefusedRelease, Others
<1>6. Holders("Shared")' = {}
  BY <1>3 DEF Holders, Holds, HoldPCs
<1>7. \A p \in Owners : Recorded(p)' = {}
  BY <1>6 DEF Recorded
<1>8. word'[s].readers = 0
  BY <1>0 DEF Acquired, FreeWord
<1>9. CASE w = FreeWord /\ o = None /\ pc' = [pc EXCEPT ![t] = "cas3"]
  <2>1. Holders("Exclusive")' = {}
    BY <1>3, <1>9 DEF Holders, Holds, HoldPCs
  <2>2. word'[s].writer = FALSE
    BY <1>0, <1>9 DEF FreeWord
  <2>3. WordCountsHolders'
    BY <1>0, <1>6, <1>8, <2>1, <2>2, FS_EmptySet DEF WordCountsHolders
  <2>4. MutualExclusion'
    BY <1>6, <2>1 DEF MutualExclusion, Holders
  <2>5. OwnerTablesAgree'
    BY <1>0, <1>1, <1>7, <1>9, FS_EmptySet DEF OwnerTablesAgree, Recorded
  <2>6. OwnerRecorded'
    BY <2>1 DEF OwnerRecorded, Holders
  <2> QED
    BY <1>4, <1>5, <2>3, <2>4, <2>5, <2>6 DEF Closed
<1>10. CASE /\ w = Acquired(FreeWord, "Exclusive") /\ o = OwnerOf[t] /\ mode[t] = "Exclusive"
            /\ pc' = [pc EXCEPT ![t] = "guard"]
  <2>1. Holders("Exclusive")' = {t}
    BY <1>3, <1>10 DEF Holders, Holds, HoldPCs
  <2>2. word'[s].writer = TRUE
    BY <1>0, <1>10 DEF FreeWord, Acquired
  <2>3. WordCountsHolders'
    BY <1>0, <1>6, <1>8, <2>1, <2>2, FS_EmptySet DEF WordCountsHolders
  <2>4. MutualExclusion'
    BY <1>6, <2>1 DEF MutualExclusion, Holders
  <2>5. OwnerTablesAgree'
    BY <1>0, <1>1, <1>7, <1>10, <2>1, FS_EmptySet DEF OwnerTablesAgree, Recorded
  <2>6. OwnerRecorded'
    BY <1>0, <1>10, <2>1 DEF OwnerRecorded, Holders
  <2> QED
    BY <1>4, <1>5, <2>3, <2>4, <2>5, <2>6 DEF Closed
<1> QED
  BY <1>9, <1>10

LEMMA ClosedRecord ==
  ASSUME Base, Closed, NEW t \in Tasks, RecordOwner(t) PROVE Closed'
<1> USE DEF TypeOK, TaskType, StateType
<1> TypeOK
  BY DEF Base
<1>0. objects # 0 /\ ref[t] = objects /\ objects \in States /\ OwnerOf[t] \in Owners
  BY DEF RecordOwner, Closed, OnTheEntry, HoldPCs
<1>1. /\ pc[t] = "record" /\ pc' = [pc EXCEPT ![t] = "guard"]
      /\ UNCHANGED <<objects, word, mode, ref>>
  BY DEF RecordOwner
<1>2. Holders("Shared")' = Holders("Shared") /\ Holders("Exclusive")' = Holders("Exclusive")
  BY <1>1 DEF Holders, Holds
<1>3. OnTheEntry' /\ NoRefusedRelease'
  BY <1>1 DEF Closed, OnTheEntry, NoRefusedRelease, HoldPCs, InFlightPCs
<1>4. MutualExclusion' /\ WordCountsHolders'
  BY <1>1, <1>2 DEF Closed, MutualExclusion, WordCountsHolders, Holders
<1>5. CASE mode[t] = "Shared"
  <2>1. t \in Holders("Shared") /\ Holders("Exclusive") = {}
    BY <1>1, <1>5 DEF Closed, MutualExclusion, Holders, Holds
  <2>2. owner' = owner /\ shared' = [shared EXCEPT ![objects][OwnerOf[t]] = @ + 1]
    BY <1>0, <1>5 DEF RecordOwner
  <2>3. ASSUME NEW o \in Owners PROVE shared'[objects][o] = Cardinality(Recorded(o)')
    <3>0. shared[objects][o] = Cardinality(Recorded(o))
      BY <1>0 DEF Closed, OwnerTablesAgree, Recorded
    <3>1. CASE o # OwnerOf[t]
      <4>1. Recorded(o)' = Recorded(o)
        BY <1>1, <1>2, <3>1 DEF Recorded, Holders
      <4>2. shared'[objects][o] = shared[objects][o]
        BY <1>0, <2>2, <3>1
      <4> QED
        BY <3>0, <4>1, <4>2
    <3>2. CASE o = OwnerOf[t]
      <4>1. Recorded(o)' = Recorded(o) \cup {t} /\ t \notin Recorded(o)
        BY <1>1, <1>2, <2>1, <3>2 DEF Recorded, Holders
      <4>2. shared'[objects][o] = shared[objects][o] + 1
        BY <1>0, <2>2, <3>2
      <4>3. Cardinality(Recorded(o)') = Cardinality(Recorded(o)) + 1
        BY <4>1, FiniteTasks, FS_AddElement DEF Recorded, Holders
      <4> QED
        BY <3>0, <4>2, <4>3
    <3> QED
      BY <3>1, <3>2
  <2>4. owner[objects] = None
    BY <1>0, <2>1 DEF Closed, OwnerTablesAgree
  <2>5. OwnerTablesAgree'
    BY <1>1, <2>2, <2>3, <2>4 DEF OwnerTablesAgree, Recorded
  <2>6. OwnerRecorded'
    BY <1>2, <2>1 DEF OwnerRecorded, Holders
  <2> QED
    BY <1>3, <1>4, <2>5, <2>6 DEF Closed
<1>6. CASE mode[t] = "Exclusive"
  <2>1. Holders("Exclusive") = {t} /\ Holders("Shared") = {}
    BY <1>1, <1>6 DEF Closed, MutualExclusion, Holders, Holds
  <2>2. shared' = shared /\ owner'[objects] = OwnerOf[t]
    BY <1>0, <1>6 DEF RecordOwner
  <2>3. \A o \in Owners : Recorded(o)' = Recorded(o)
    BY <1>2, <2>1 DEF Recorded
  <2>4. OwnerTablesAgree'
    BY <1>0, <1>1, <1>2, <2>1, <2>2, <2>3 DEF Closed, OwnerTablesAgree, Recorded
  <2>5. OwnerRecorded'
    BY <1>0, <1>1, <1>2, <2>1, <2>2 DEF OwnerRecorded, Holders
  <2> QED
    BY <1>3, <1>4, <2>4, <2>5 DEF Closed
<1> QED
  BY <1>5, <1>6 DEF Modes

LEMMA ClosedRelease ==
  ASSUME Base, Closed, NEW t \in Tasks, Others(t), ReleaseState(t) PROVE Closed'
<1> USE DEF TypeOK, TaskType, StateType
<1> TypeOK
  BY DEF Base
<1>0. objects # 0 /\ objects \in States /\ word[objects] \in LockWords /\ OwnerOf[t] \in Owners
  BY DEF ReleaseState
<1>1. /\ pc[t] = "rel" /\ objects' = objects
      /\ word'[objects] = Released(word[objects], mode[t])
      /\ pc'[t] = "idle" \/ (pc'[t] = "notify" /\ ref'[t] = objects)
  BY <1>0 DEF ReleaseState, Finish
<1>2. \A u \in Tasks \ {t} : /\ pc'[u] \in HoldPCs <=> pc[u] \in HoldPCs
                             /\ mode'[u] = mode[u]
                             /\ pc'[u] = "record" <=> pc[u] = "record"
  BY DEF Others, HoldPCs
<1>3. \A m \in Modes : Holders(m)' = Holders(m) \ {t}
  BY <1>1, <1>2 DEF Holders, Holds, HoldPCs
<1>4. OnTheEntry' /\ NoRefusedRelease'
  BY <1>1 DEF Closed, OnTheEntry, NoRefusedRelease, Others, HoldPCs, InFlightPCs
<1>5. MutualExclusion'
  BY <1>3 DEF Closed, MutualExclusion, Holders, Modes
<1>6. CASE mode[t] = "Shared"
  <2>1. t \in Holders("Shared") /\ Holders("Exclusive") = {}
    BY <1>1, <1>6 DEF Closed, MutualExclusion, Holders, Holds
  <2>2. owner' = owner /\ shared' = [shared EXCEPT ![objects][OwnerOf[t]] = @ - 1]
    BY <1>6 DEF ReleaseState
  <2>3. /\ word'[objects].readers = word[objects].readers - 1
        /\ word'[objects].writer = word[objects].writer
    BY <1>0, <1>1, <1>6 DEF Released, LockWords
  <2>4. Cardinality(Holders("Shared")') = Cardinality(Holders("Shared")) - 1
    <3>1. IsFiniteSet(Holders("Shared")) /\ Holders("Shared")' = Holders("Shared") \ {t}
      BY <1>3, FiniteTasks DEF Holders, Modes
    <3> QED
      BY <2>1, <3>1, FS_RemoveElement
  <2>5. Holders("Exclusive")' = {}
    BY <1>3, <2>1 DEF Modes
  <2>6. WordCountsHolders'
    BY <1>0, <1>1, <2>1, <2>3, <2>4, <2>5 DEF Closed, WordCountsHolders
  <2>7. ASSUME NEW o \in Owners PROVE shared'[objects][o] = Cardinality(Recorded(o)')
    <3>0. shared[objects][o] = Cardinality(Recorded(o))
      BY <1>0 DEF Closed, OwnerTablesAgree, Recorded
    <3>1. CASE o # OwnerOf[t]
      <4>1. Recorded(o)' = Recorded(o)
        BY <1>2, <1>3, <3>1 DEF Recorded, Holders, Modes
      <4>2. shared'[objects][o] = shared[objects][o]
        BY <1>0, <2>2, <3>1
      <4> QED
        BY <3>0, <4>1, <4>2
    <3>2. CASE o = OwnerOf[t]
      <4>1. Recorded(o)' = Recorded(o) \ {t} /\ t \in Recorded(o)
        BY <1>1, <1>2, <1>3, <2>1, <3>2 DEF Recorded, Holders, Modes
      <4>2. shared'[objects][o] = shared[objects][o] - 1
        BY <1>0, <2>2, <3>2
      <4>3. IsFiniteSet(Recorded(o))
        BY FiniteTasks DEF Recorded, Holders
      <4>4. Cardinality(Recorded(o)') = Cardinality(Recorded(o)) - 1
        BY <4>1, <4>3, FS_RemoveElement
      <4> QED
        BY <3>0, <4>2, <4>4
    <3> QED
      BY <3>1, <3>2
  <2>8. owner[objects] = None
    BY <1>0, <2>1 DEF Closed, OwnerTablesAgree
  <2>9. OwnerTablesAgree'
    BY <1>1, <2>2, <2>7, <2>8 DEF OwnerTablesAgree, Recorded
  <2>10. OwnerRecorded'
    BY <2>5 DEF OwnerRecorded, Holders
  <2> QED
    BY <1>4, <1>5, <2>6, <2>9, <2>10 DEF Closed
<1>7. CASE mode[t] = "Exclusive"
  <2>1. Holders("Exclusive") = {t} /\ Holders("Shared") = {}
    BY <1>1, <1>7 DEF Closed, MutualExclusion, Holders, Holds
  <2>2. Holders("Exclusive")' = {} /\ Holders("Shared")' = {}
    BY <1>3, <2>1 DEF Modes
  <2>3. owner'[objects] = None /\ shared' = shared
    BY <1>0, <1>7 DEF ReleaseState
  <2>4. /\ word'[objects].readers = word[objects].readers
        /\ word'[objects].writer = FALSE
    BY <1>0, <1>1, <1>7 DEF Released, LockWords
  <2>5. WordCountsHolders'
    BY <1>0, <1>1, <2>1, <2>2, <2>4 DEF Closed, WordCountsHolders
  <2>6. \A o \in Owners : Recorded(o)' = Recorded(o)
    BY <2>1, <2>2 DEF Recorded
  <2>7. OwnerTablesAgree'
    BY <1>0, <1>1, <2>3, <2>6 DEF Closed, OwnerTablesAgree, Recorded
  <2>8. OwnerRecorded'
    BY <2>2 DEF OwnerRecorded, Holders
  <2> QED
    BY <1>4, <1>5, <2>5, <2>7, <2>8 DEF Closed
<1> QED
  BY <1>6, <1>7 DEF Modes

\* A guard is registered, and its instance, tables and word are the map's.
LEMMA NothingRefused ==
  ASSUME Base, Closed, NEW t \in Tasks
  PROVE  ~ReleaseRefused(t) /\ (ReleaseGuard(t) => pc'[t] = "rel")
<1> USE DEF TypeOK, TaskType, StateType
<1> TypeOK
  BY DEF Base
<1>1. ReleaseGuard(t) => pc'[t] = "rel"
  BY DEF ReleaseGuard, Base, Wellformed
<1>2. ASSUME pc[t] = "rel"
      PROVE  objects # 0 /\ OwnsEntry(t, objects) /\ CanRelease(word[objects], mode[t])
  <2>0. objects # 0 /\ objects \in States /\ OwnerOf[t] \in Owners /\ word[objects] \in LockWords
    BY <1>2 DEF Closed, OnTheEntry, HoldPCs
  <2>1. CASE mode[t] = "Shared"
    <3>1. t \in Recorded(OwnerOf[t]) /\ t \in Holders("Shared")
      BY <1>2, <2>1 DEF Recorded, Holders, Holds
    <3>2. Cardinality(Recorded(OwnerOf[t])) \in Nat \ {0} /\ Cardinality(Holders("Shared")) \in Nat \ {0}
      BY <3>1, FiniteTasks, FS_EmptySet DEF Recorded, Holders
    <3>3. shared[objects][OwnerOf[t]] > 0
      BY <2>0, <3>2 DEF Closed, OwnerTablesAgree, Recorded
    <3>4. word[objects].readers > 0
      BY <2>0, <3>2 DEF Closed, WordCountsHolders
    <3> QED
      BY <2>0, <2>1, <3>3, <3>4 DEF OwnsEntry, CanRelease
  <2>2. CASE mode[t] = "Exclusive"
    <3>1. Holds(t, "Exclusive")
      BY <1>2, <2>2 DEF Holds
    <3>2. owner[objects] = OwnerOf[t]
      BY <1>2, <3>1 DEF Closed, OwnerRecorded
    <3>3. word[objects].writer
      BY <2>0, <3>1 DEF Closed, WordCountsHolders, Holders
    <3> QED
      BY <2>0, <2>2, <3>2, <3>3 DEF OwnsEntry, CanRelease
  <2> QED
    BY <2>1, <2>2 DEF Modes
<1> QED
  BY <1>1, <1>2 DEF ReleaseRefused

LEMMA ClosedCleanup ==
  ASSUME CleanupWindow = FALSE, Base, Closed, Cleanup PROVE Closed'
<1> USE DEF TypeOK, TaskType, StateType
<1> TypeOK
  BY DEF Base
<1>1. /\ objects # 0 /\ objects' = 0 /\ word[objects] = FreeWord
      /\ InFlight(objects) = {} /\ MapWritable /\ UNCHANGED <<pc, mode, ref>>
  BY DEF Cleanup, taskVars
<1>2. Holders("Shared") = {} /\ Holders("Exclusive") = {}
  BY <1>1, NoHolderOnFree DEF FreeWord
<1>3. \A t \in Tasks : pc[t] \notin HoldPCs
  BY <1>2 DEF Holders, Holds, HoldPCs, Modes
<1>4. \A t \in Tasks : pc[t] \notin InFlightPCs
  BY <1>1 DEF Closed, OnTheEntry, InFlight, InFlightPCs
<1>5. OnTheEntry'
  BY <1>1, <1>3, <1>4 DEF OnTheEntry, MapWritable
<1>6. NoRefusedRelease' /\ MutualExclusion' /\ OwnerRecorded'
  BY <1>1, <1>3 DEF Closed, NoRefusedRelease, MutualExclusion, OwnerRecorded, Holds, HoldPCs
<1>7. WordCountsHolders' /\ OwnerTablesAgree'
  BY <1>1 DEF WordCountsHolders, OwnerTablesAgree
<1> QED
  BY <1>5, <1>6, <1>7 DEF Closed

LEMMA WaitingKeepsHeld ==
  ASSUME NEW w \in LockWords, NEW m \in Modes
  PROVE  /\ IncWaiting(w, m).readers = w.readers /\ IncWaiting(w, m).writer = w.writer
         /\ DecWaiting(w, m).readers = w.readers /\ DecWaiting(w, m).writer = w.writer
BY DEF LockWords, Modes, IncWaiting, DecWaiting

LEMMA ClosedStep ==
  ASSUME CleanupWindow = FALSE, Base, Closed, [Next]_vars PROVE Closed'
<1> USE DEF TypeOK, TaskType, StateType
<1> TypeOK
  BY DEF Base
<1>1. ASSUME NEW t \in Tasks,
             \/ TaskStep(t) \/ Deadline(t) \/ ReleaseGuard(t) \/ Cancel(t)
             \/ \E m \in Modes : Start(t, m)
      PROVE  Closed'
  <2>0. Others(t)
    BY <1>1, Frame
  <2>1. CASE \E m \in Modes : Start(t, m)
    <3>1. QuietFor(t)
      BY <2>1 DEF Start, QuietFor, stateVars, HoldPCs, InFlightPCs
    <3> QED
      BY <2>0, <3>1, ClosedQuiet
  <2>2. CASE Lookup(t)
    <3>1. /\ UNCHANGED stateVars /\ pc[t] = "lookup"
          /\ \/ pc'[t] \in {"recheck", "getOrCreate"}
             \/ pc'[t] = "cas1" /\ objects # 0 /\ ref'[t] = objects
      BY <2>2 DEF Lookup
    <3>2. QuietFor(t)
      BY <3>1 DEF QuietFor, stateVars, HoldPCs, InFlightPCs
    <3> QED
      BY <2>0, <3>2, ClosedQuiet
  <2>3. CASE TryFast(t) \/ TryRechecked(t) \/ TrySlow(t)
    BY <2>0, <2>3, ClosedTry DEF TryFast, TryRechecked, TrySlow, InFlightPCs
  <2>4. CASE Recheck(t) \/ GetOrCreate(t)
    <3>1. CASE CloneEntry(t)
      <4>1. pc[t] \in {"recheck", "getOrCreate"} /\ pc'[t] \in {"cas2", "cas3"}
        BY <2>4, <3>1 DEF Recheck, GetOrCreate, Create, CloneEntry
      <4>2. QuietFor(t)
        BY <3>1, <4>1 DEF CloneEntry, QuietFor, stateVars, HoldPCs, InFlightPCs
      <4> QED
        BY <2>0, <4>2, ClosedQuiet
    <3>2. CASE Recheck(t) /\ ~CloneEntry(t)
      <4>1. mode[t] = "Exclusive"
        BY <3>2 DEF Recheck, Base, Wellformed
      <4> QED
        BY <2>0, <3>2, <4>1, ClosedCreate DEF Recheck
    <3>3. CASE GetOrCreate(t) /\ ~CloneEntry(t)
      BY <2>0, <3>3, ClosedCreate DEF GetOrCreate
    <3> QED
      BY <2>4, <3>1, <3>2, <3>3
  <2>5. CASE Deadline(t)
    <3>1. UNCHANGED <<stateVars, pc, mode, ref>>
      BY <2>5 DEF Deadline
    <3>2. pc[t] # "refused" /\ pc[t] \notin HoldPCs
      BY <2>5 DEF Deadline, HoldPCs
    <3>3. QuietFor(t)
      BY <3>1, <3>2 DEF QuietFor, stateVars, Closed, OnTheEntry
    <3> QED
      BY <2>0, <3>3, ClosedQuiet
  <2>6. CASE GiveUp(t) \/ Backoff(t)
    <3>1. UNCHANGED stateVars /\ pc[t] = "decide" /\ pc'[t] \in {"idle", "getOrCreate"}
      BY <2>6 DEF GiveUp, Backoff, Finish
    <3>2. QuietFor(t)
      BY <3>1 DEF QuietFor, stateVars, HoldPCs, InFlightPCs
    <3> QED
      BY <2>0, <3>2, ClosedQuiet
  <2>7. CASE Wait(t) \/ DecAfterWait(t)
    <3>1. /\ UNCHANGED <<objects, owner, shared>>
          /\ pc[t] \in {"decide", "dec", "timedOut"}
          /\ pc'[t] \in {"register", "getOrCreate", "idle"}
          /\ \/ word' = [word EXCEPT ![ref[t]] = IncWaiting(@, mode[t])]
             \/ word' = [word EXCEPT ![ref[t]] = DecWaiting(@, mode[t])]
      BY <2>7 DEF Wait, DecAfterWait, Finish
    <3>2. objects # 0 => objects \in States /\ word[objects] \in LockWords
      OBVIOUS
    <3>3. objects # 0 => /\ word'[objects].readers = word[objects].readers
                         /\ word'[objects].writer = word[objects].writer
      <4>1. CASE objects = ref[t]
        BY <3>1, <3>2, <4>1, WaitingKeepsHeld
      <4>2. CASE objects # ref[t]
        BY <3>1, <3>2, <4>2
      <4> QED
        BY <4>1, <4>2
    <3>4. QuietFor(t)
      BY <3>1, <3>3 DEF QuietFor, HoldPCs, InFlightPCs
    <3> QED
      BY <2>0, <3>4, ClosedQuiet
  <2>8. CASE RegisterWaiter(t) \/ Park(t) \/ Woken(t) \/ WaitTimeout(t)
    <3>1. UNCHANGED stateVars /\ pc[t] \in WaitPCs /\ pc'[t] \in WaitPCs
      BY <2>8 DEF RegisterWaiter, Park, Woken, WaitTimeout, WaitPCs
    <3>2. QuietFor(t)
      BY <3>1 DEF QuietFor, stateVars, HoldPCs, InFlightPCs, WaitPCs
    <3> QED
      BY <2>0, <3>2, ClosedQuiet
  <2>9. CASE RecordOwner(t)
    BY <2>9, ClosedRecord
  <2>10. CASE RegisterGuard(t) \/ ReleaseGuard(t)
    <3>1. /\ UNCHANGED <<stateVars, mode, ref>> /\ pc[t] \in {"guard", "held"}
          /\ pc'[t] \in {"held", "rel"}
      BY <2>10, NothingRefused DEF RegisterGuard, ReleaseGuard
    <3>2. QuietFor(t)
      BY <3>1 DEF QuietFor, stateVars, HoldPCs, InFlightPCs
    <3> QED
      BY <2>0, <3>2, ClosedQuiet
  <2>11. CASE ReleaseState(t)
    BY <2>0, <2>11, ClosedRelease
  <2>12. CASE ReleaseRefused(t) \/ DropRefused(t)
    BY <2>12, NothingRefused DEF DropRefused, Closed, NoRefusedRelease
  <2>13. CASE NotifyWaiters(t)
    <3>1. UNCHANGED stateVars /\ pc[t] = "notify" /\ pc'[t] = "idle"
      BY <2>13 DEF NotifyWaiters, Woke
    <3>2. QuietFor(t)
      BY <3>1 DEF QuietFor, stateVars, HoldPCs, InFlightPCs
    <3> QED
      BY <2>0, <3>2, ClosedQuiet
  <2>14. CASE Cancel(t)
    <3>1. UNCHANGED stateVars /\ pc[t] \in {"decide", "parked", "woken"} /\ pc'[t] = "idle"
      BY <2>14, Dropped
    <3>2. QuietFor(t)
      BY <3>1 DEF QuietFor, stateVars, HoldPCs, InFlightPCs
    <3> QED
      BY <2>0, <3>2, ClosedQuiet
  <2> QED
    BY <1>1, <2>1, <2>2, <2>3, <2>4, <2>5, <2>6, <2>7, <2>8, <2>9, <2>10, <2>11, <2>12, <2>13,
       <2>14
    DEF TaskStep
<1>2. CASE ForeignNotify \/ UNCHANGED vars
  <2>0. /\ UNCHANGED <<objects, word, owner, shared, mode, ref>>
        /\ \A u \in Tasks : pc'[u] = pc[u] \/ (pc[u] = "parked" /\ pc'[u] = "woken")
    BY <1>2, FrameForeign DEF vars, stateVars, taskVars
  <2>1. CASE Tasks = {}
    BY <2>0, <2>1, FS_EmptySet
    DEF Closed, OnTheEntry, NoRefusedRelease, MutualExclusion, WordCountsHolders,
        OwnerTablesAgree, OwnerRecorded, Holders
  <2>2. ASSUME NEW t \in Tasks PROVE Closed'
    <3>1. Others(t)
      BY <2>0 DEF Others
    <3>2. QuietFor(t)
      BY <2>0 DEF QuietFor, HoldPCs, InFlightPCs, Closed, OnTheEntry, NoRefusedRelease
    <3> QED
      BY <3>1, <3>2, ClosedQuiet
  <2> QED
    BY <2>1, <2>2
<1>3. CASE Cleanup
  BY <1>3, ClosedCleanup
<1> QED
  BY <1>1, <1>2, <1>3 DEF Next

LEMMA ClosedInit == Init => Closed
<1> SUFFICES ASSUME Init PROVE Closed
  OBVIOUS
<1>1. objects = 0 /\ \A t \in Tasks : pc[t] = "idle"
  BY DEF Init
<1> QED
  BY <1>1 DEF Closed, OnTheEntry, NoRefusedRelease, MutualExclusion, WordCountsHolders,
              OwnerTablesAgree, OwnerRecorded, Holds, HoldPCs, InFlightPCs

LEMMA ClosedHolds == ASSUME CleanupWindow = FALSE PROVE Spec => []Closed
<1>1. Base /\ Closed /\ [Next]_vars => Closed'
  BY ClosedStep
<1> QED
  BY <1>1, ClosedInit, BaseHolds, PTL DEF Spec

\* While cleanup misses its window, an exclusive holder of the key excludes
\* every other holder, from its compare-and-swap to its release.
THEOREM Exclusion == ASSUME CleanupWindow = FALSE PROVE Spec => []MutualExclusion
<1>1. Closed => MutualExclusion
  BY DEF Closed
<1> QED
  BY <1>1, ClosedHolds, PTL

\* The word of the map's entry counts exactly the holders: no count is lost
\* and none is left over, however many tasks race through the two paths.
THEOREM WordExact == ASSUME CleanupWindow = FALSE PROVE Spec => []WordCountsHolders
<1>1. Closed => WordCountsHolders
  BY DEF Closed
<1> QED
  BY <1>1, ClosedHolds, PTL

\* The owner tables, written after the word, agree with the recorded guards.
THEOREM TablesExact == ASSUME CleanupWindow = FALSE PROVE Spec => []OwnerTablesAgree
<1>1. Closed => OwnerTablesAgree
  BY DEF Closed
<1> QED
  BY <1>1, ClosedHolds, PTL

\* No release of a guard is refused: its instance is the map's, its owner is
\* recorded there and the word counts it.
THEOREM ReleasesSucceed == ASSUME CleanupWindow = FALSE PROVE Spec => []NoRefusedRelease
<1>1. Closed => NoRefusedRelease
  BY DEF Closed
<1> QED
  BY <1>1, ClosedHolds, PTL

-----------------------------------------------------------------------------
(* Refinement of the abstract reader-writer lock. *)

LEMMA StepRefines ==
  ASSUME TypeOK, TypeOK', MutualExclusion', [Next]_vars
  PROVE  [Abstract!RWNext]_HeldMode
<1> USE DEF TypeOK, TaskType
<1>0. /\ \A u \in Tasks : HeldMode[u] = IF pc[u] \in HoldPCs THEN mode[u] ELSE None
      /\ \A u \in Tasks : HeldMode'[u] = IF pc'[u] \in HoldPCs THEN mode'[u] ELSE None
  BY DEF HeldMode, HoldPCs
<1>1. ASSUME \A u \in Tasks : HeldMode'[u] = HeldMode[u] PROVE HeldMode' = HeldMode
  BY <1>1 DEF HeldMode
<1>2. ASSUME NEW t \in Tasks,
             \/ TaskStep(t) \/ Deadline(t) \/ ReleaseGuard(t) \/ Cancel(t)
             \/ \E m \in Modes : Start(t, m)
      PROVE  [Abstract!RWNext]_HeldMode
  <2>0. Others(t)
    BY <1>2, Frame
  <2>1. \A u \in Tasks \ {t} : HeldMode'[u] = HeldMode[u]
    BY <1>0, <2>0 DEF Others, HoldPCs
  <2>2. CASE pc[t] \in HoldPCs /\ pc'[t] \in HoldPCs /\ mode'[t] = mode[t]
    BY <1>0, <1>1, <2>1, <2>2
  <2>3. CASE pc[t] \notin HoldPCs /\ pc'[t] \notin HoldPCs
    BY <1>0, <1>1, <2>1, <2>3
  <2>4. CASE pc[t] \in HoldPCs /\ pc'[t] \notin HoldPCs
    <3>1. HeldMode[t] # None /\ HeldMode' = [HeldMode EXCEPT ![t] = None]
      <4>1. HeldMode[t] \in Modes /\ HeldMode'[t] = None
        BY <1>0, <2>4
      <4>2. HeldMode' = [HeldMode EXCEPT ![t] = None]
        BY <2>1, <4>1 DEF HeldMode
      <4> QED
        BY <4>1, <4>2, NoModeAssumption
    <3> QED
      BY <3>1 DEF Abstract!RWNext, Abstract!Release
  <2>5. CASE pc[t] \notin HoldPCs /\ pc'[t] \in HoldPCs
    <3>1. HeldMode[t] = None /\ HeldMode'[t] = mode'[t] /\ mode'[t] \in Modes
      BY <1>0, <2>5
    <3>2. HeldMode' = [HeldMode EXCEPT ![t] = mode'[t]]
      BY <2>1, <3>1 DEF HeldMode
    <3>3. \A u \in Tasks \ {t} : /\ HeldMode[u] = "Exclusive" => Holds(u, "Exclusive")'
                                 /\ HeldMode[u] # None => Holds(u, "Exclusive")' \/ Holds(u, "Shared")'
      <4>1. \A u \in Tasks \ {t} : HeldMode'[u] # None => pc'[u] \in HoldPCs /\ HeldMode'[u] = mode'[u]
        BY <1>0
      <4>2. \A u \in Tasks \ {t} : HeldMode[u] = "Exclusive" => HeldMode[u] # None
        BY NoModeAssumption DEF Modes
      <4> QED
        BY <2>1, <4>1, <4>2 DEF Holds, HoldPCs, Modes
    <3>4. \A u \in Tasks \ {t} : HeldMode[u] # "Exclusive"
      <4>1. Holds(t, "Exclusive")' \/ Holds(t, "Shared")'
        BY <2>5, <3>1 DEF Holds, HoldPCs, Modes
      <4> QED
        BY <3>3, <4>1 DEF MutualExclusion
    <3>5. ASSUME mode'[t] = "Exclusive" PROVE \A u \in Tasks \ {t} : HeldMode[u] = None
      <4>1. Holds(t, "Exclusive")'
        BY <2>5, <3>5 DEF Holds, HoldPCs
      <4> QED
        BY <3>3, <4>1 DEF MutualExclusion
    <3>7. Abstract!Compatible(t, mode'[t])
      BY <3>4, <3>5 DEF Abstract!Compatible
    <3>6. Abstract!Acquire(t, mode'[t])
      BY <3>1, <3>2, <3>7 DEF Abstract!Acquire
    <3> QED
      BY <3>1, <3>6 DEF Abstract!RWNext, Abstract!RWModes, Modes
  <2>6. pc[t] \in HoldPCs /\ pc'[t] \in HoldPCs => mode'[t] = mode[t]
    <3>1. CASE \E m \in Modes : Start(t, m)
      BY <3>1 DEF Start, HoldPCs
    <3>2. CASE GiveUp(t) \/ DropRefused(t)
      BY <3>2 DEF GiveUp, DropRefused, Finish, HoldPCs
    <3>6. CASE Cancel(t)
      BY <3>6, Dropped DEF HoldPCs
    <3>3. CASE DecAfterWait(t) \/ ReleaseState(t)
      BY <3>3 DEF DecAfterWait, ReleaseState, Finish, HoldPCs
    <3>4. CASE NotifyWaiters(t)
      BY <3>4 DEF NotifyWaiters, HoldPCs
    <3>5. CASE \/ Lookup(t) \/ TryFast(t) \/ Recheck(t) \/ TryRechecked(t)
               \/ GetOrCreate(t) \/ TrySlow(t) \/ Deadline(t) \/ Backoff(t)
               \/ Wait(t) \/ RegisterWaiter(t) \/ Park(t) \/ Woken(t) \/ WaitTimeout(t)
               \/ RecordOwner(t) \/ RegisterGuard(t) \/ ReleaseGuard(t) \/ ReleaseRefused(t)
      BY <3>5 DEF Lookup, TryFast, Recheck, TryRechecked, GetOrCreate, TrySlow, Try, Deadline,
                  Backoff, Wait, RegisterWaiter, Park, Woken, WaitTimeout, RecordOwner,
                  RegisterGuard, ReleaseGuard, ReleaseRefused
    <3> QED
      BY <1>2, <3>1, <3>2, <3>3, <3>4, <3>5, <3>6 DEF TaskStep
  <2> QED
    BY <2>2, <2>3, <2>4, <2>5, <2>6
<1>3. CASE ForeignNotify
  BY <1>0, <1>1, <1>3, FrameForeign DEF HoldPCs
<1>4. CASE Cleanup \/ UNCHANGED vars
  BY <1>0, <1>1, <1>4 DEF Cleanup, vars, taskVars
<1> QED
  BY <1>2, <1>3, <1>4 DEF Next

\* While cleanup misses its window, the lock word, owner tables, shard map
\* and notifications together implement the abstract reader-writer lock.
THEOREM Refinement == ASSUME CleanupWindow = FALSE PROVE Spec => ImplementsRWLock
<1>1. Init => Abstract!RWInit
  BY DEF Init, Abstract!RWInit, HeldMode
<1>2. TypeOK /\ TypeOK' /\ MutualExclusion' /\ [Next]_vars => [Abstract!RWNext]_HeldMode
  BY StepRefines
<1> QED
  BY <1>1, <1>2, Typing, Exclusion, PTL DEF Spec, ImplementsRWLock, Abstract!RWSpec

-----------------------------------------------------------------------------
(* The waiting counts, as long as the tasks fit into the waiting fields. *)

WaitersOn(m) == {t \in Tasks : Waiting(t, m)}

\* Waiting tasks wait for the instance that the map has.
WaitOnTheEntry == \A t \in Tasks : pc[t] \in WaitPCs => objects # 0 /\ ref[t] = objects

\* No wait on an instance that does not exist yet has been dropped.
FreshUnleaked == \A s \in States, m \in Modes : s > alloc => leaked[s][m] = 0

Counted == WaitOnTheEntry /\ FreshUnleaked /\ WaitingCountsExact

\* A step that neither starts nor ends a wait.
KeepsWaits(t) ==
  /\ UNCHANGED <<objects, alloc, leaked>>
  /\ objects # 0 => /\ word'[objects].rwait = word[objects].rwait
                    /\ word'[objects].wwait = word[objects].wwait
  /\ \/ pc[t] \notin WaitPCs /\ pc'[t] \notin WaitPCs
     \/ /\ pc[t] \in WaitPCs /\ pc'[t] \in WaitPCs
        /\ mode'[t] = mode[t] /\ ref'[t] = ref[t]

LEMMA CountedQuiet ==
  ASSUME TypeOK, Counted, NEW t \in Tasks, Others(t), KeepsWaits(t) PROVE Counted'
<1>1. \A u \in Tasks : /\ pc'[u] \in WaitPCs <=> pc[u] \in WaitPCs
                       /\ pc[u] \in WaitPCs => mode'[u] = mode[u] /\ ref'[u] = ref[u]
  BY DEF Others, KeepsWaits, WaitPCs
<1>2. \A m \in Modes : WaitersOn(m)' = WaitersOn(m)
  BY <1>1 DEF WaitersOn, Waiting, WaitPCs
<1>3. WaitOnTheEntry'
  BY <1>1 DEF Counted, WaitOnTheEntry, KeepsWaits
<1>4. WaitingCountsExact'
  BY <1>2 DEF Counted, WaitingCountsExact, WaitersOn, KeepsWaits, Modes
<1>5. FreshUnleaked'
  BY DEF Counted, FreshUnleaked, KeepsWaits
<1> QED
  BY <1>3, <1>4, <1>5 DEF Counted

LEMMA FiniteWaiters ==
  ASSUME NEW m
  PROVE  IsFiniteSet(WaitersOn(m)) /\ Cardinality(WaitersOn(m)) \in Nat
BY FiniteTasks DEF WaitersOn

\* The counts follow when one mode's waiters and count change alike.
LEMMA CountsFollow ==
  ASSUME TypeOK, Counted, objects # 0, objects' = objects, leaked' = leaked,
         NEW m \in Modes, NEW d \in {1, -1},
         \A k \in Modes \ {m} : WaitersOn(k)' = WaitersOn(k),
         Cardinality(WaitersOn(m)') = Cardinality(WaitersOn(m)) + d,
         word'[objects].rwait = word[objects].rwait + (IF m = "Shared" THEN d ELSE 0),
         word'[objects].wwait = word[objects].wwait + (IF m = "Shared" THEN 0 ELSE d)
  PROVE  WaitingCountsExact'
<1>1. /\ word[objects].rwait = Cardinality(WaitersOn("Shared")) + leaked[objects]["Shared"]
      /\ word[objects].wwait = Cardinality(WaitersOn("Exclusive")) + leaked[objects]["Exclusive"]
  BY DEF Counted, WaitingCountsExact, WaitersOn
<1>2. /\ Cardinality(WaitersOn("Shared")) \in Nat /\ Cardinality(WaitersOn("Exclusive")) \in Nat
      /\ leaked[objects]["Shared"] \in Nat /\ leaked[objects]["Exclusive"] \in Nat
  <2>1. objects \in States /\ NotifyType
    BY DEF TypeOK, StateType
  <2>2. "Shared" \in Modes /\ "Exclusive" \in Modes
    BY DEF Modes
  <2>3. leaked[objects]["Shared"] \in Nat /\ leaked[objects]["Exclusive"] \in Nat
    BY <2>1, <2>2, Counters
  <2> QED
    BY <2>3, FiniteWaiters
<1>3. CASE m = "Shared"
  <2>1. WaitersOn("Exclusive")' = WaitersOn("Exclusive")
    BY <1>3 DEF Modes
  <2>2. /\ word'[objects].rwait = Cardinality(WaitersOn("Shared")') + leaked[objects]["Shared"]
        /\ word'[objects].wwait = Cardinality(WaitersOn("Exclusive")') + leaked[objects]["Exclusive"]
    BY <1>1, <1>2, <1>3, <2>1
  <2> QED
    BY <2>2 DEF WaitingCountsExact, WaitersOn
<1>4. CASE m = "Exclusive"
  <2>1. WaitersOn("Shared")' = WaitersOn("Shared")
    BY <1>4 DEF Modes
  <2>2. /\ word'[objects].rwait = Cardinality(WaitersOn("Shared")') + leaked[objects]["Shared"]
        /\ word'[objects].wwait = Cardinality(WaitersOn("Exclusive")') + leaked[objects]["Exclusive"]
    BY <1>1, <1>2, <1>4, <2>1
  <2> QED
    BY <2>2 DEF WaitingCountsExact, WaitersOn
<1> QED
  BY <1>3, <1>4 DEF Modes

LEMMA CountedWait ==
  ASSUME Cardinality(Tasks) + MaxCancels <= MaxWaiting, TypeOK, Closed, Counted,
         NEW t \in Tasks, Others(t), Wait(t), NEW m \in Modes, mode[t] = m
  PROVE  Counted'
<1> USE DEF TypeOK, StateType, TaskType
<1>1. /\ objects # 0 /\ ref[t] = objects /\ objects \in States /\ word[objects] \in LockWords
      /\ pc[t] = "decide" /\ pc'[t] = "register"
      /\ UNCHANGED <<objects, alloc, mode, ref, leaked>>
      /\ word'[objects] = IncWaiting(word[objects], m)
  BY DEF Wait, Closed, OnTheEntry, InFlightPCs, notifyVars
<1>2. \A u \in Tasks \ {t} : pc'[u] \in WaitPCs <=> pc[u] \in WaitPCs
  BY DEF Others, WaitPCs
<1>3. WaitOnTheEntry'
  BY <1>1, <1>2 DEF Counted, WaitOnTheEntry
<1>4. \A k \in Modes \ {m} : WaitersOn(k)' = WaitersOn(k)
  BY <1>1, <1>2 DEF WaitersOn, Waiting, WaitPCs
<1>5. WaitersOn(m)' = WaitersOn(m) \cup {t} /\ t \notin WaitersOn(m)
  BY <1>1, <1>2 DEF WaitersOn, Waiting, WaitPCs
<1>6. Cardinality(WaitersOn(m)') = Cardinality(WaitersOn(m)) + 1
  <2>1. IsFiniteSet(WaitersOn(m))
    BY FiniteWaiters
  <2>2. Cardinality(WaitersOn(m) \cup {t}) = Cardinality(WaitersOn(m)) + 1
    BY <1>5, <2>1, FS_AddElement
  <2> QED
    BY <1>5, <2>2
<1>7. Cardinality(WaitersOn(m)') <= Cardinality(Tasks) /\ Cardinality(Tasks) \in Nat
  <2>1. WaitersOn(m)' \subseteq Tasks
    BY DEF WaitersOn
  <2> QED
    BY <2>1, FS_Subset, FS_CardinalityType
<1>8. Cardinality(WaitersOn(m)) + leaked[objects][m] < MaxWaiting
  <2>1. leaked[objects][m] \in 0..MaxCancels /\ MaxCancels \in Nat /\ MaxWaiting \in Nat
    BY <1>1, Counters
  <2>2. Cardinality(WaitersOn(m)) \in Nat /\ Cardinality(WaitersOn(m)) + 1 <= Cardinality(Tasks)
    BY <1>6, <1>7, FiniteWaiters
  <2> QED
    BY <1>7, <2>1, <2>2, WaitRoom
<1>9. /\ word[objects].rwait = Cardinality(WaitersOn("Shared")) + leaked[objects]["Shared"]
      /\ word[objects].wwait = Cardinality(WaitersOn("Exclusive")) + leaked[objects]["Exclusive"]
  BY <1>1 DEF Counted, WaitingCountsExact, WaitersOn
<1>10. /\ word'[objects].rwait = word[objects].rwait + (IF m = "Shared" THEN 1 ELSE 0)
       /\ word'[objects].wwait = word[objects].wwait + (IF m = "Shared" THEN 0 ELSE 1)
  <2>1. WaitCount(word[objects], m) = Cardinality(WaitersOn(m)) + leaked[objects][m]
    BY <1>9 DEF WaitCount, Modes
  <2>2. WaitCount(word[objects], m) < MaxWaiting
    BY <1>8, <2>1
  <2> QED
    BY <1>1, <2>2, WaitFields
<1>11. WaitingCountsExact'
  BY <1>1, <1>4, <1>6, <1>10, CountsFollow
<1> QED
  BY <1>1, <1>3, <1>11 DEF Counted, FreshUnleaked

LEMMA CountedDec ==
  ASSUME TypeOK, Counted, NEW t \in Tasks, Others(t), DecAfterWait(t),
         NEW m \in Modes, mode[t] = m
  PROVE  Counted'
<1> USE DEF TypeOK, StateType, TaskType
<1>1. /\ objects # 0 /\ ref[t] = objects /\ objects \in States /\ word[objects] \in LockWords
      /\ pc[t] \in {"dec", "timedOut"} /\ pc'[t] \in {"getOrCreate", "idle"}
      /\ UNCHANGED <<objects, alloc, leaked>>
      /\ word'[objects] = DecWaiting(word[objects], m)
  BY DEF DecAfterWait, Finish, Counted, WaitOnTheEntry, WaitPCs, notifyVars
<1>2. \A u \in Tasks \ {t} :
        (pc'[u] \in WaitPCs <=> pc[u] \in WaitPCs) /\ mode'[u] = mode[u] /\ ref'[u] = ref[u]
  BY DEF Others, WaitPCs
<1>3. WaitOnTheEntry'
  BY <1>1, <1>2 DEF Counted, WaitOnTheEntry, WaitPCs
<1>4. \A k \in Modes \ {m} : WaitersOn(k)' = WaitersOn(k)
  BY <1>1, <1>2 DEF WaitersOn, Waiting, WaitPCs
<1>5. WaitersOn(m)' = WaitersOn(m) \ {t} /\ t \in WaitersOn(m)
  BY <1>1, <1>2 DEF WaitersOn, Waiting, WaitPCs
<1>6. Cardinality(WaitersOn(m)') = Cardinality(WaitersOn(m)) - 1
  <2>1. IsFiniteSet(WaitersOn(m))
    BY FiniteWaiters
  <2>2. Cardinality(WaitersOn(m) \ {t}) = Cardinality(WaitersOn(m)) - 1
    BY <1>5, <2>1, FS_RemoveElement
  <2> QED
    BY <1>5, <2>2
<1>7. Cardinality(WaitersOn(m)) + leaked[objects][m] # 0
  <2>1. Cardinality(WaitersOn(m)) # 0 /\ leaked[objects][m] \in Nat
    BY <1>1, <1>5, Counters, FiniteWaiters, FS_EmptySet
  <2> QED
    BY <2>1, FiniteWaiters
<1>9. /\ word[objects].rwait = Cardinality(WaitersOn("Shared")) + leaked[objects]["Shared"]
      /\ word[objects].wwait = Cardinality(WaitersOn("Exclusive")) + leaked[objects]["Exclusive"]
  BY <1>1 DEF Counted, WaitingCountsExact, WaitersOn
<1>10. /\ word'[objects].rwait = word[objects].rwait + (IF m = "Shared" THEN -1 ELSE 0)
       /\ word'[objects].wwait = word[objects].wwait + (IF m = "Shared" THEN 0 ELSE -1)
  <2>1. WaitCount(word[objects], m) = Cardinality(WaitersOn(m)) + leaked[objects][m]
    BY <1>9 DEF WaitCount, Modes
  <2>2. WaitCount(word[objects], m) # 0
    BY <1>7, <2>1
  <2> QED
    BY <1>1, <2>2, WaitFields
<1>11. Cardinality(WaitersOn(m)') = Cardinality(WaitersOn(m)) + (-1)
  BY <1>6, FiniteWaiters
<1>12. WaitingCountsExact'
  BY <1>1, <1>4, <1>10, <1>11, CountsFollow
<1> QED
  BY <1>1, <1>3, <1>12 DEF Counted, FreshUnleaked

LEMMA CountedCancel ==
  ASSUME TypeOK, RefsAllocated, Counted, NEW t \in Tasks, Cancel(t), pc[t] \in WaitPCs,
         NEW m \in Modes, mode[t] = m
  PROVE  Counted'
<1>a. /\ objects \in 0..MaxStates /\ alloc \in 0..MaxStates
      /\ leaked \in [States -> [Modes -> 0..MaxCancels]]
      /\ mode \in [Tasks -> Modes]
  BY DEF TypeOK, StateType, NotifyType, TaskType
<1>1. /\ objects # 0 /\ ref[t] = objects /\ objects \in 1..alloc /\ objects \in States
      /\ pc'[t] = "idle" /\ UNCHANGED stateVars
  <2>1. objects # 0 /\ ref[t] = objects
    BY DEF Counted, WaitOnTheEntry
  <2>2. ref[t] \in 1..alloc
    BY DEF RefsAllocated
  <2>3. pc'[t] = "idle" /\ UNCHANGED stateVars
    BY Dropped
  <2> QED
    BY <1>a, <2>1, <2>2, <2>3
<1>2. \A u \in Tasks \ {t} :
        (pc'[u] \in WaitPCs <=> pc[u] \in WaitPCs) /\ mode'[u] = mode[u] /\ ref'[u] = ref[u]
  BY Dropped DEF Others, WaitPCs
<1>3. WaitOnTheEntry'
  BY <1>1, <1>2 DEF Counted, WaitOnTheEntry, WaitPCs, stateVars
<1>4. /\ leaked'[objects][m] = leaked[objects][m] + 1
      /\ \A k \in Modes \ {m} : leaked'[objects][k] = leaked[objects][k]
      /\ \A s \in States \ {objects} : leaked'[s] = leaked[s]
  <2>1. Leak(t)
    BY DEF Cancel, CancelBackoff, CancelParked, CancelWoken, WaitPCs
  <2> QED
    BY <1>a, <1>1, <2>1 DEF Leak
<1>5. FreshUnleaked'
  <2>1. \A s \in States : s > alloc => s # objects
    BY <1>a, <1>1
  <2> QED
    BY <1>1, <1>4, <2>1 DEF Counted, FreshUnleaked, stateVars
<1>6. \A k \in Modes \ {m} : WaitersOn(k)' = WaitersOn(k)
  BY <1>1, <1>2 DEF WaitersOn, Waiting, WaitPCs
<1>7. WaitersOn(m)' = WaitersOn(m) \ {t} /\ t \in WaitersOn(m)
  BY <1>1, <1>2 DEF WaitersOn, Waiting, WaitPCs
<1>8. Cardinality(WaitersOn(m)') = Cardinality(WaitersOn(m)) - 1
  <2>1. IsFiniteSet(WaitersOn(m))
    BY FiniteWaiters
  <2>2. Cardinality(WaitersOn(m) \ {t}) = Cardinality(WaitersOn(m)) - 1
    BY <1>7, <2>1, FS_RemoveElement
  <2> QED
    BY <1>7, <2>2
<1>9. \A k \in Modes : Cardinality(WaitersOn(k)') + leaked'[objects][k]
                        = Cardinality(WaitersOn(k)) + leaked[objects][k]
  <2>1. leaked[objects][m] \in Nat /\ Cardinality(WaitersOn(m)) \in Nat
    BY <1>a, <1>1, FiniteWaiters
  <2>3. \A a, b \in Nat : (a - 1) + (b + 1) = a + b
    OBVIOUS
  <2>2. Cardinality(WaitersOn(m)') + leaked'[objects][m]
          = Cardinality(WaitersOn(m)) + leaked[objects][m]
    BY <1>4, <1>8, <2>1, <2>3
  <2> QED
    BY <1>4, <1>6, <2>2
<1>10. WaitingCountsExact'
  BY <1>1, <1>9 DEF Counted, WaitingCountsExact, WaitersOn, Modes, stateVars
<1> QED
  BY <1>3, <1>5, <1>10 DEF Counted

LEMMA CountedStep ==
  ASSUME CleanupWindow = FALSE, Cardinality(Tasks) + MaxCancels <= MaxWaiting, Base, Closed, Counted,
         [Next]_vars
  PROVE  Counted'
<1> USE DEF TypeOK, TaskType, StateType
<1> TypeOK
  BY DEF Base
<1>0. ASSUME objects = 0 PROVE \A u \in Tasks : pc[u] \notin WaitPCs
  BY <1>0 DEF Counted, WaitOnTheEntry
<1>1. ASSUME NEW t \in Tasks,
             \/ TaskStep(t) \/ Deadline(t) \/ ReleaseGuard(t) \/ Cancel(t)
             \/ \E m \in Modes : Start(t, m)
      PROVE  Counted'
  <2>0. Others(t)
    BY <1>1, Frame
  <2>1. CASE \/ \E m \in Modes : Start(t, m)
             \/ Lookup(t) \/ GiveUp(t) \/ Backoff(t) \/ RegisterGuard(t) \/ ReleaseGuard(t)
             \/ ReleaseRefused(t) \/ DropRefused(t) \/ NotifyWaiters(t)
    <3>1. UNCHANGED <<stateVars, leaked>>
      BY <2>1 DEF Start, Lookup, GiveUp, Backoff, RegisterGuard, ReleaseGuard, ReleaseRefused,
                  DropRefused, NotifyWaiters, notifyVars
    <3>2. pc[t] \notin WaitPCs /\ pc'[t] \notin WaitPCs
      BY <2>1 DEF Start, Lookup, GiveUp, Backoff, RegisterGuard, ReleaseGuard, ReleaseRefused,
                  DropRefused, NotifyWaiters, Woke, Finish, WaitPCs
    <3>3. KeepsWaits(t)
      BY <3>1, <3>2 DEF KeepsWaits, stateVars
    <3> QED
      BY <2>0, <3>3, CountedQuiet
  <2>2. CASE TryFast(t) \/ TryRechecked(t) \/ TrySlow(t)
    <3>1. PICK from \in InFlightPCs, onFail \in {"recheck", "getOrCreate", "decide"} :
            Try(t, from, onFail)
      BY <2>2 DEF TryFast, TryRechecked, TrySlow, InFlightPCs
    <3>2. ref[t] = objects /\ objects \in States /\ word[objects] \in LockWords
      BY <3>1 DEF Try, Closed, OnTheEntry
    <3>3. /\ word'[objects].rwait = word[objects].rwait
          /\ word'[objects].wwait = word[objects].wwait
      <4>1. word'[objects] \in {word[objects], Acquired(word[objects], mode[t])}
        BY <3>1, <3>2 DEF Try
      <4> QED
        BY <3>2, <4>1 DEF Acquired, LockWords
    <3>4. UNCHANGED <<objects, alloc, leaked>> /\ pc[t] \notin WaitPCs /\ pc'[t] \notin WaitPCs
      BY <3>1 DEF Try, InFlightPCs, WaitPCs, notifyVars
    <3>5. KeepsWaits(t)
      BY <3>3, <3>4 DEF KeepsWaits
    <3> QED
      BY <2>0, <3>5, CountedQuiet
  <2>3. CASE Recheck(t) \/ GetOrCreate(t)
    <3>0. pc[t] \notin WaitPCs /\ pc'[t] \notin WaitPCs /\ leaked' = leaked
      BY <2>3 DEF Recheck, GetOrCreate, WaitPCs, notifyVars
    <3>1. CASE CloneEntry(t)
      <4>1. KeepsWaits(t)
        BY <3>0, <3>1 DEF CloneEntry, KeepsWaits, stateVars
      <4> QED
        BY <2>0, <4>1, CountedQuiet
    <3>2. ASSUME NEW w \in {FreeWord, Acquired(FreeWord, "Exclusive")}, NEW o, Create(t, w, o)
          PROVE  Counted'
      <4>1. \A u \in Tasks : pc'[u] \notin WaitPCs
        BY <1>0, <2>0, <3>0, <3>2 DEF Create, Others, WaitPCs
      <4>2. WaitersOn("Shared")' = {} /\ WaitersOn("Exclusive")' = {}
        BY <4>1 DEF WaitersOn, Waiting, WaitPCs
      <4>3. objects' = alloc + 1 /\ alloc + 1 \in States /\ word'[alloc + 1] = w
        BY <3>2 DEF Create
      <4>4. word'[objects'].rwait = 0 /\ word'[objects'].wwait = 0
        BY <3>2, <4>3 DEF FreeWord, Acquired
      <4>6. leaked'[objects']["Shared"] = 0 /\ leaked'[objects']["Exclusive"] = 0
        <5>1. "Shared" \in Modes /\ "Exclusive" \in Modes /\ alloc + 1 > alloc
          BY DEF Modes
        <5> QED
          BY <3>0, <4>3, <5>1 DEF Counted, FreshUnleaked
      <4>5. WaitingCountsExact'
        <5>1. Cardinality(WaitersOn("Shared")') = 0 /\ Cardinality(WaitersOn("Exclusive")') = 0
          BY <4>2, FS_EmptySet
        <5> QED
          BY <4>4, <4>6, <5>1 DEF WaitingCountsExact, WaitersOn
      <4>7. FreshUnleaked'
        BY <3>0, <3>2 DEF Create, Counted, FreshUnleaked
      <4> QED
        BY <4>1, <4>5, <4>7 DEF Counted, WaitOnTheEntry
    <3> QED
      BY <2>3, <3>1, <3>2 DEF Recheck, GetOrCreate
  <2>4. CASE Deadline(t)
    <3>1. KeepsWaits(t)
      BY <2>4 DEF Deadline, KeepsWaits, stateVars, notifyVars
    <3> QED
      BY <2>0, <3>1, CountedQuiet
  <2>5. CASE Wait(t)
    BY <2>0, <2>5, CountedWait
  <2>6. CASE RegisterWaiter(t) \/ Park(t) \/ Woken(t) \/ WaitTimeout(t)
    <3>1. UNCHANGED <<stateVars, leaked, mode, ref>> /\ pc[t] \in WaitPCs /\ pc'[t] \in WaitPCs
      BY <2>6 DEF RegisterWaiter, Park, Woken, WaitTimeout, WaitPCs
    <3>2. KeepsWaits(t)
      BY <3>1 DEF KeepsWaits, stateVars
    <3> QED
      BY <2>0, <3>2, CountedQuiet
  <2>7. CASE DecAfterWait(t)
    BY <2>0, <2>7, CountedDec
  <2>8. CASE RecordOwner(t)
    <3>1. KeepsWaits(t)
      BY <2>8 DEF RecordOwner, KeepsWaits, WaitPCs, notifyVars
    <3> QED
      BY <2>0, <3>1, CountedQuiet
  <2>9. CASE ReleaseState(t)
    <3>1. /\ objects \in States /\ word[objects] \in LockWords
          /\ UNCHANGED <<objects, alloc, leaked>>
      BY <2>9 DEF ReleaseState, notifyVars
    <3>2. /\ word'[objects].rwait = word[objects].rwait
          /\ word'[objects].wwait = word[objects].wwait
      BY <2>9, <3>1 DEF ReleaseState, Released, LockWords
    <3>3. pc[t] \notin WaitPCs /\ pc'[t] \notin WaitPCs
      BY <2>9 DEF ReleaseState, Finish, WaitPCs
    <3>4. KeepsWaits(t)
      BY <3>1, <3>2, <3>3 DEF KeepsWaits
    <3> QED
      BY <2>0, <3>4, CountedQuiet
  <2>10. CASE Cancel(t)
    <3>1. CASE pc[t] \in WaitPCs
      BY <2>10, <3>1, CountedCancel DEF Base
    <3>2. CASE pc[t] \notin WaitPCs
      <4>1. KeepsWaits(t)
        BY <2>10, <3>2, Dropped DEF KeepsWaits, stateVars, WaitPCs
      <4> QED
        BY <2>0, <4>1, CountedQuiet
    <3> QED
      BY <3>1, <3>2
  <2> QED
    BY <1>1, <2>1, <2>2, <2>3, <2>4, <2>5, <2>6, <2>7, <2>8, <2>9, <2>10 DEF TaskStep
<1>2. CASE ForeignNotify \/ UNCHANGED vars
  <2>0. /\ UNCHANGED <<objects, alloc, word, leaked, mode, ref>>
        /\ \A u \in Tasks : pc'[u] = pc[u] \/ (pc[u] = "parked" /\ pc'[u] = "woken")
    BY <1>2, FrameForeign DEF vars, stateVars, taskVars, notifyVars
  <2>1. WaitersOn("Shared")' = WaitersOn("Shared") /\ WaitersOn("Exclusive")' = WaitersOn("Exclusive")
    BY <2>0 DEF WaitersOn, Waiting
  <2>2. WaitOnTheEntry'
    BY <2>0 DEF Counted, WaitOnTheEntry, WaitPCs
  <2> QED
    BY <2>0, <2>1, <2>2 DEF Counted, FreshUnleaked, WaitingCountsExact, WaitersOn
<1>3. CASE Cleanup
  <2>1. /\ objects # 0 /\ objects' = 0 /\ word[objects] = FreeWord
        /\ UNCHANGED <<alloc, leaked, pc, mode, ref>>
    BY <1>3 DEF Cleanup, taskVars, notifyVars
  <2>2. Cardinality(WaitersOn("Shared")) = 0 /\ Cardinality(WaitersOn("Exclusive")) = 0
    <3>1. /\ 0 = Cardinality(WaitersOn("Shared")) + leaked[objects]["Shared"]
          /\ 0 = Cardinality(WaitersOn("Exclusive")) + leaked[objects]["Exclusive"]
      BY <2>1 DEF Counted, WaitingCountsExact, WaitersOn, FreeWord
    <3>2. leaked[objects]["Shared"] \in Nat /\ leaked[objects]["Exclusive"] \in Nat
      <4>1. objects \in States /\ "Shared" \in Modes /\ "Exclusive" \in Modes
        BY <2>1 DEF Modes
      <4> QED
        BY <4>1, Counters
    <3> QED
      BY <3>1, <3>2, FiniteWaiters
  <2>3. \A m \in Modes : WaitersOn(m) = {}
    BY <2>2, FiniteWaiters, FS_EmptySet DEF Modes
  <2>4. \A u \in Tasks : pc[u] \notin WaitPCs
    BY <2>3 DEF WaitersOn, Waiting, WaitPCs
  <2> QED
    BY <2>1, <2>4 DEF Counted, WaitOnTheEntry, FreshUnleaked, WaitingCountsExact
<1> QED
  BY <1>1, <1>2, <1>3 DEF Next

\* While cleanup misses its window and the tasks and the dropped waits fit into
\* the waiting fields, the word counts exactly the tasks that wait and the waits
\* that were dropped: no timeout, wake-up or retry leaves a count behind, and
\* nothing takes a dropped wait's count back.
THEOREM WaitsExact ==
  ASSUME CleanupWindow = FALSE, Cardinality(Tasks) + MaxCancels <= MaxWaiting
  PROVE  Spec => []WaitingCountsExact
<1>1. Init => Counted
  BY DEF Init, Counted, WaitOnTheEntry, FreshUnleaked, WaitingCountsExact, WaitPCs
<1>2. Base /\ Closed /\ Counted /\ [Next]_vars => Counted'
  BY CountedStep
<1>3. Counted => WaitingCountsExact
  BY DEF Counted
<1> QED
  BY <1>1, <1>2, <1>3, BaseHolds, ClosedHolds, PTL DEF Spec

=============================================================================
