----------------------- MODULE FastLockInstanceProofs -----------------------
(***************************************************************************)
(* What is left of exclusion when cleanup hits its window: every holder,   *)
(* or group of readers, beyond the first is paid for by an instance that   *)
(* cleanup removed under a task in flight, whatever owner strings the      *)
(* tasks share.                                                            *)
(*                                                                         *)
(* A release may take away the lock of another task of the same node, and  *)
(* a refused one takes away nothing.  So holders and words do not match    *)
(* one to one; what stays true is that locked words are never fewer than   *)
(* the holders, and that a locked word is the map's or was hit.            *)
(***************************************************************************)
EXTENDS FastLockProofs

USE FastLockAssumption, WidthAssumption
    DEF FastLockAssumption, WidthAssumption, Goto, States, Forget

WriterWords == {s \in States : word[s].writer}

ReaderWords == {s \in States : word[s].readers > 0}

\* One element for each reader that some word counts.
ReaderSlots == {p \in States \X (1..MaxReaders) : p[2] <= word[p[1]].readers}

\* Removed instances, and the one the map has.
Reached == hits \cup {objects}

Covered ==
  /\ Cardinality(Holders("Exclusive")) <= Cardinality(WriterWords)
  /\ Cardinality(Holders("Shared")) <= Cardinality(ReaderSlots)

Located ==
  /\ hits \subseteq 1..alloc
  /\ \A s \in States : word[s].writer => word[s].readers = 0
  /\ \A s \in States : word[s].writer \/ word[s].readers > 0 => s \in Reached
  /\ \A t \in Tasks : pc[t] \in InFlightPCs => ref[t] \in Reached

Paid == Covered /\ Located

LEMMA FiniteWords ==
  /\ IsFiniteSet(WriterWords) /\ Cardinality(WriterWords) \in Nat
  /\ IsFiniteSet(ReaderSlots) /\ Cardinality(ReaderSlots) \in Nat
<1>1. IsFiniteSet(States) /\ IsFiniteSet(1..MaxReaders)
  BY FS_Interval
<1>2. IsFiniteSet(States \X (1..MaxReaders))
  BY <1>1, FS_Product
<1> QED
  BY <1>1, <1>2, FS_Subset, FS_CardinalityType DEF WriterWords, ReaderSlots

LEMMA FiniteHolders ==
  \A m : IsFiniteSet(Holders(m)) /\ Cardinality(Holders(m)) \in Nat
BY FiniteTasks DEF Holders

\* A step that acquires nothing and leaves the holders' counts in the words.
QuietWords(t) ==
  /\ UNCHANGED <<objects, hits>>
  /\ alloc' = alloc
  /\ \A s \in States : /\ word'[s].readers = word[s].readers
                       /\ word'[s].writer = word[s].writer
  /\ pc'[t] \in HoldPCs => pc[t] \in HoldPCs /\ mode'[t] = mode[t]
  /\ pc'[t] \in InFlightPCs =>
       (pc[t] \in InFlightPCs /\ ref'[t] = ref[t]) \/ ref'[t] = objects

LEMMA PaidQuiet ==
  ASSUME Base, Paid, NEW t \in Tasks, Others(t), QuietWords(t) PROVE Paid'
<1>1. \A m \in Modes : Holders(m)' \subseteq Holders(m)
  BY DEF Holders, Holds, HoldPCs, Others, QuietWords
<1>2. \A m \in Modes : Cardinality(Holders(m)') <= Cardinality(Holders(m))
  <2> SUFFICES ASSUME NEW m \in Modes
               PROVE  Cardinality(Holders(m)') <= Cardinality(Holders(m))
    OBVIOUS
  <2>1. IsFiniteSet(Holders(m)) /\ Holders(m)' \subseteq Holders(m)
    BY <1>1, FiniteHolders
  <2> QED
    BY <2>1, FS_Subset
<1>3. WriterWords' = WriterWords /\ ReaderSlots' = ReaderSlots
  BY DEF QuietWords, WriterWords, ReaderSlots
<1>4. \A m \in Modes : Cardinality(Holders(m)) \in Nat /\ Cardinality(Holders(m)') \in Nat
  <2> SUFFICES ASSUME NEW m \in Modes
               PROVE  Cardinality(Holders(m)) \in Nat /\ Cardinality(Holders(m)') \in Nat
    OBVIOUS
  <2>1. IsFiniteSet(Holders(m)) /\ Holders(m)' \subseteq Holders(m)
    BY <1>1, FiniteHolders
  <2> QED
    BY <2>1, FS_Subset, FS_CardinalityType
<1>5. Covered'
  <2>1. "Shared" \in Modes /\ "Exclusive" \in Modes
    BY DEF Modes
  <2>2. /\ Cardinality(Holders("Exclusive")') <= Cardinality(WriterWords)
        /\ Cardinality(Holders("Shared")') <= Cardinality(ReaderSlots)
    BY <1>2, <1>4, <2>1, FiniteWords DEF Paid, Covered
  <2> QED
    BY <1>3, <2>2 DEF Covered
<1>6. Located'
  <2>1. Reached' = Reached /\ hits' = hits /\ alloc' = alloc
    BY DEF QuietWords, Reached
  <2>2. \A u \in Tasks : pc'[u] \in InFlightPCs => ref'[u] \in Reached'
    BY <2>1 DEF Paid, Located, Others, QuietWords, InFlightPCs, Reached
  <2>3. \A s \in States : /\ word'[s].writer => word'[s].readers = 0
                          /\ word'[s].writer \/ word'[s].readers > 0 => s \in Reached'
    BY <2>1 DEF Paid, Located, QuietWords
  <2> QED
    BY <2>1, <2>2, <2>3 DEF Paid, Located
<1> QED
  BY <1>5, <1>6 DEF Paid

\* One instance's word gains a writer or a reader together with a holder.
LEMMA PaidAcquire ==
  ASSUME Base, Paid, NEW t \in Tasks, NEW s \in States, NEW m \in Modes,
         pc[t] \notin HoldPCs, Holders(m)' = Holders(m) \cup {t},
         \A k \in Modes \ {m} : Holders(k)' = Holders(k),
         ~word[s].writer, m = "Exclusive" => word[s].readers = 0,
         word'[s].writer <=> m = "Exclusive",
         word'[s].readers = (IF m = "Shared" THEN word[s].readers + 1 ELSE 0),
         word[s].readers \in Nat, word'[s].readers \in 0..MaxReaders,
         \A x \in States \ {s} : word'[x] = word[x]
  PROVE  Covered'
<1>0. t \notin Holders(m)
  BY DEF Holders, Holds, HoldPCs
<1>1. Cardinality(Holders(m)') = Cardinality(Holders(m)) + 1
  <2>1. IsFiniteSet(Holders(m))
    BY FiniteHolders
  <2>2. Cardinality(Holders(m) \cup {t}) = Cardinality(Holders(m)) + 1
    BY <1>0, <2>1, FS_AddElement
  <2> QED
    BY <2>2
<1>2. CASE m = "Exclusive"
  <2>1. WriterWords' = WriterWords \cup {s} /\ s \notin WriterWords
    BY <1>2 DEF WriterWords
  <2>2. Cardinality(WriterWords \cup {s}) = Cardinality(WriterWords) + 1
    BY <2>1, FiniteWords, FS_AddElement
  <2>3. ReaderSlots' = ReaderSlots
    <3>1. \A x \in States : word'[x].readers = word[x].readers
      BY <1>2
    <3> QED
      BY <3>1 DEF ReaderSlots
  <2>4. Holders("Shared")' = Holders("Shared")
    BY <1>2 DEF Modes
  <2>5. Cardinality(Holders("Exclusive")) + 1 <= Cardinality(WriterWords) + 1
    BY FiniteWords, FiniteHolders DEF Paid, Covered
  <2> QED
    BY <1>1, <1>2, <2>1, <2>2, <2>3, <2>4, <2>5 DEF Paid, Covered
<1>3. CASE m = "Shared"
  <2> DEFINE p == <<s, word[s].readers + 1>>
  <2>1. ReaderSlots' = ReaderSlots \cup {p} /\ p \notin ReaderSlots
    <3>1. p \in States \X (1..MaxReaders) /\ p[1] = s /\ p[2] = word[s].readers + 1
      BY <1>3
    <3>2. ASSUME NEW q \in States \X (1..MaxReaders)
          PROVE  q[2] <= word'[q[1]].readers <=> q[2] <= word[q[1]].readers \/ q = p
      <4>1. CASE q[1] # s
        BY <3>1, <4>1
      <4>2. CASE q[1] = s
        <5>1. q = <<s, q[2]>> /\ q[2] \in 1..MaxReaders
          BY <4>2
        <5>2. word'[s].readers = word[s].readers + 1
          BY <1>3
        <5>3. q[2] <= word[s].readers + 1 <=> q[2] <= word[s].readers \/ q[2] = word[s].readers + 1
          BY <5>1
        <5> QED
          BY <4>2, <5>1, <5>2, <5>3
      <4> QED
        BY <4>1, <4>2
    <3>3. ~(p[2] <= word[p[1]].readers)
      BY <3>1
    <3> QED
      BY <3>1, <3>2, <3>3 DEF ReaderSlots
  <2>2. Cardinality(ReaderSlots \cup {p}) = Cardinality(ReaderSlots) + 1
    BY <2>1, FiniteWords, FS_AddElement
  <2>3. WriterWords' = WriterWords
    BY <1>3 DEF WriterWords
  <2>4. Holders("Exclusive")' = Holders("Exclusive")
    BY <1>3 DEF Modes
  <2>5. Cardinality(Holders("Shared")) + 1 <= Cardinality(ReaderSlots) + 1
    BY FiniteWords, FiniteHolders DEF Paid, Covered
  <2> QED
    BY <1>1, <1>3, <2>1, <2>2, <2>3, <2>4, <2>5 DEF Paid, Covered
<1> QED
  BY <1>2, <1>3 DEF Modes

LEMMA PaidTry ==
  ASSUME Base, Paid, NEW t \in Tasks, NEW from \in InFlightPCs,
         NEW onFail \in {"recheck", "getOrCreate", "decide"}, Others(t), Try(t, from, onFail),
         NEW m \in Modes, mode[t] = m
  PROVE  Paid'
<1> DEFINE s == ref[t]
<1>0. /\ s \in States /\ word[s] \in LockWords /\ pc[t] \notin HoldPCs
      /\ word \in [States -> LockWords] /\ pc \in [Tasks -> PCs] /\ s \in Reached
      /\ pc[t] \in InFlightPCs
  BY DEF Try, InFlightPCs, HoldPCs, Base, RefsAllocated, TypeOK, StateType, TaskType, Paid, Located
<1>1. CASE ~CanAcquire(word[s], m)
  <2>1. UNCHANGED <<objects, hits, alloc, word, ref>> /\ pc'[t] = onFail
    BY <1>0, <1>1 DEF Try
  <2>2. QuietWords(t)
    BY <1>0, <2>1 DEF QuietWords, HoldPCs, InFlightPCs
  <2> QED
    BY <2>2, PaidQuiet
<1>2. CASE CanAcquire(word[s], m)
  <2>1. /\ UNCHANGED <<objects, hits, alloc, mode, ref>>
        /\ pc' = [pc EXCEPT ![t] = "record"]
        /\ word' = [word EXCEPT ![s] = Acquired(word[s], m)]
    BY <1>2 DEF Try
  <2>2. /\ Holders(m)' = Holders(m) \cup {t}
        /\ \A k \in Modes \ {m} : Holders(k)' = Holders(k)
    BY <1>0, <2>1 DEF Holders, Holds, HoldPCs
  <2>3. /\ ~word[s].writer /\ word[s].readers \in 0..MaxReaders
        /\ m = "Exclusive" => word[s].readers = 0
        /\ m = "Shared" => word[s].readers + 1 \in 0..MaxReaders
    <3>1. word[s].readers \in 0..MaxReaders
      BY <1>0, WordFields
    <3>2. CASE m = "Exclusive"
      BY <1>2, <3>1, <3>2 DEF CanAcquire, CanOwn, FreeWord
    <3>3. CASE m = "Shared"
      BY <1>2, <3>1, <3>3 DEF CanAcquire, CanShare
    <3> QED
      BY <3>1, <3>2, <3>3 DEF Modes
  <2>4. /\ word'[s].writer <=> m = "Exclusive"
        /\ word'[s].readers = (IF m = "Shared" THEN word[s].readers + 1 ELSE 0)
        /\ \A x \in States \ {s} : word'[x] = word[x]
    <3>1. word'[s] = Acquired(word[s], m) /\ \A x \in States \ {s} : word'[x] = word[x]
      BY <1>0, <2>1
    <3>2. CASE m = "Shared"
      BY <1>0, <2>3, <3>1, <3>2 DEF Acquired, LockWords
    <3>3. CASE m = "Exclusive"
      BY <1>0, <2>3, <3>1, <3>3 DEF Acquired, LockWords
    <3> QED
      BY <1>0, <3>1, <3>2, <3>3 DEF Modes
  <2>5. Covered'
    <3>1. word[s].readers \in Nat /\ word'[s].readers \in 0..MaxReaders
      BY <2>3, <2>4
    <3> HIDE DEF s
    <3> QED
      BY <1>0, <2>2, <2>3, <2>4, <3>1, PaidAcquire
  <2>6. Located'
    <3>1. Reached' = Reached /\ hits' = hits /\ alloc' = alloc
      BY <2>1 DEF Reached
    <3>2. \A u \in Tasks : pc'[u] \in InFlightPCs => ref'[u] \in Reached'
      BY <1>0, <2>1, <3>1 DEF Paid, Located, InFlightPCs
    <3>3. \A x \in States : word'[x].writer => word'[x].readers = 0
      BY <2>4 DEF Paid, Located
    <3>4. \A x \in States : word'[x].writer \/ word'[x].readers > 0 => x \in Reached'
      BY <1>0, <2>4, <3>1 DEF Paid, Located
    <3> QED
      BY <3>1, <3>2, <3>3, <3>4 DEF Paid, Located
  <2> QED
    BY <2>5, <2>6 DEF Paid
<1> QED
  BY <1>1, <1>2

LEMMA PaidCreate ==
  ASSUME Base, Paid, NEW t \in Tasks, Others(t), pc[t] \notin HoldPCs, mode[t] \in Modes,
         NEW w, NEW o, Create(t, w, o), mode' = mode,
         \/ w = FreeWord /\ pc' = [pc EXCEPT ![t] = "cas3"]
         \/ /\ w = Acquired(FreeWord, "Exclusive") /\ mode[t] = "Exclusive"
            /\ pc' = [pc EXCEPT ![t] = "guard"]
  PROVE  Paid'
<1> DEFINE s == alloc + 1
<1>0. /\ s \in States /\ s # 0 /\ objects = 0 /\ objects' = s /\ alloc' = s /\ hits' = hits
      /\ word' = [word EXCEPT ![s] = w] /\ ref' = [ref EXCEPT ![t] = s]
      /\ word \in [States -> LockWords] /\ pc \in [Tasks -> PCs] /\ ref \in [Tasks -> 0..MaxStates]
      /\ alloc \in Nat /\ hits \subseteq States
  BY DEF Create, Base, TypeOK, StateType, TaskType
<1>1. s \notin Reached
  BY <1>0 DEF Paid, Located, Reached
<1>2. ~word[s].writer /\ word[s].readers = 0
  <2>1. word[s].readers \in Nat
    BY <1>0, WordFields
  <2> QED
    BY <1>0, <1>1, <2>1 DEF Paid, Located
<1>3. /\ \A x \in States \ {s} : word'[x] = word[x]
      /\ word'[s] = w /\ w.readers = 0
      /\ w.writer => w = Acquired(FreeWord, "Exclusive")
  BY <1>0 DEF FreeWord, Acquired
<1>4. \A x \in Reached : x # 0 => x \in Reached'
  BY <1>0 DEF Reached
<1>5. Located'
  <2>1. hits' \subseteq 1..alloc'
    BY <1>0 DEF Paid, Located
  <2>2. ASSUME NEW u \in Tasks, pc'[u] \in InFlightPCs PROVE ref'[u] \in Reached'
    <3>1. CASE u = t
      BY <1>0, <3>1 DEF Reached
    <3>2. CASE u # t
      <4>1. pc[u] \in InFlightPCs /\ ref'[u] = ref[u]
        BY <1>0, <2>2, <3>2
      <4>2. ref[u] \in Reached /\ ref[u] # 0
        BY <1>0, <4>1 DEF Paid, Located, Base, RefsAllocated
      <4> QED
        BY <1>4, <4>1, <4>2
    <3> QED
      BY <3>1, <3>2
  <2>3. \A x \in States : word'[x].writer => word'[x].readers = 0
    BY <1>3 DEF Paid, Located
  <2>4. ASSUME NEW x \in States, word'[x].writer \/ word'[x].readers > 0 PROVE x \in Reached'
    <3>1. CASE x = s
      BY <1>0, <3>1 DEF Reached
    <3>2. CASE x # s
      <4>1. x \in Reached /\ x # 0
        BY <1>3, <2>4, <3>2 DEF Paid, Located
      <4> QED
        BY <1>4, <4>1
    <3> QED
      BY <3>1, <3>2
  <2> QED
    BY <2>1, <2>2, <2>3, <2>4 DEF Located
<1>6. Covered'
  <2>1. CASE w = FreeWord /\ pc' = [pc EXCEPT ![t] = "cas3"]
    <3>1. \A m \in Modes : Holders(m)' = Holders(m)
      BY <1>0, <2>1 DEF Holders, Holds, HoldPCs
    <3>2. \A x \in States : /\ word'[x].writer <=> word[x].writer
                            /\ word'[x].readers = word[x].readers
      BY <1>2, <1>3, <2>1 DEF FreeWord
    <3>3. WriterWords' = WriterWords /\ ReaderSlots' = ReaderSlots
      BY <3>2 DEF WriterWords, ReaderSlots
    <3> QED
      BY <3>1, <3>3 DEF Paid, Covered, Modes
  <2>2. CASE /\ w = Acquired(FreeWord, "Exclusive") /\ mode[t] = "Exclusive"
             /\ pc' = [pc EXCEPT ![t] = "guard"]
    <3>1. /\ Holders("Exclusive")' = Holders("Exclusive") \cup {t}
          /\ \A k \in Modes \ {"Exclusive"} : Holders(k)' = Holders(k)
      BY <1>0, <2>2 DEF Holders, Holds, HoldPCs
    <3>2. word'[s].writer /\ word'[s].readers = 0
      BY <1>3, <2>2 DEF Acquired, FreeWord
    <3>3. "Exclusive" \in Modes
      BY DEF Modes
    <3>4. word'[s].readers \in 0..MaxReaders /\ word[s].readers \in Nat
      BY <1>2, <3>2
    <3> HIDE DEF s
    <3> QED
      BY <1>0, <1>2, <1>3, <3>1, <3>2, <3>3, <3>4, PaidAcquire
  <2> QED
    BY <2>1, <2>2
<1> QED
  BY <1>5, <1>6 DEF Paid

\* A release takes one holder and one lock away, whoever's lock it is.
LEMMA PaidRelease ==
  ASSUME Base, Paid, NEW t \in Tasks, Others(t), ReleaseState(t),
         NEW m \in Modes, mode[t] = m
  PROVE  Paid'
<1> DEFINE s == objects
<1>0. /\ s \in States /\ word[s] \in LockWords
      /\ word \in [States -> LockWords] /\ pc \in [Tasks -> PCs]
      /\ CanRelease(word[s], m) /\ word' = [word EXCEPT ![s] = Released(word[s], m)]
      /\ UNCHANGED <<objects, alloc, hits>> /\ pc[t] = "rel" /\ pc'[t] \in {"idle", "notify"}
  BY DEF ReleaseState, Finish, Base, TypeOK, StateType, TaskType
<1>1. /\ Holders(m)' = Holders(m) \ {t} /\ t \in Holders(m)
      /\ \A k \in Modes \ {m} : Holders(k)' = Holders(k)
  BY <1>0 DEF Holders, Holds, HoldPCs, Others
<1>2. Cardinality(Holders(m)') = Cardinality(Holders(m)) - 1
  <2>1. IsFiniteSet(Holders(m))
    BY FiniteHolders
  <2>2. Cardinality(Holders(m) \ {t}) = Cardinality(Holders(m)) - 1
    BY <1>1, <2>1, FS_RemoveElement
  <2> QED
    BY <1>1, <2>2
<1>3. \A x \in States \ {s} : word'[x] = word[x]
  BY <1>0
<1>4. word'[s] = Released(word[s], m)
  BY <1>0
<1>5. CASE m = "Exclusive"
  <2>1. word[s].writer /\ ~word'[s].writer /\ word'[s].readers = word[s].readers
    BY <1>0, <1>4, <1>5 DEF CanRelease, Released, LockWords
  <2>2. WriterWords' = WriterWords \ {s} /\ s \in WriterWords
    BY <1>0, <1>3, <2>1 DEF WriterWords
  <2>3. Cardinality(WriterWords \ {s}) = Cardinality(WriterWords) - 1
    BY <2>2, FiniteWords, FS_RemoveElement
  <2>4. \A x \in States : word'[x].readers = word[x].readers
    BY <1>3, <2>1
  <2>5. ReaderSlots' = ReaderSlots
    BY <2>4 DEF ReaderSlots
  <2>6. Holders("Shared")' = Holders("Shared")
    BY <1>1, <1>5 DEF Modes
  <2>7. Cardinality(Holders("Exclusive")) - 1 <= Cardinality(WriterWords) - 1
    BY FiniteWords, FiniteHolders DEF Paid, Covered
  <2>8. Covered'
    BY <1>2, <1>5, <2>2, <2>3, <2>5, <2>6, <2>7 DEF Paid, Covered
  <2>9. \A x \in States : word'[x].writer => word[x].writer
    BY <1>3, <2>1
  <2>10. Located'
    <3>1. Reached' = Reached
      BY <1>0 DEF Reached
    <3>2. \A u \in Tasks : pc'[u] \in InFlightPCs => pc[u] \in InFlightPCs /\ ref'[u] = ref[u]
      BY <1>0 DEF Others, InFlightPCs
    <3> QED
      BY <1>0, <2>4, <2>9, <3>1, <3>2 DEF Paid, Located
  <2> QED
    BY <2>8, <2>10 DEF Paid
<1>6. CASE m = "Shared"
  <2> DEFINE p == <<s, word[s].readers>>
  <2>1. /\ word[s].readers \in 1..MaxReaders /\ word'[s].readers = word[s].readers - 1
        /\ word'[s].writer = word[s].writer
    BY <1>0, <1>4, <1>6 DEF CanRelease, Released, LockWords
  <2>2. ReaderSlots' = ReaderSlots \ {p} /\ p \in ReaderSlots
    <3>1. p \in States \X (1..MaxReaders) /\ p[1] = s /\ p[2] = word[s].readers
      BY <1>0, <2>1
    <3>2. ASSUME NEW q \in States \X (1..MaxReaders)
          PROVE  q[2] <= word'[q[1]].readers <=> q[2] <= word[q[1]].readers /\ q # p
      <4>1. CASE q[1] # s
        BY <1>3, <3>1, <4>1
      <4>2. CASE q[1] = s
        <5>1. q = <<s, q[2]>> /\ q[2] \in 1..MaxReaders
          BY <4>2
        <5>2. q[2] <= word[s].readers - 1 <=> q[2] <= word[s].readers /\ q[2] # word[s].readers
          BY <2>1, <5>1
        <5>3. q = p <=> q[2] = word[s].readers
          BY <3>1, <5>1
        <5> QED
          BY <2>1, <4>2, <5>2, <5>3
      <4> QED
        BY <4>1, <4>2
    <3>3. p[2] <= word[p[1]].readers
      BY <2>1, <3>1
    <3> QED
      BY <3>1, <3>2, <3>3 DEF ReaderSlots
  <2> HIDE DEF p
  <2>3. Cardinality(ReaderSlots \ {p}) = Cardinality(ReaderSlots) - 1
    BY <2>2, FiniteWords, FS_RemoveElement
  <2>4. \A x \in States : word'[x].writer = word[x].writer
    BY <1>3, <2>1
  <2>5. WriterWords' = WriterWords
    BY <2>4 DEF WriterWords
  <2>6. Holders("Exclusive")' = Holders("Exclusive")
    BY <1>1, <1>6 DEF Modes
  <2>7. Cardinality(Holders("Shared")) - 1 <= Cardinality(ReaderSlots) - 1
    BY FiniteWords, FiniteHolders DEF Paid, Covered
  <2>8. Covered'
    BY <1>2, <1>6, <2>2, <2>3, <2>5, <2>6, <2>7 DEF Paid, Covered
  <2>9. \A x \in States : /\ word'[x].readers > 0 => word[x].readers > 0
                          /\ word[x].readers = 0 => word'[x].readers = 0
    BY <1>3, <2>1
  <2>10. Located'
    <3>1. Reached' = Reached
      BY <1>0 DEF Reached
    <3>2. \A u \in Tasks : pc'[u] \in InFlightPCs => pc[u] \in InFlightPCs /\ ref'[u] = ref[u]
      BY <1>0 DEF Others, InFlightPCs
    <3> QED
      BY <1>0, <2>4, <2>9, <3>1, <3>2 DEF Paid, Located
  <2> QED
    BY <2>8, <2>10 DEF Paid
<1> QED
  BY <1>0, <1>5, <1>6 DEF Modes

\* Cleanup removes free words only; tasks in flight make the removal a hit.
LEMMA PaidCleanup == ASSUME Base, Paid, Cleanup PROVE Paid'
<1>1. /\ objects \in States /\ objects' = 0 /\ objects <= alloc /\ word[objects] = FreeWord
      /\ UNCHANGED <<alloc, word, pc, mode, ref>> /\ alloc \in Nat
      /\ hits' = IF InFlight(objects) = {} THEN hits ELSE hits \cup {objects}
  BY DEF Cleanup, taskVars, Base, TypeOK, StateType, Wellformed
<1>2. Covered'
  <2>1. WriterWords' = WriterWords /\ ReaderSlots' = ReaderSlots
    BY <1>1 DEF WriterWords, ReaderSlots
  <2>2. \A m : Holders(m)' = Holders(m)
    BY <1>1 DEF Holders, Holds
  <2> QED
    BY <2>1, <2>2 DEF Paid, Covered
<1>3. hits' \subseteq 1..alloc'
  BY <1>1 DEF Paid, Located
<1>4. ASSUME NEW x \in States, word[x].writer \/ word[x].readers > 0 PROVE x \in Reached'
  <2>1. x \in Reached /\ x # objects
    BY <1>1, <1>4 DEF Paid, Located, FreeWord
  <2> QED
    BY <1>1, <2>1 DEF Reached
<1>5. ASSUME NEW u \in Tasks, pc[u] \in InFlightPCs PROVE ref[u] \in Reached'
  <2>1. ref[u] \in Reached
    BY <1>5 DEF Paid, Located
  <2>2. ref[u] = objects => u \in InFlight(objects)
    BY <1>5 DEF InFlight, InFlightPCs
  <2> QED
    BY <1>1, <2>1, <2>2 DEF Reached
<1> QED
  BY <1>1, <1>2, <1>3, <1>4, <1>5 DEF Paid, Located

LEMMA PaidStep == ASSUME Base, Paid, [Next]_vars PROVE Paid'
<1> TypeOK
  BY DEF Base
<1>0. /\ \A t \in Tasks : mode[t] \in Modes /\ pc[t] \in PCs
      /\ word \in [States -> LockWords] /\ pc \in [Tasks -> PCs] /\ mode \in [Tasks -> Modes]
      /\ ref \in [Tasks -> 0..MaxStates] /\ objects \in 0..MaxStates
  BY DEF TypeOK, StateType, TaskType
<1>1. ASSUME NEW t \in Tasks,
             \/ TaskStep(t) \/ Deadline(t) \/ ReleaseGuard(t) \/ Cancel(t)
             \/ \E m \in Modes : Start(t, m)
      PROVE  Paid'
  <2>0. Others(t)
    BY <1>1, Frame
  <2>1. CASE \E m \in Modes : Start(t, m)
    <3>1. UNCHANGED stateVars /\ pc'[t] = "lookup"
      BY <1>0, <2>1 DEF Start
    <3>2. QuietWords(t)
      BY <3>1 DEF QuietWords, stateVars, HoldPCs, InFlightPCs
    <3> QED
      BY <2>0, <3>2, PaidQuiet
  <2>2. CASE Lookup(t)
    <3>1. /\ UNCHANGED stateVars /\ pc'[t] \notin HoldPCs
          /\ pc'[t] \in InFlightPCs => ref'[t] = objects
      BY <1>0, <2>2 DEF Lookup, HoldPCs, InFlightPCs
    <3>2. QuietWords(t)
      BY <3>1 DEF QuietWords, stateVars
    <3> QED
      BY <2>0, <3>2, PaidQuiet
  <2>3. CASE TryFast(t) \/ TryRechecked(t) \/ TrySlow(t)
    <3>1. PICK from \in InFlightPCs, onFail \in {"recheck", "getOrCreate", "decide"} :
            Try(t, from, onFail)
      BY <2>3 DEF TryFast, TryRechecked, TrySlow, InFlightPCs
    <3> QED
      BY <1>0, <2>0, <3>1, PaidTry
  <2>4. CASE Recheck(t) \/ GetOrCreate(t)
    <3>0. /\ pc[t] \in {"recheck", "getOrCreate"} /\ mode' = mode
          /\ pc[t] = "recheck" => mode[t] = "Exclusive"
      BY <2>4 DEF Recheck, GetOrCreate, Base, Wellformed
    <3>1. CASE CloneEntry(t)
      <4>1. UNCHANGED stateVars /\ ref'[t] = objects /\ pc'[t] \in {"cas2", "cas3", "guard"}
        BY <1>0, <2>4, <3>1 DEF Recheck, GetOrCreate, CloneEntry
      <4>2. pc'[t] # "guard"
        BY <1>0, <2>4, <3>1 DEF Recheck, GetOrCreate, CloneEntry, Create
      <4>3. QuietWords(t)
        BY <4>1, <4>2 DEF QuietWords, stateVars, HoldPCs, InFlightPCs
      <4> QED
        BY <2>0, <4>3, PaidQuiet
    <3>2. CASE ~CloneEntry(t)
      <4>1. PICK w, o : /\ Create(t, w, o)
                        /\ \/ w = FreeWord /\ pc' = [pc EXCEPT ![t] = "cas3"]
                           \/ /\ w = Acquired(FreeWord, "Exclusive") /\ mode[t] = "Exclusive"
                              /\ pc' = [pc EXCEPT ![t] = "guard"]
        BY <2>4, <3>0, <3>2 DEF Recheck, GetOrCreate
      <4>2. pc[t] \notin HoldPCs
        BY <3>0 DEF HoldPCs
      <4> QED
        BY <1>0, <2>0, <3>0, <4>1, <4>2, PaidCreate
    <3> QED
      BY <3>1, <3>2
  <2>5. CASE GiveUp(t) \/ Backoff(t) \/ DropRefused(t) \/ ReleaseRefused(t) \/ NotifyWaiters(t)
    <3>1. UNCHANGED stateVars
      BY <2>5 DEF GiveUp, Backoff, DropRefused, ReleaseRefused, NotifyWaiters
    <3>2. pc'[t] \notin HoldPCs \cup InFlightPCs
      <4>1. CASE GiveUp(t) \/ Backoff(t) \/ DropRefused(t) \/ ReleaseRefused(t)
        BY <1>0, <4>1 DEF GiveUp, Backoff, DropRefused, ReleaseRefused, Finish, HoldPCs,
                          InFlightPCs
      <4>2. CASE NotifyWaiters(t)
        BY <4>2 DEF NotifyWaiters, Woke, HoldPCs, InFlightPCs
      <4> QED
        BY <2>5, <4>1, <4>2
    <3>3. QuietWords(t)
      BY <3>1, <3>2 DEF QuietWords, stateVars
    <3> QED
      BY <2>0, <3>3, PaidQuiet
  <2>6. CASE Cancel(t)
    <3>1. UNCHANGED stateVars /\ pc'[t] = "idle"
      BY <2>6, Dropped
    <3>2. QuietWords(t)
      BY <3>1 DEF QuietWords, stateVars, HoldPCs, InFlightPCs
    <3> QED
      BY <2>0, <3>2, PaidQuiet
  <2>7. CASE Deadline(t)
    <3>1. UNCHANGED <<stateVars, pc, mode, ref>>
      BY <2>7 DEF Deadline
    <3>2. QuietWords(t)
      BY <3>1 DEF QuietWords, stateVars
    <3> QED
      BY <2>0, <3>2, PaidQuiet
  <2>8. CASE Wait(t) \/ DecAfterWait(t)
    <3>1. /\ UNCHANGED <<objects, alloc, hits>> /\ pc'[t] \notin HoldPCs \cup InFlightPCs
          /\ pc[t] \in InFlightPCs \cup WaitPCs
      BY <1>0, <2>8 DEF Wait, DecAfterWait, Finish, HoldPCs, InFlightPCs, WaitPCs
    <3>2. ref[t] \in States
      BY <3>1 DEF Base, RefsAllocated, TypeOK, StateType
    <3>3. \/ word' = [word EXCEPT ![ref[t]] = IncWaiting(word[ref[t]], mode[t])]
          \/ word' = [word EXCEPT ![ref[t]] = DecWaiting(word[ref[t]], mode[t])]
      BY <2>8 DEF Wait, DecAfterWait
    <3>4. \A w \in LockWords : /\ IncWaiting(w, mode[t]).readers = w.readers
                               /\ IncWaiting(w, mode[t]).writer = w.writer
                               /\ DecWaiting(w, mode[t]).readers = w.readers
                               /\ DecWaiting(w, mode[t]).writer = w.writer
      BY DEF IncWaiting, DecWaiting, LockWords
    <3>5. ASSUME NEW x \in States
          PROVE  word'[x].readers = word[x].readers /\ word'[x].writer = word[x].writer
      <4>1. word[x] \in LockWords
        BY <1>0
      <4>2. \/ word'[x] = word[x]
            \/ word'[x] = IncWaiting(word[x], mode[t])
            \/ word'[x] = DecWaiting(word[x], mode[t])
        BY <1>0, <3>2, <3>3
      <4> QED
        BY <3>4, <4>1, <4>2
    <3>6. QuietWords(t)
      BY <3>1, <3>5 DEF QuietWords
    <3> QED
      BY <2>0, <3>6, PaidQuiet
  <2>9. CASE RegisterWaiter(t) \/ Park(t) \/ Woken(t) \/ WaitTimeout(t)
    <3>1. UNCHANGED stateVars /\ pc'[t] \in WaitPCs
      BY <1>0, <2>9 DEF RegisterWaiter, Park, Woken, WaitTimeout, WaitPCs
    <3>2. QuietWords(t)
      BY <3>1 DEF QuietWords, stateVars, HoldPCs, InFlightPCs, WaitPCs
    <3> QED
      BY <2>0, <3>2, PaidQuiet
  <2>10. CASE RecordOwner(t) \/ RegisterGuard(t) \/ ReleaseGuard(t)
    <3>1. /\ UNCHANGED <<objects, alloc, word, hits, mode>> /\ pc[t] \in HoldPCs
          /\ pc'[t] \notin InFlightPCs
      BY <1>0, <2>10 DEF RecordOwner, RegisterGuard, ReleaseGuard, stateVars, HoldPCs, InFlightPCs
    <3>2. QuietWords(t)
      BY <3>1 DEF QuietWords
    <3> QED
      BY <2>0, <3>2, PaidQuiet
  <2>11. CASE ReleaseState(t)
    BY <1>0, <2>0, <2>11, PaidRelease
  <2> QED
    BY <1>1, <2>1, <2>2, <2>3, <2>4, <2>5, <2>6, <2>7, <2>8, <2>9, <2>10, <2>11 DEF TaskStep
<1>2. CASE ForeignNotify \/ UNCHANGED vars
  <2>0. /\ UNCHANGED <<objects, alloc, word, hits, mode, ref>>
        /\ \A u \in Tasks : pc'[u] = pc[u] \/ (pc[u] = "parked" /\ pc'[u] = "woken")
    BY <1>2, FrameForeign DEF vars, stateVars, taskVars
  <2>1. WriterWords' = WriterWords /\ ReaderSlots' = ReaderSlots /\ Reached' = Reached
    BY <2>0 DEF WriterWords, ReaderSlots, Reached
  <2>2. Holders("Shared")' = Holders("Shared") /\ Holders("Exclusive")' = Holders("Exclusive")
    BY <2>0 DEF Holders, Holds
  <2>3. Located'
    BY <2>0, <2>1 DEF Paid, Located, InFlightPCs
  <2> QED
    BY <2>1, <2>2, <2>3 DEF Paid, Covered
<1>3. CASE Cleanup
  BY <1>3, PaidCleanup
<1> QED
  BY <1>1, <1>2, <1>3 DEF Next

LEMMA PaidInit == Init => Paid
<1> SUFFICES ASSUME Init PROVE Paid
  OBVIOUS
<1>1. Holders("Shared") = {} /\ Holders("Exclusive") = {}
  BY DEF Init, Holders, Holds
<1>2. Covered
  <2>1. Cardinality(Holders("Shared")) = 0 /\ Cardinality(Holders("Exclusive")) = 0
    BY <1>1, FS_EmptySet
  <2> QED
    BY <2>1, FiniteWords DEF Covered
<1>3. Located
  BY DEF Init, Located, FreeWord, InFlightPCs
<1> QED
  BY <1>2, <1>3 DEF Paid

\* Locked words are the map's or hit ones, and none is locked in both modes.
LEMMA PaidBounds == ASSUME Base, Paid PROVE HitsBoundHolders
<1>0. IsFiniteSet(hits) /\ Cardinality(hits) \in Nat /\ IsFiniteSet(States)
  <2>1. IsFiniteSet(States) /\ hits \subseteq States
    BY FS_Interval DEF Base, TypeOK, StateType
  <2> QED
    BY <2>1, FS_Subset, FS_CardinalityType
<1>1. IsFiniteSet(Reached) /\ Cardinality(Reached) \in Nat /\ Cardinality(Reached) <= Cardinality(hits) + 1
  <2>1. IsFiniteSet(Reached) /\ (Cardinality(Reached) = Cardinality(hits) + 1 \/ Cardinality(Reached) = Cardinality(hits))
    BY <1>0, FS_AddElement DEF Reached
  <2> QED
    BY <1>0, <2>1
<1>2. /\ WriterWords \subseteq Reached /\ ReaderWords \subseteq Reached
      /\ WriterWords \cap ReaderWords = {}
  BY DEF Paid, Located, WriterWords, ReaderWords
<1>3. CASE Holders("Shared") = {}
  <2>1. Cardinality(WriterWords) <= Cardinality(Reached)
    BY <1>1, <1>2, FS_Subset
  <2>2. Cardinality(Holders("Exclusive")) <= Cardinality(WriterWords)
    BY DEF Paid, Covered
  <2>3. Cardinality(Holders("Exclusive")) + 0 <= Cardinality(hits) + 1
    BY <1>0, <1>1, <2>1, <2>2, FiniteWords, FiniteHolders
  <2> QED
    BY <1>3, <2>3 DEF HitsBoundHolders
<1>4. CASE Holders("Shared") # {}
  <2>1. PICK r \in ReaderWords : TRUE
    <3>1. Cardinality(Holders("Shared")) # 0
      BY <1>4, FiniteHolders, FS_EmptySet
    <3>2. Cardinality(ReaderSlots) # 0
      BY <3>1, FiniteHolders, FiniteWords DEF Paid, Covered
    <3>3. ReaderSlots # {}
      BY <3>2, FS_EmptySet
    <3>4. PICK p \in States \X (1..MaxReaders) : p[2] <= word[p[1]].readers
      BY <3>3 DEF ReaderSlots
    <3>5. p[1] \in States /\ p[2] \in 1..MaxReaders /\ word[p[1]] \in LockWords
      BY <3>4 DEF Base, TypeOK, StateType
    <3>6. word[p[1]].readers > 0
      BY <3>4, <3>5, WordFields
    <3> QED
      BY <3>5, <3>6 DEF ReaderWords
  <2>2. WriterWords \cup {r} \subseteq Reached /\ r \notin WriterWords
    BY <1>2, <2>1
  <2>3. Cardinality(WriterWords \cup {r}) = Cardinality(WriterWords) + 1
    BY <2>2, FiniteWords, FS_AddElement
  <2>4. Cardinality(WriterWords \cup {r}) <= Cardinality(Reached)
    BY <1>1, <2>2, FS_Subset
  <2>5. Cardinality(Holders("Exclusive")) <= Cardinality(WriterWords)
    BY DEF Paid, Covered
  <2>6. Cardinality(Holders("Exclusive")) + 1 <= Cardinality(hits) + 1
    BY <1>0, <1>1, <2>3, <2>4, <2>5, FiniteWords, FiniteHolders
  <2> QED
    BY <1>4, <2>6 DEF HitsBoundHolders
<1> QED
  BY <1>3, <1>4

\* Whatever cleanup does and whatever owner strings the tasks share, k
\* instances removed under a task in flight let at most k + 1 exclusive
\* holders, or groups of readers, of the key exist at once.
THEOREM HitsBound == Spec => []HitsBoundHolders
<1>1. Base /\ Paid /\ [Next]_vars => Paid'
  BY PaidStep
<1>2. Base /\ Paid => HitsBoundHolders
  BY PaidBounds
<1> QED
  BY <1>1, <1>2, PaidInit, BaseHolds, PTL DEF Spec

=============================================================================
