-------------------------- MODULE BatchLockProofs --------------------------
(***************************************************************************)
(* Theorems about BatchLock, for any number of tasks, any finite set of    *)
(* keys and any assignment of keys to shards.                              *)
(*                                                                         *)
(* The argument: until a batch is through, each of its keys is in exactly  *)
(* one place, held, failed or still to do (Decided); and of a shard's keys *)
(* those a batch holds come before those it still wants (Ordered), so in a *)
(* circle of one-shard batches the keys waited for would grow forever.     *)
(***************************************************************************)
EXTENDS BatchLock, WellFoundedInduction, FiniteSetTheorems, SequenceTheorems, TLAPS

\* Every key of s comes before every key of the same shard in t.
Before(s, t) ==
  \A i \in DOMAIN s, j \in DOMAIN t : ShardOf[s[i]] = ShardOf[t[j]] => s[i] < t[j]

-----------------------------------------------------------------------------
(* Lemmas about the operators. *)

\* A set of numbers with finitely many members has a greatest one.
LEMMA MaxExists ==
  ASSUME NEW S \in SUBSET Nat, S # {}, IsFiniteSet(S)
  PROVE  \E k \in S : \A j \in S : j <= k
<1> DEFINE Above(k) == {i \in S : i > k}
           A == {Above(k) : k \in S}
<1>1. A \subseteq FiniteSubsetsOf(S) /\ A # {}
  <2>1. \A k \in S : IsFiniteSet(Above(k)) /\ Above(k) \subseteq S
    BY FS_Subset
  <2> QED
    BY <2>1 DEF FiniteSubsetsOf
<1>2. IsWellFoundedOn(StrictSubsetOrdering(S), FiniteSubsetsOf(S))
  BY FS_StrictSubsetOrderingWellFounded
<1>3. \E x \in A : \A y \in A : ~(<<y, x>> \in StrictSubsetOrdering(S))
  BY <1>1, <1>2, WFMin
<1>4. PICK k \in S : \A j \in S : ~(<<Above(j), Above(k)>> \in StrictSubsetOrdering(S))
  BY <1>3
<1>5. ASSUME NEW j \in S, ~(j <= k) PROVE FALSE
  <2>1. Above(j) \subseteq Above(k) /\ j \in Above(k) /\ j \notin Above(j)
    <3>1. j \in Nat /\ k \in Nat /\ j > k
      BY <1>5
    <3>2. \A i \in S : i > j => i > k
      BY <3>1
    <3>3. ~(j > j)
      BY <3>1
    <3>4. Above(j) \subseteq Above(k)
      BY <3>2
    <3>5. j \in Above(k)
      BY <3>1
    <3>6. j \notin Above(j)
      BY <3>3
    <3> QED
      BY <3>4, <3>5, <3>6
  <2>2. <<Above(j), Above(k)>> \in StrictSubsetOrdering(S)
    BY <2>1 DEF StrictSubsetOrdering
  <2> QED
    BY <1>4, <2>2
<1> QED
  BY <1>5

\* Taking the first key off a list.
LEMMA TakeFirst ==
  ASSUME NEW T, NEW s \in Seq(T), s # <<>>
  PROVE  /\ Head(s) \in T /\ Head(s) = s[1] /\ 1 \in DOMAIN s
         /\ Tail(s) \in Seq(T)
         /\ \A i \in DOMAIN Tail(s) : i + 1 \in DOMAIN s /\ i \in Nat /\ Tail(s)[i] = s[i + 1]
         /\ \A i \in DOMAIN s : i = 1 \/ (i - 1 \in DOMAIN Tail(s) /\ Tail(s)[i - 1] = s[i])
<1>1. Len(s) \in Nat /\ Len(s) # 0 /\ DOMAIN s = 1 .. Len(s) /\ Head(s) \in T /\ Tail(s) \in Seq(T)
  BY EmptySeq, HeadTailProperties
<1>2. Len(Tail(s)) = Len(s) - 1 /\ \A i \in 1 .. Len(Tail(s)) : Tail(s)[i] = s[i + 1]
  BY <1>1, HeadTailProperties
<1>3. DOMAIN Tail(s) = 1 .. (Len(s) - 1)
  BY <1>1, <1>2
<1>4. Head(s) = s[1] /\ 1 \in DOMAIN s
  BY <1>1
<1>5. ASSUME NEW i \in DOMAIN Tail(s)
      PROVE  i + 1 \in DOMAIN s /\ i \in Nat /\ Tail(s)[i] = s[i + 1]
  BY <1>1, <1>2, <1>3
<1>6. ASSUME NEW i \in DOMAIN s, i # 1
      PROVE  i - 1 \in DOMAIN Tail(s) /\ Tail(s)[i - 1] = s[i]
  <2>1. i - 1 \in 1 .. (Len(s) - 1) /\ (i - 1) + 1 = i
    BY <1>1, <1>6
  <2> QED
    BY <2>1, <1>2, <1>3
<1> QED
  BY <1>1, <1>4, <1>5, <1>6

\* The first key of a list of distinct keys is not in the rest.
LEMMA RestOf ==
  ASSUME NEW T, NEW s \in Seq(T), s # <<>>
  PROVE  /\ ToSet(s) = {Head(s)} \cup ToSet(Tail(s))
         /\ IsInjective(s) => IsInjective(Tail(s)) /\ Head(s) \notin ToSet(Tail(s))
<1>1. ToSet(s) = {Head(s)} \cup ToSet(Tail(s))
  <2>1. ASSUME NEW k \in ToSet(s) PROVE k \in {Head(s)} \cup ToSet(Tail(s))
    <3>1. PICK i \in DOMAIN s : k = s[i]
      BY DEF ToSet
    <3>2. i = 1 \/ (i - 1 \in DOMAIN Tail(s) /\ Tail(s)[i - 1] = s[i])
      BY TakeFirst
    <3> QED
      BY <3>1, <3>2, TakeFirst DEF ToSet
  <2>2. ASSUME NEW i \in DOMAIN Tail(s) PROVE Tail(s)[i] \in ToSet(s)
    BY TakeFirst DEF ToSet
  <2>3. Head(s) \in ToSet(s)
    BY TakeFirst DEF ToSet
  <2>4. ToSet(Tail(s)) \subseteq ToSet(s)
    BY <2>2 DEF ToSet
  <2> QED
    BY <2>1, <2>3, <2>4
<1>2. ASSUME IsInjective(s)
      PROVE  IsInjective(Tail(s)) /\ Head(s) \notin ToSet(Tail(s))
  <2>1. ASSUME NEW i \in DOMAIN Tail(s), NEW j \in DOMAIN Tail(s), i # j
        PROVE  Tail(s)[i] # Tail(s)[j]
    <3>1. i + 1 \in DOMAIN s /\ j + 1 \in DOMAIN s /\ i + 1 # j + 1
      BY <2>1, TakeFirst
    <3> QED
      BY <3>1, <1>2, TakeFirst DEF IsInjective
  <2>2. ASSUME NEW i \in DOMAIN Tail(s)
        PROVE  Tail(s)[i] # Head(s)
    <3>1. i + 1 \in DOMAIN s /\ i + 1 # 1 /\ 1 \in DOMAIN s
      BY TakeFirst
    <3> QED
      BY <3>1, <1>2, TakeFirst DEF IsInjective
  <2> QED
    BY <2>1, <2>2 DEF IsInjective, ToSet
<1> QED
  BY <1>1, <1>2

\* Adding a key at the end of a list.
LEMMA AppendOf ==
  ASSUME NEW T, NEW s \in Seq(T), NEW k \in T
  PROVE  /\ Append(s, k) \in Seq(T)
         /\ \A i \in DOMAIN Append(s, k) :
              \/ i \in DOMAIN s /\ Append(s, k)[i] = s[i]
              \/ Append(s, k)[i] = k
         /\ ToSet(Append(s, k)) = ToSet(s) \cup {k}
<1>1. /\ Append(s, k) \in Seq(T) /\ Len(Append(s, k)) = Len(s) + 1
      /\ \A i \in 1 .. Len(s) : Append(s, k)[i] = s[i]
      /\ Append(s, k)[Len(s) + 1] = k
      /\ Len(s) \in Nat /\ DOMAIN s = 1 .. Len(s)
  BY AppendProperties
<1>2. DOMAIN Append(s, k) = 1 .. (Len(s) + 1)
  BY <1>1
<1>3. \A i \in 1 .. (Len(s) + 1) : i \in 1 .. Len(s) \/ i = Len(s) + 1
  BY <1>1
<1>4. \A i \in 1 .. Len(s) : i \in 1 .. (Len(s) + 1)
  BY <1>1
<1>5. Len(s) + 1 \in 1 .. (Len(s) + 1)
  BY <1>1
<1>6. ToSet(Append(s, k)) = ToSet(s) \cup {k}
  BY <1>1, <1>2, <1>3, <1>4, <1>5 DEF ToSet
<1> QED
  BY <1>1, <1>2, <1>3, <1>6

\* The empty list.
LEMMA EmptyList ==
  /\ <<>> \in Seq(Keys) /\ ToSet(<<>>) = {} /\ IsInjective(<<>>) /\ GroupSorted(<<>>)
  /\ \A s : Before(s, <<>>) /\ Before(<<>>, s)
<1>1. <<>> \in Seq(Keys) /\ DOMAIN <<>> = {}
  OBVIOUS
<1> QED
  BY <1>1 DEF ToSet, IsInjective, GroupSorted, Before

\* Every order in which a batch's keys may be locked has each of them once, and
\* an order of the manager has the keys of a shard sorted.
LEMMA Orders ==
  ASSUME NEW K \in SUBSET Keys, NEW call, NEW s \in LockOrders(K, call)
  PROVE  /\ s \in Seq(Keys) /\ ToSet(s) = K /\ IsInjective(s)
         /\ call # "delete_objects" => GroupSorted(s)
<1>1. s \in SetToSeqs(K) /\ (call # "delete_objects" => GroupSorted(s))
  BY DEF LockOrders
<1>2. IsFiniteSet(K) /\ Cardinality(K) \in Nat
  BY BatchAssumption, FS_Subset, FS_CardinalityType
<1> DEFINE D == 1 .. Cardinality(K)
<1>3. s \in [D -> K] /\ \A i, j \in D : i # j => s[i] # s[j]
  BY <1>1 DEF SetToSeqs
<1>4. s \in Seq(Keys) /\ DOMAIN s = D /\ IsInjective(s)
  BY <1>2, <1>3 DEF IsInjective
<1>5. s \in Injection(D, K)
  <2>1. \A i, j \in D : s[i] = s[j] => i = j
    BY <1>3
  <2> QED
    BY <1>3, <2>1 DEF Injection, IsInjective
<1>6. IsFiniteSet(D) /\ Cardinality(D) = Cardinality(K)
  BY <1>2, FS_Interval
<1>7. s \in Surjection(D, K)
  BY <1>2, <1>5, <1>6, FS_Injection
<1>8. ToSet(s) = K
  BY <1>3, <1>4, <1>7 DEF Surjection, ToSet
<1> QED
  BY <1>1, <1>4, <1>8

-----------------------------------------------------------------------------
(* The inductive invariant. *)

\* What each phase leaves behind.
Phased(b) ==
  /\ pc[b] # "acquiring" => todo[b] = <<>>
  /\ pc[b] = "idle" => guards[b] = <<>> /\ failed[b] = {}
  /\ pc[b] \in {"acquiring", "returned"} /\ kind[b] = "two_phase" => failed[b] = {}

\* Each key of a batch is in one place.
Decided(b) ==
  /\ ToSet(guards[b]) \subseteq DOMAIN modes[b]
  /\ ToSet(todo[b]) \subseteq DOMAIN modes[b]
  /\ IsInjective(todo[b])
  /\ ToSet(todo[b]) \cap (ToSet(guards[b]) \cup failed[b]) = {}
  /\ ToSet(guards[b]) \cap failed[b] = {}
  /\ pc[b] \in {"acquiring", "returned"} =>
       DOMAIN modes[b] \subseteq ToSet(todo[b]) \cup ToSet(guards[b]) \cup failed[b]

\* A batch of the manager has taken the keys of a shard in their order.
Ordered(b) ==
  kind[b] # "delete_objects" => GroupSorted(todo[b]) /\ Before(guards[b], todo[b])

Inv == StateType /\ \A b \in Batches : Phased(b) /\ Decided(b) /\ Ordered(b)

LEMMA InitInv == Init => Inv
<1> SUFFICES ASSUME Init PROVE Inv
  OBVIOUS
<1>1. \A b \in Batches :
        /\ pc[b] = "idle" /\ kind[b] = "two_phase" /\ modes[b] = NoRequest
        /\ todo[b] = <<>> /\ guards[b] = <<>> /\ failed[b] = {}
  BY DEF Init
<1>2. NoRequest \in Requests /\ DOMAIN NoRequest = {}
  <2>1. NoRequest \in [{} -> Modes] /\ {} \in SUBSET Keys
    BY DEF NoRequest
  <2> QED
    BY <2>1 DEF Requests, NoRequest
<1>3. StateType
  BY <1>2, EmptyList DEF Init, StateType, AllKinds
<1>4. \A b \in Batches : Phased(b) /\ Decided(b) /\ Ordered(b)
  BY <1>1, <1>2, EmptyList DEF Phased, Decided, Ordered
<1> QED
  BY <1>3, <1>4 DEF Inv

\* The rest of a list is as sorted as the list, and its first key comes before
\* the rest.
LEMMA RestOrdered ==
  ASSUME NEW s \in Seq(Keys), s # <<>>, GroupSorted(s),
         NEW g \in Seq(Keys), Before(g, s)
  PROVE  /\ GroupSorted(Tail(s)) /\ Before(g, Tail(s))
         /\ Before(Append(g, Head(s)), Tail(s))
<1>1. ASSUME NEW i \in DOMAIN Tail(s), NEW j \in DOMAIN Tail(s),
             i < j, ShardOf[Tail(s)[i]] = ShardOf[Tail(s)[j]]
      PROVE  Tail(s)[i] < Tail(s)[j]
  <2>1. i + 1 \in DOMAIN s /\ j + 1 \in DOMAIN s /\ i + 1 < j + 1
    BY <1>1, TakeFirst
  <2>2. Tail(s)[i] = s[i + 1] /\ Tail(s)[j] = s[j + 1]
    BY TakeFirst
  <2> QED
    BY <1>1, <2>1, <2>2 DEF GroupSorted
<1>2. ASSUME NEW i \in DOMAIN g, NEW j \in DOMAIN Tail(s), ShardOf[g[i]] = ShardOf[Tail(s)[j]]
      PROVE  g[i] < Tail(s)[j]
  <2>1. j + 1 \in DOMAIN s /\ Tail(s)[j] = s[j + 1]
    BY TakeFirst
  <2> QED
    BY <1>2, <2>1 DEF Before
<1>3. ASSUME NEW j \in DOMAIN Tail(s), ShardOf[Head(s)] = ShardOf[Tail(s)[j]]
      PROVE  Head(s) < Tail(s)[j]
  <2>1. j + 1 \in DOMAIN s /\ Tail(s)[j] = s[j + 1] /\ j \in Nat /\ j # 0
    BY TakeFirst
  <2>2. Head(s) = s[1] /\ 1 \in DOMAIN s /\ 1 < j + 1
    BY <2>1, TakeFirst
  <2> QED
    BY <1>3, <2>1, <2>2 DEF GroupSorted
<1>4. Before(Append(g, Head(s)), Tail(s))
  <2> SUFFICES ASSUME NEW i \in DOMAIN Append(g, Head(s)), NEW j \in DOMAIN Tail(s),
                      ShardOf[Append(g, Head(s))[i]] = ShardOf[Tail(s)[j]]
               PROVE  Append(g, Head(s))[i] < Tail(s)[j]
    BY DEF Before
  <2>1. Head(s) \in Keys
    BY TakeFirst
  <2>2. \/ i \in DOMAIN g /\ Append(g, Head(s))[i] = g[i]
        \/ Append(g, Head(s))[i] = Head(s)
    BY <2>1, AppendOf
  <2> QED
    BY <2>2, <1>2, <1>3
<1> QED
  BY <1>1, <1>2, <1>4 DEF GroupSorted, Before

\* A step that leaves the other batches alone keeps what they satisfy.
LEMMA Others ==
  ASSUME Inv, NEW b \in Batches, StateType',
         \A c \in Batches \ {b} :
           /\ pc'[c] = pc[c] /\ kind'[c] = kind[c] /\ modes'[c] = modes[c]
           /\ todo'[c] = todo[c] /\ guards'[c] = guards[c] /\ failed'[c] = failed[c],
         Phased(b)', Decided(b)', Ordered(b)'
  PROVE  Inv'
<1>1. ASSUME NEW c \in Batches, c # b
      PROVE  Phased(c)' /\ Decided(c)' /\ Ordered(c)'
  <2>1. /\ pc'[c] = pc[c] /\ kind'[c] = kind[c] /\ modes'[c] = modes[c]
        /\ todo'[c] = todo[c] /\ guards'[c] = guards[c] /\ failed'[c] = failed[c]
    BY <1>1
  <2>2. Phased(c) /\ Decided(c) /\ Ordered(c)
    BY DEF Inv
  <2> QED
    BY <2>1, <2>2 DEF Phased, Decided, Ordered
<1> QED
  BY <1>1 DEF Inv

LEMMA BeginStep ==
  ASSUME Inv, NEW b \in Batches, NEW call \in Kinds, NEW m \in Requests, Begin(b, call, m)
  PROVE  Inv'
<1>1. PICK s \in LockOrders(DOMAIN m, call) : todo' = [todo EXCEPT ![b] = s]
  BY DEF Begin
<1>2. DOMAIN m \in SUBSET Keys /\ call \in AllKinds
  BY BatchAssumption DEF Requests
<1>3. /\ s \in Seq(Keys) /\ ToSet(s) = DOMAIN m /\ IsInjective(s)
      /\ call # "delete_objects" => GroupSorted(s)
  BY <1>2, Orders
<1>4. /\ pc'[b] = "acquiring" /\ kind'[b] = call /\ modes'[b] = m /\ todo'[b] = s
      /\ guards'[b] = guards[b] /\ failed'[b] = failed[b]
  BY <1>1 DEF Begin, Inv, StateType
<1>5. guards[b] = <<>> /\ failed[b] = {}
  BY DEF Inv, Phased, Begin
<1>6. StateType'
  BY <1>1, <1>2, <1>3 DEF Begin, Inv, StateType
<1>7. Phased(b)' /\ Decided(b)' /\ Ordered(b)'
  BY <1>3, <1>4, <1>5, EmptyList DEF Phased, Decided, Ordered
<1> QED
  BY <1>1, <1>6, <1>7, Others DEF Begin, Inv, StateType

LEMMA AcquireStep ==
  ASSUME Inv, NEW b \in Batches, Acquire(b)
  PROVE  Inv'
<1> DEFINE s == todo[b]
           g == guards[b]
<1>1. s \in Seq(Keys) /\ g \in Seq(Keys) /\ s # <<>>
  BY DEF Inv, StateType, Acquire
<1>2. Head(s) \in Keys /\ Tail(s) \in Seq(Keys) /\ Append(g, Head(s)) \in Seq(Keys)
  BY <1>1, TakeFirst, AppendOf
<1>3. /\ pc'[b] = pc[b] /\ kind'[b] = kind[b] /\ modes'[b] = modes[b] /\ todo'[b] = Tail(s)
      /\ guards'[b] = Append(g, Head(s)) /\ failed'[b] = failed[b] /\ pc[b] = "acquiring"
  BY DEF Acquire, Inv, StateType
<1>4. StateType'
  BY <1>2 DEF Acquire, Inv, StateType
<1>5. /\ ToSet(s) = {Head(s)} \cup ToSet(Tail(s))
      /\ ToSet(Append(g, Head(s))) = ToSet(g) \cup {Head(s)}
  BY <1>1, <1>2, RestOf, AppendOf
<1>6. Phased(b) /\ Decided(b) /\ Ordered(b)
  BY DEF Inv
<1>7. IsInjective(Tail(s)) /\ Head(s) \notin ToSet(Tail(s))
  BY <1>1, <1>6, RestOf DEF Decided
<1>8. Phased(b)'
  BY <1>3, <1>6 DEF Phased
<1>9. Decided(b)'
  BY <1>3, <1>5, <1>6, <1>7 DEF Decided
<1>10. Ordered(b)'
  BY <1>1, <1>3, <1>6, RestOrdered DEF Ordered
<1> QED
  BY <1>4, <1>8, <1>9, <1>10, Others DEF Acquire, Inv, StateType

LEMMA TimeoutStep ==
  ASSUME Inv, NEW b \in Batches, Timeout(b)
  PROVE  Inv'
<1> DEFINE s == todo[b]
           g == guards[b]
<1>1. s \in Seq(Keys) /\ g \in Seq(Keys) /\ s # <<>> /\ pc[b] = "acquiring"
  BY DEF Inv, StateType, Timeout
<1>2. Head(s) \in Keys /\ Tail(s) \in Seq(Keys)
  BY <1>1, TakeFirst
<1>3. /\ kind'[b] = kind[b] /\ modes'[b] = modes[b] /\ guards'[b] = g
      /\ failed'[b] = failed[b] \cup {Head(s)}
      /\ \/ kind[b] = "two_phase" /\ todo'[b] = <<>> /\ pc'[b] = "releasing"
         \/ kind[b] # "two_phase" /\ todo'[b] = Tail(s) /\ pc'[b] = pc[b]
  BY DEF Timeout, Inv, StateType
<1>4. StateType'
  <2>1. failed' \in [Batches -> SUBSET Keys]
    BY <1>2 DEF Timeout, Inv, StateType
  <2>2. todo' \in [Batches -> Seq(Keys)]
    BY <1>2, EmptyList DEF Timeout, Inv, StateType
  <2> QED
    BY <2>1, <2>2 DEF Timeout, Inv, StateType
<1>5. ToSet(s) = {Head(s)} \cup ToSet(Tail(s))
  BY <1>1, RestOf
<1>6. Phased(b) /\ Decided(b) /\ Ordered(b)
  BY DEF Inv
<1>7. IsInjective(Tail(s)) /\ Head(s) \notin ToSet(Tail(s))
  BY <1>1, <1>6, RestOf DEF Decided
<1>8. Phased(b)'
  BY <1>1, <1>3, <1>6 DEF Phased
<1>9. Decided(b)'
  BY <1>1, <1>3, <1>5, <1>6, <1>7, EmptyList DEF Decided
<1>10. Ordered(b)'
  BY <1>1, <1>3, <1>6, RestOrdered, EmptyList DEF Ordered
<1> QED
  BY <1>4, <1>8, <1>9, <1>10, Others DEF Timeout, Inv, StateType

\* The steps after the last request: Return, DropGuards, ReleaseOne and Finish.
LEMMA EndStep ==
  ASSUME Inv, NEW b \in Batches,
         Return(b) \/ DropGuards(b) \/ ReleaseOne(b) \/ Finish(b)
  PROVE  Inv'
<1>1. Phased(b) /\ Decided(b) /\ Ordered(b)
  BY DEF Inv
<1>2. CASE Return(b) \/ DropGuards(b)
  <2>1. /\ kind'[b] = kind[b] /\ modes'[b] = modes[b] /\ guards'[b] = guards[b]
        /\ failed'[b] = failed[b] /\ todo'[b] = todo[b] /\ todo[b] = <<>>
        /\ \/ pc[b] = "acquiring" /\ pc'[b] = "returned"
           \/ pc[b] = "returned" /\ pc'[b] = "releasing"
    BY <1>1, <1>2 DEF Return, DropGuards, Phased, Inv, StateType
  <2>2. StateType'
    BY <1>2 DEF Return, DropGuards, Inv, StateType
  <2>3. Phased(b)' /\ Decided(b)' /\ Ordered(b)'
    BY <1>1, <2>1 DEF Phased, Decided, Ordered
  <2> QED
    BY <1>2, <2>2, <2>3, Others DEF Return, DropGuards, Inv, StateType
<1>3. CASE ReleaseOne(b)
  <2> DEFINE g == guards[b]
  <2>1. /\ kind'[b] = kind[b] /\ modes'[b] = modes[b] /\ guards'[b] = Tail(g) /\ pc[b] = "releasing"
        /\ failed'[b] = failed[b] /\ todo'[b] = todo[b] /\ todo[b] = <<>> /\ pc'[b] = pc[b]
    BY <1>1, <1>3 DEF ReleaseOne, Phased, Inv, StateType
  <2>2. g \in Seq(Keys) /\ g # <<>>
    BY <1>3 DEF ReleaseOne, Inv, StateType
  <2>3. Tail(g) \in Seq(Keys) /\ ToSet(Tail(g)) \subseteq ToSet(g)
    BY <2>2, TakeFirst, RestOf
  <2>4. StateType'
    BY <1>3, <2>3 DEF ReleaseOne, Inv, StateType
  <2>5. Phased(b)' /\ Decided(b)' /\ Ordered(b)'
    BY <1>1, <2>1, <2>3, EmptyList DEF Phased, Decided, Ordered
  <2> QED
    BY <1>3, <2>4, <2>5, Others DEF ReleaseOne, Inv, StateType
<1>4. CASE Finish(b)
  <2>1. /\ kind'[b] = "two_phase" /\ modes'[b] = NoRequest /\ guards'[b] = <<>> /\ pc'[b] = "idle"
        /\ failed'[b] = {} /\ todo'[b] = <<>>
    BY <1>1, <1>4 DEF Finish, Phased, Inv, StateType
  <2>2. NoRequest \in Requests /\ DOMAIN NoRequest = {}
    <3>1. NoRequest \in [{} -> Modes] /\ {} \in SUBSET Keys
      BY DEF NoRequest
    <3> QED
      BY <3>1 DEF Requests, NoRequest
  <2>3. StateType'
    BY <1>4, <2>2 DEF Finish, Inv, StateType, AllKinds
  <2>4. Phased(b)' /\ Decided(b)' /\ Ordered(b)'
    BY <2>1, <2>2, EmptyList DEF Phased, Decided, Ordered
  <2> QED
    BY <1>4, <2>3, <2>4, Others DEF Finish, Inv, StateType
<1> QED
  BY <1>2, <1>3, <1>4

LEMMA NextInv == Inv /\ [Next]_vars => Inv'
<1> SUFFICES ASSUME Inv, [Next]_vars PROVE Inv'
  OBVIOUS
<1>1. CASE UNCHANGED vars
  BY <1>1 DEF vars, Inv, StateType, Phased, Decided, Ordered
<1>2. CASE Next
  BY <1>2, BeginStep, AcquireStep, TimeoutStep, EndStep DEF Next, BatchStep
<1> QED
  BY <1>1, <1>2

LEMMA Invariance == Spec => []Inv
BY InitInv, NextInv, PTL DEF Spec

-----------------------------------------------------------------------------
(* The theorems. *)

\* Whatever the keys, shards and calls, acquire_locks_batch and delete_objects
\* move each key of a batch from the keys to do to the locked or to the failed
\* ones, and no key is in two of the three.
THEOREM Typing == Spec => []TypeOK
<1>1. Inv => TypeOK
  BY DEF Inv, Decided, TypeOK, OnePlace
<1> QED
  BY <1>1, Invariance, PTL

\* acquire_locks_batch and delete_objects hand out a complete result: every
\* key locked or failed, never both, and a two-phase batch has them all.
THEOREM Complete == Spec => []ResultComplete
<1>1. Inv => ResultComplete
  <2> SUFFICES ASSUME Inv, NEW b \in Batches, pc[b] = "returned"
               PROVE  /\ \A k \in DOMAIN modes[b] : Holds(b, k) <=> k \notin failed[b]
                      /\ kind[b] = "two_phase" => failed[b] = {}
    BY DEF ResultComplete
  <2>1. Phased(b) /\ Decided(b)
    BY DEF Inv
  <2>2. todo[b] = <<>> /\ ToSet(todo[b]) = {}
    BY <2>1, EmptyList DEF Phased
  <2>3. \A k : Holds(b, k) <=> k \in ToSet(guards[b])
    BY DEF Holds, ToSet
  <2> QED
    BY <2>1, <2>2, <2>3 DEF Phased, Decided
<1> QED
  BY <1>1, Invariance, PTL

\* The key a waiting batch wants comes before the key its blocker wants: the
\* blocker holds the one and still wants the other, of the same shard.
LEMMA WaitsUpward ==
  ASSUME Inv, NEW b \in Batches, NEW c \in Batches, OneShard(c),
         WaitsFor(b, c), pc[c] = "acquiring", todo[c] # <<>>
  PROVE  Head(todo[b]) < Head(todo[c])
<1>1. PICK i \in DOMAIN guards[c] : guards[c][i] = Head(todo[b])
  BY DEF WaitsFor, Blocks, Holds
<1>2. 1 \in DOMAIN todo[c] /\ Head(todo[c]) = todo[c][1]
  BY TakeFirst DEF Inv, StateType
<1>3. guards[c][i] \in DOMAIN modes[c] /\ todo[c][1] \in DOMAIN modes[c]
  BY <1>2 DEF Inv, Decided, ToSet
<1>4. ShardOf[guards[c][i]] = ShardOf[todo[c][1]] /\ kind[c] # "delete_objects"
  BY <1>3 DEF OneShard
<1>5. Before(guards[c], todo[c])
  BY <1>4 DEF Inv, Ordered
<1> QED
  BY <1>1, <1>2, <1>4, <1>5 DEF Before

\* The sorting of acquire_locks_batch does what its comment claims within a
\* shard: no set of one-shard batches waits in a circle, however many batches.
THEOREM NoCircle == Spec => []NoCircularWait
<1>1. Inv => NoCircularWait
  <2> SUFFICES ASSUME Inv, NEW S \in SUBSET {b \in Batches : OneShard(b)}, S # {},
                      \A b \in S : \E c \in S : WaitsFor(b, c)
               PROVE  FALSE
    BY DEF NoCircularWait
  <2>1. \A b \in S : b \in Batches /\ OneShard(b) /\ pc[b] = "acquiring" /\ todo[b] # <<>>
    BY DEF WaitsFor
  <2> DEFINE Wanted == {Head(todo[b]) : b \in S}
  <2>2. Wanted \subseteq Keys /\ Wanted # {}
    BY <2>1, TakeFirst DEF Inv, StateType
  <2>3. Wanted \in SUBSET Nat /\ IsFiniteSet(Wanted)
    BY <2>2, BatchAssumption, FS_Subset
  <2>4. PICK k \in Wanted : \A j \in Wanted : j <= k
    BY <2>2, <2>3, MaxExists
  <2>5. PICK b \in S : k = Head(todo[b])
    BY <2>4
  <2>6. PICK c \in S : WaitsFor(b, c)
    OBVIOUS
  <2>7. k < Head(todo[c])
    BY <2>1, <2>5, <2>6, WaitsUpward
  <2>8. Head(todo[c]) \in Wanted /\ Head(todo[c]) <= k
    BY <2>4
  <2>9. k \in Nat /\ Head(todo[c]) \in Nat
    BY <2>3, <2>8
  <2> HIDE DEF Wanted
  <2> QED
    BY <2>7, <2>8, <2>9
<1> QED
  BY <1>1, Invariance, PTL

=============================================================================
