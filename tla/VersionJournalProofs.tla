------------------------ MODULE VersionJournalProofs ------------------------
(***************************************************************************)
(* Theorems about VersionJournal, for any number of disks, operations and  *)
(* missed calls, and any parity.                                           *)
(*                                                                         *)
(* Three invariants describe what a listing reads.  An acknowledged        *)
(* operation was missed by fewer disks than make a quorum, so the listing  *)
(* hears the old state from no more than these (Settled).  No two versions *)
(* have the same mod_time and no journal has an id twice (Dates).  While   *)
(* no call was missed all disks are alike (Even).                          *)
(*                                                                         *)
(* The merge is then proved about any streams of that kind (Plain).  The   *)
(* folds it is built from are unrolled once (Folds, FoldExists), which     *)
(* gives a rule of invariants for its rounds (MergeRule).  A round picks   *)
(* one version and merges it only if a quorum has copies (RoundOf); with   *)
(* no rivals it picks the newest there is (UnrivalledRound); and a version *)
(* that a quorum has and nobody disputes leaves the streams only by being  *)
(* merged (SafeRound), while each round drops something (RoundDrops).      *)
(***************************************************************************)
EXTENDS VersionJournal, FiniteSetTheorems, SequenceTheorems, WellFoundedInduction, TLAPS

USE VersionJournalAssumption DEF VersionJournalAssumption

Journals == SUBSET Versions

Streamed == streams \in Seq(Journals)

\* Any set of disks is finite.
LEMMA FiniteDisks ==
  \A S \in SUBSET Disks : IsFiniteSet(S) /\ Cardinality(S) \in Nat
BY FS_Subset, FS_CardinalityType

\* What InsertAt makes of a sequence.
IsInserted(t, s, k, e) ==
  /\ t \in Seq(Journals)
  /\ Len(t) = Len(s) + 1
  /\ \A i \in 1..(Len(s) + 1) : t[i] = IF i < k THEN s[i] ELSE IF i = k THEN e ELSE s[i - 1]

LEMMA Inserted ==
  ASSUME NEW s \in Seq(Journals), NEW k \in 1..(Len(s) + 1), NEW e \in Journals
  PROVE  IsInserted(InsertAt(s, k, e), s, k, e)
<1> DEFINE a == SubSeq(s, 1, k - 1)
           c == SubSeq(s, k, Len(s))
<1>0. Len(s) \in Nat /\ \A i \in 1..Len(s) : s[i] \in Journals
  BY LenProperties, ElementOfSeq
<1>1. a \in Seq(Journals) /\ Len(a) = k - 1 /\ \A i \in 1..(k - 1) : a[i] = s[i]
  <2>1. \A i \in 1..(k - 1) : s[i] \in Journals
    BY <1>0
  <2> QED
    BY <1>0, <2>1, SubSeqProperties
<1>2. c \in Seq(Journals) /\ Len(c) = Len(s) - k + 1 /\ \A i \in 1..(Len(s) - k + 1) : c[i] = s[k + i - 1]
  <2>1. \A i \in k..Len(s) : s[i] \in Journals
    BY <1>0
  <2> QED
    BY <1>0, <2>1, SubSeqProperties
<1> HIDE DEF a, c
<1> DEFINE b == a \o <<e>>
<1>3. b \in Seq(Journals) /\ Len(b) = k /\ b[k] = e /\ \A i \in 1..(k - 1) : b[i] = s[i]
  BY <1>0, <1>1, ConcatProperties
<1> HIDE DEF b
<1>4. /\ b \o c \in Seq(Journals)
      /\ Len(b \o c) = Len(s) + 1
      /\ \A i \in 1..(Len(s) + 1) : (b \o c)[i] = IF i <= k THEN b[i] ELSE c[i - k]
  <2>1. Len(b) + Len(c) = Len(s) + 1
    BY <1>0, <1>2, <1>3
  <2>2. /\ b \o c \in Seq(Journals)
        /\ Len(b \o c) = Len(b) + Len(c)
        /\ \A i \in 1..(Len(b) + Len(c)) : (b \o c)[i] = IF i <= Len(b) THEN b[i] ELSE c[i - Len(b)]
    BY <1>2, <1>3, ConcatProperties
  <2> QED
    BY <1>3, <2>1, <2>2
<1>5. \A i \in 1..(Len(s) + 1) : i > k => c[i - k] = s[i - 1]
  BY <1>0, <1>2
<1>6. \A i \in 1..(Len(s) + 1) :
        (b \o c)[i] = IF i < k THEN s[i] ELSE IF i = k THEN e ELSE s[i - 1]
  <2> TAKE i \in 1..(Len(s) + 1)
  <2>1. CASE i < k
    <3>1. i \in 1..(k - 1) /\ i <= k
      BY <1>0, <2>1
    <3> QED
      BY <1>3, <1>4, <2>1, <3>1
  <2>2. CASE i = k
    BY <1>3, <1>4, <2>2
  <2>3. CASE i > k
    <3>1. i \in Int /\ k \in Int /\ ~(i <= k) /\ ~(i < k) /\ i # k
      BY <1>0, <2>3
    <3>2. (b \o c)[i] = c[i - k] /\ c[i - k] = s[i - 1]
      BY <1>4, <1>5, <2>3, <3>1
    <3>3. (IF i < k THEN s[i] ELSE IF i = k THEN e ELSE s[i - 1]) = s[i - 1]
      BY <3>1
    <3> QED
      BY <3>2, <3>3
  <2>4. i < k \/ i = k \/ i > k
    BY <1>0
  <2> QED
    BY <2>1, <2>2, <2>3, <2>4
<1>7. InsertAt(s, k, e) = b \o c
  BY DEF InsertAt, a, b, c
<1>8. IsInserted(b \o c, s, k, e)
  BY <1>4, <1>6 DEF IsInserted
<1> QED
  BY <1>7, <1>8

-----------------------------------------------------------------------------
(* Type correctness. *)

Typed == TypeOK /\ Streamed

\* Records of versions, and that there is no version is none.
LEMMA VersionTypes ==
  /\ NoVersion \notin Versions
  /\ \A i \in Ids, t \in Times, y \in {"Object", "Delete"} :
       [id |-> i, time |-> t, type |-> y] \in Versions
  /\ \A v \in Versions : v.id \in Ids /\ v.time \in Times /\ v.type \in {"Object", "Delete"}
BY DEF NoVersion, Versions, Ids, Times

\* Journals with one version per id.
Proper(j) == j \in Journals /\ \A v, w \in j : v.id = w.id => v = w

\* add_version keeps one version per id.
LEMMA AddProper ==
  ASSUME NEW j, Proper(j), NEW v \in Versions PROVE Proper(AddVersion(j, v))
BY DEF Proper, AddVersion, WithId, Journals

\* And so does delete_version.
LEMMA DeleteProper ==
  ASSUME NEW j, Proper(j), NEW id \in Ids, NEW v \in Versions \cup {NoVersion},
         NEW b \in BOOLEAN, ~Undeletable(j, id, v)
  PROVE  Proper(DeleteVersion(j, id, v, b))
<1>1. v # NoVersion => Proper(AddVersion(j, v))
  BY AddProper
<1>2. \A x : Proper(j \ {x})
  BY DEF Proper, Journals
<1>3. WithId(j, id) = {} => v # NoVersion
  BY DEF Undeletable
<1> QED
  BY <1>1, <1>2, <1>3 DEF DeleteVersion

\* The history keeps its types ...
LEMMA RecordTyped ==
  ASSUME Typed, NEW id \in Ids, NEW v \in Versions \cup {NoVersion}, NEW D, NEW a \in BOOLEAN,
         Record(id, v, D, a)
  PROVE  /\ last' \in [Ids -> [version : Versions \cup {NoVersion}, acked : BOOLEAN]]
         /\ due' \subseteq Versions
         /\ gone' \subseteq Ids
BY DEF Typed, TypeOK, Record

\* ... and so does the count of missed calls.
LEMMA MissTyped ==
  ASSUME Typed, NEW M \in SUBSET Disks, Miss(M) PROVE misses' \in 0..MaxMisses
BY FiniteDisks DEF Typed, TypeOK, Miss

\* What TypeOK says of each journal, and back.
LEMMA JournalsProper ==
  ASSUME Typed PROVE \A d \in Disks : Proper(journal[d])
BY DEF Typed, TypeOK, Proper, Journals

LEMMA JournalTyped ==
  ASSUME NEW f, f \in [Disks -> Journals], \A d \in Disks : Proper(f[d])
  PROVE  f \in [Disks -> SUBSET Versions] /\ \A d \in Disks : \A v, w \in f[d] : v.id = w.id => v = w
BY DEF Proper, Journals

\* A delete keeps the types.
LEMMA DeleteTyped ==
  ASSUME Typed, NEW id \in Ids, NEW v \in Versions \cup {NoVersion}, NEW b \in BOOLEAN,
         DeleteAt(id, v, b), clock < MaxOps, clock' = clock + 1, UNCHANGED <<puts, walkVars>>
  PROVE  Typed'
<1>1. PICK M \in SUBSET Disks :
        LET D == {d \in Disks \ M : ~Undeletable(journal[d], id, v)} IN
        /\ Miss(M)
        /\ journal' = [d \in Disks |-> IF d \in D THEN DeleteVersion(journal[d], id, v, b)
                                       ELSE journal[d]]
        /\ Record(id, v, D, Cardinality(D) >= DeleteQuorum /\ (b \/ v = NoVersion))
  BY DEF DeleteAt
<1> DEFINE D == {d \in Disks \ M : ~Undeletable(journal[d], id, v)}
           a == Cardinality(D) >= DeleteQuorum /\ (b \/ v = NoVersion)
<1>2. \A d \in Disks : Proper(journal'[d])
  BY <1>1, JournalsProper, DeleteProper
<1>3. journal' \in [Disks -> Journals]
  BY <1>1, <1>2 DEF Proper
<1>4. /\ journal' \in [Disks -> SUBSET Versions]
      /\ \A d \in Disks : \A x, y \in journal'[d] : x.id = y.id => x = y
  BY <1>2, <1>3, JournalTyped
<1>5. a \in BOOLEAN /\ Record(id, v, D, a)
  BY <1>1
<1> HIDE DEF D, a
<1>6. /\ last' \in [Ids -> [version : Versions \cup {NoVersion}, acked : BOOLEAN]]
      /\ due' \subseteq Versions /\ gone' \subseteq Ids
  BY <1>5, RecordTyped
<1>7. misses' \in 0..MaxMisses
  BY <1>1, MissTyped
<1> QED
  BY <1>4, <1>6, <1>7 DEF Typed, TypeOK, Streamed, walkVars, Journals

\* The types are inductive.
LEMMA TypedStep == ASSUME Typed, [Next]_vars PROVE Typed'
<1> USE DEF Typed
<1>0. clock \in 0..MaxOps /\ MaxOps \in Nat
  BY DEF TypeOK
<1>1. ASSUME NEW id \in {Null, clock + 1}, BeginPut(id) PROVE Typed'
  <2>0. id \in Ids /\ clock + 1 \in Times
    BY <1>0, <1>1 DEF BeginPut, Ids, Times, Null
  <2>1. [id |-> id, time |-> clock + 1, type |-> "Object"] \in Versions
    BY <2>0, VersionTypes
  <2> QED
    BY <1>0, <1>1, <2>1 DEF BeginPut, TypeOK, Streamed, listVars, walkVars
<1>2. ASSUME NEW id \in {Null, clock + 1}, DeleteLatest(id) PROVE Typed'
  <2>0. id \in Ids /\ clock + 1 \in Times
    BY <1>0, <1>2 DEF DeleteLatest, Ids, Times, Null
  <2>1. [id |-> id, time |-> clock + 1, type |-> "Delete"] \in Versions
    BY <2>0, VersionTypes
  <2> QED
    BY <1>2, <2>0, <2>1, DeleteTyped DEF DeleteLatest
<1>3. ASSUME NEW v \in puts, CommitPut(v) PROVE Typed'
  <2>0. v \in Versions /\ v.id \in Ids
    BY VersionTypes DEF TypeOK
  <2>1. PICK M \in SUBSET Disks :
          LET D == {d \in Disks \ M : ~Refuses(journal[d], v)} IN
          /\ Miss(M)
          /\ puts' = puts \ {v}
          /\ journal' = [d \in Disks |-> IF d \in D THEN AddVersion(journal[d], v) ELSE journal[d]]
          /\ Record(v.id, v, D, Cardinality(D) >= WriteQuorum)
          /\ UNCHANGED <<clock, walkVars>>
    BY <1>3 DEF CommitPut
  <2> DEFINE D == {d \in Disks \ M : ~Refuses(journal[d], v)}
             a == Cardinality(D) >= WriteQuorum
  <2>2. \A d \in Disks : Proper(journal'[d])
    BY <2>0, <2>1, JournalsProper, AddProper
  <2>3. journal' \in [Disks -> Journals]
    BY <2>1, <2>2 DEF Proper
  <2>4. /\ journal' \in [Disks -> SUBSET Versions]
        /\ \A d \in Disks : \A x, y \in journal'[d] : x.id = y.id => x = y
    BY <2>2, <2>3, JournalTyped
  <2>5. a \in BOOLEAN /\ Record(v.id, v, D, a)
    BY <2>1
  <2>6. /\ last' \in [Ids -> [version : Versions \cup {NoVersion}, acked : BOOLEAN]]
        /\ due' \subseteq Versions /\ gone' \subseteq Ids
    <3> HIDE DEF D, a
    <3> QED
      BY <2>0, <2>5, RecordTyped
  <2>7. misses' \in 0..MaxMisses
    BY <2>1, MissTyped
  <2> QED
    BY <2>1, <2>4, <2>6, <2>7 DEF TypeOK, Streamed, walkVars, Journals
<1>4. ASSUME NEW v \in UNION {journal[d] : d \in Disks}, NEW b \in BOOLEAN, DeleteOne(v, b)
      PROVE  Typed'
  <2> DEFINE again == IF b /\ v.type = "Delete"
                      THEN [id |-> v.id, time |-> clock + 1, type |-> "Delete"]
                      ELSE NoVersion
  <2>1. v \in Versions /\ v.id \in Ids
    BY VersionTypes DEF TypeOK
  <2>2. again \in Versions \cup {NoVersion}
    <3>1. clock + 1 \in Times
      BY <1>0, <1>4 DEF DeleteOne, Times
    <3>2. [id |-> v.id, time |-> clock + 1, type |-> "Delete"] \in Versions
      BY <2>1, <3>1, VersionTypes
    <3> QED
      BY <3>2
  <2>3. DeleteAt(v.id, again, FALSE) /\ clock < MaxOps /\ clock' = clock + 1 /\ UNCHANGED <<puts, walkVars>>
    BY <1>4 DEF DeleteOne
  <2> HIDE DEF again
  <2> QED
    BY <2>1, <2>2, <2>3, DeleteTyped
<1>5. ASSUME NEW A \in SUBSET Disks \ {{}}, BeginListing(A) PROVE Typed'
  <2>1. streams = <<>> /\ Len(streams) = 0
    <3>1. asked = {} /\ unread = {}
      BY <1>5 DEF BeginListing, TypeOK
    <3> QED
      BY <3>1, FS_EmptySet DEF TypeOK, Streamed
  <2>2. Len(streams) + Cardinality(A) <= Cardinality(A)
    BY <2>1, FiniteDisks
  <2>3. {last[i].version : i \in {i \in Ids : last[i].acked /\ last[i].version # NoVersion}} \subseteq Versions
    BY DEF TypeOK
  <2> QED
    BY <1>5, <2>2, <2>3 DEF BeginListing, TypeOK, Streamed, opVars
<1>6. ASSUME NEW d \in Disks, ReadDisk(d) PROVE Typed'
  <2>1. PICK k \in 1..(Len(streams) + 1) : streams' = InsertAt(streams, k, journal[d])
    BY <1>6 DEF ReadDisk
  <2>2. journal[d] \in Journals /\ streams \in Seq(Journals)
    BY DEF TypeOK, Journals, Streamed
  <2>3. streams' \in Seq(Journals) /\ Len(streams') = Len(streams) + 1
    <3>1. IsInserted(streams', streams, k, journal[d])
      BY <2>1, <2>2, Inserted
    <3> QED
      BY <3>1 DEF IsInserted
  <2>4. Cardinality(unread \ {d}) = Cardinality(unread) - 1 /\ Cardinality(unread) \in Nat
    BY <1>6, FiniteDisks, FS_RemoveElement DEF ReadDisk, TypeOK
  <2>5. Len(streams') + Cardinality(unread') <= Cardinality(asked')
    BY <1>6, <2>3, <2>4, FiniteDisks, LenProperties DEF ReadDisk, TypeOK, Streamed
  <2> QED
    BY <1>6, <2>3, <2>5 DEF ReadDisk, TypeOK, Streamed, opVars
<1>7. ASSUME NEW d \in Disks, WalkFails(d) PROVE Typed'
  <2>1. misses' \in 0..MaxMisses
    BY <1>7, MissTyped DEF WalkFails
  <2>2. Cardinality(unread \ {d}) = Cardinality(unread) - 1 /\ Cardinality(unread) \in Nat
    BY <1>7, FiniteDisks, FS_RemoveElement DEF WalkFails, TypeOK
  <2>3. Len(streams') + Cardinality(unread') <= Cardinality(asked')
    BY <1>7, <2>2, FiniteDisks, LenProperties DEF WalkFails, TypeOK, Streamed
  <2> QED
    BY <1>7, <2>1, <2>3 DEF WalkFails, TypeOK, Streamed
<1>8. ASSUME EndListing PROVE Typed'
  <2>1. Len(<<>>) + Cardinality({}) <= Cardinality({})
    BY FS_EmptySet
  <2> QED
    BY <1>8, <2>1 DEF EndListing, TypeOK, Streamed, opVars
<1>9. ASSUME UNCHANGED vars PROVE Typed'
  BY <1>9 DEF vars, opVars, listVars, walkVars, TypeOK, Streamed
<1> QED
  BY <1>1, <1>2, <1>3, <1>4, <1>5, <1>6, <1>7, <1>8, <1>9 DEF Next

LEMMA TypedInit == ASSUME Init PROVE Typed
<1>1. Len(<<>>) + Cardinality({}) <= Cardinality({}) /\ <<>> \in Seq(Journals)
  BY FS_EmptySet
<1>2. NoVersion \in Versions \cup {NoVersion}
  OBVIOUS
<1>3. last \in [Ids -> [version : Versions \cup {NoVersion}, acked : BOOLEAN]]
  BY <1>2 DEF Init
<1> QED
  BY <1>1, <1>3 DEF Init, Typed, TypeOK, Streamed, Ids

LEMMA TypedAlways == Spec => []Typed
<1>1. Init => Typed
  BY TypedInit
<1>2. Typed /\ [Next]_vars => Typed'
  BY TypedStep
<1> QED
  BY <1>1, <1>2, PTL DEF Spec

\* Every reachable state is well typed; each disk's journal has one version per
\* id, whatever order puts and deletes come in and whichever disks miss them.
THEOREM Typing == Spec => []TypeOK
BY TypedAlways, PTL DEF Typed

-----------------------------------------------------------------------------
(* What acknowledged operations leave on the disks, and what a listing hears  *)
(* of it.                                                                     *)

\* Journals that still have a version with the id.
Carrying(i) == {j \in Journals : WithId(j, i) # {}}

\* Journals without a copy of v.
Lacking(v) == {j \in Journals : \A w \in j : ~Matches(v, w)}

\* How many disks have a journal in B, and how many journals in B a listing has
\* read or may still read.
OnDisks(B) == Cardinality({d \in Disks : journal[d] \in B})

Heard(B) ==
  Cardinality({n \in 1..Len(streams) : streams[n] \in B})
    + Cardinality({d \in unread : journal[d] \in B})

\* An acknowledged operation was missed by fewer disks than make a quorum, until
\* the next operation on its id.
DisksSettled ==
  \A i \in Ids : last[i].acked =>
    /\ last[i].version = NoVersion => OnDisks(Carrying(i)) <= N - DeleteQuorum
    /\ last[i].version # NoVersion =>
         /\ last[i].version.id = i
         /\ OnDisks(Lacking(last[i].version)) <= N - QuorumFor(last[i].version)

\* So a listing hears the old state from no more disks than these.
ListingSettled ==
  /\ \A i \in gone : Heard(Carrying(i)) <= N - DeleteQuorum
  /\ \A v \in due : Heard(Lacking(v)) <= N - QuorumFor(v)

PutsAreObjects == \A v \in puts : v.type = "Object"

Settled == Typed /\ DisksSettled /\ ListingSettled /\ PutsAreObjects

\* The quorums are numbers.
LEMMA Quorums ==
  /\ N \in Nat /\ DeleteQuorum \in Nat /\ WriteQuorum \in Int
  /\ \A v : QuorumFor(v) \in Int
BY FiniteDisks DEF N, DeleteQuorum, WriteQuorum, DataBlocks, QuorumFor

\* Who did not take part in what a quorum did.
LEMMA Outside ==
  ASSUME NEW S \in SUBSET Disks, NEW D \in SUBSET Disks, S \cap D = {},
         NEW q \in Int, Cardinality(D) >= q
  PROVE  Cardinality(S) <= N - q
<1>1. /\ IsFiniteSet(S) /\ Cardinality(S) \in Nat /\ IsFiniteSet(D) /\ Cardinality(D) \in Nat
      /\ Cardinality(S \cup D) <= Cardinality(Disks)
  BY FiniteDisks, FS_Subset
<1>2. Cardinality(S \cup D) = Cardinality(S) + Cardinality(D)
  BY <1>1, FS_Union, FS_EmptySet
<1> QED
  BY <1>1, <1>2, Quorums DEF N

\* A read adds one journal of a kind at most, and only if the disk has such.
OneMore(s, t, j, B) ==
  LET S == {n \in 1..Len(s) : s[n] \in B}
      T == {n \in 1..Len(t) : t[n] \in B}
  IN  /\ Cardinality(T) \in Nat
      /\ j \in B => Cardinality(T) <= Cardinality(S) + 1
      /\ j \notin B => Cardinality(T) <= Cardinality(S)

LEMMA InsertCount ==
  ASSUME NEW s \in Seq(Journals), NEW k \in 1..(Len(s) + 1), NEW j \in Journals, NEW B,
         NEW t, t = InsertAt(s, k, j)
  PROVE  OneMore(s, t, j, B)
<1> DEFINE S == {n \in 1..Len(s) : s[n] \in B}
           T == {n \in 1..Len(t) : t[n] \in B}
           f == [n \in T \ {k} |-> IF n < k THEN n ELSE n - 1]
<1>0. IsInserted(t, s, k, j)
  BY Inserted
<1>1. Len(s) \in Nat /\ Len(t) = Len(s) + 1
  BY <1>0, LenProperties DEF IsInserted
<1>2. \A i \in 1..(Len(s) + 1) : t[i] = IF i < k THEN s[i] ELSE IF i = k THEN j ELSE s[i - 1]
  BY <1>0 DEF IsInserted
<1>3. IsFiniteSet(S) /\ Cardinality(S) \in Nat /\ IsFiniteSet(T) /\ Cardinality(T) \in Nat
  <2>1. IsFiniteSet(1..Len(s)) /\ IsFiniteSet(1..Len(t))
    BY <1>1, FS_Interval
  <2> QED
    BY <2>1, FS_Subset, FS_CardinalityType
<1>4. f \in Injection(T \ {k}, S)
  <2>1. ASSUME NEW n \in T \ {k} PROVE (IF n < k THEN n ELSE n - 1) \in S
    <3>1. n \in 1..(Len(s) + 1) /\ n # k /\ t[n] \in B
      BY <1>1
    <3>2. CASE n < k
      <4>1. t[n] = s[n] /\ n \in 1..Len(s)
        BY <1>1, <1>2, <3>1, <3>2
      <4> QED
        BY <3>1, <3>2, <4>1
    <3>3. CASE ~(n < k)
      <4>1. t[n] = s[n - 1] /\ n - 1 \in 1..Len(s)
        BY <1>1, <1>2, <3>1, <3>3
      <4> QED
        BY <3>1, <3>3, <4>1
    <3> QED
      BY <3>2, <3>3
  <2>2. f \in [T \ {k} -> S]
    BY <2>1
  <2>3. ASSUME NEW a \in T \ {k}, NEW b \in T \ {k}, f[a] = f[b] PROVE a = b
    <3>1. a \in Nat /\ b \in Nat /\ k \in Nat /\ a # k /\ b # k
      BY <1>1
    <3>2. (IF a < k THEN a ELSE a - 1) = (IF b < k THEN b ELSE b - 1)
      BY <2>3
    <3> QED
      BY <3>1, <3>2
  <2> QED
    BY <2>2, <2>3 DEF Injection, IsInjective
<1>5. Cardinality(T \ {k}) <= Cardinality(S)
  <2> HIDE DEF f, S, T
  <2> QED
    BY <1>3, <1>4, FS_Injection
<1>6. k \in T <=> j \in B
  <2>1. k \in 1..Len(t) /\ t[k] = j
    BY <1>1, <1>2
  <2> QED
    BY <2>1
<1>7. Cardinality(T \ {k}) = IF k \in T THEN Cardinality(T) - 1 ELSE Cardinality(T)
  <2> HIDE DEF T
  <2> QED
    BY <1>3, FS_RemoveElement
<1> HIDE DEF S, T
<1>8. j \in B => Cardinality(T) <= Cardinality(S) + 1
  BY <1>3, <1>5, <1>6, <1>7
<1>9. j \notin B => Cardinality(T) <= Cardinality(S)
  BY <1>3, <1>5, <1>6, <1>7
<1> QED
  BY <1>3, <1>8, <1>9 DEF S, T, OneMore

\* An operation on id leaves the versions with other ids alone.
Elsewhere(id, j, k) == \A w \in Versions : w.id # id => (w \in k <=> w \in j)

\* Of an id there is one version, which is the newest.
LEMMA NewestOfOne ==
  ASSUME NEW j, Proper(j), NEW id, WithId(j, id) # {}
  PROVE  WithId(j, id) = {Newest(WithId(j, id))}
<1>1. PICK x \in WithId(j, id) : TRUE
  OBVIOUS
<1>2. WithId(j, id) = {x} /\ x.time <= x.time
  BY <1>1, VersionTypes DEF WithId, Proper, Journals, Times
<1>3. \E v \in WithId(j, id) : \A w \in WithId(j, id) : w.time <= v.time
  BY <1>2
<1>4. Newest(WithId(j, id)) \in WithId(j, id)
  BY <1>3 DEF Newest
<1> QED
  BY <1>2, <1>4

\* add_version changes no other id and leaves the version.
LEMMA AddElsewhere ==
  ASSUME NEW j \in Journals, NEW v \in Versions
  PROVE  /\ Elsewhere(v.id, j, AddVersion(j, v))
         /\ AddVersion(j, v) \in Journals \ Lacking(v)
<1>1. v \in AddVersion(j, v) /\ AddVersion(j, v) \in Journals
  BY DEF AddVersion, Journals
<1>2. Matches(v, v)
  BY DEF Matches
<1> QED
  BY <1>1, <1>2 DEF AddVersion, WithId, Elsewhere, Lacking

\* A delete that leaves no marker takes the version away; one that leaves a
\* marker has a copy of it afterwards.
LEMMA DeleteElsewhere ==
  ASSUME NEW j, Proper(j), NEW id \in Ids, NEW v \in Versions \cup {NoVersion},
         v # NoVersion => v.id = id /\ v.type = "Delete",
         NEW b \in BOOLEAN, ~Undeletable(j, id, v)
  PROVE  /\ Elsewhere(id, j, DeleteVersion(j, id, v, b))
         /\ v = NoVersion /\ ~b => DeleteVersion(j, id, v, b) \notin Carrying(id)
         /\ v # NoVersion /\ b => DeleteVersion(j, id, v, b) \notin Lacking(v)
<1> DEFINE k == DeleteVersion(j, id, v, b)
<1>0. j \in Journals
  BY DEF Proper
<1>1. CASE WithId(j, id) = {}
  <2>1. v \in Versions /\ v.id = id /\ k = AddVersion(j, v)
    BY <1>1 DEF Undeletable, DeleteVersion
  <2> HIDE DEF k
  <2>2. Elsewhere(id, j, k) /\ k \notin Lacking(v) /\ v # NoVersion
    BY <1>0, <2>1, AddElsewhere, VersionTypes
  <2> QED
    BY <2>2 DEF k
<1>2. CASE WithId(j, id) # {}
  <2> DEFINE old == Newest(WithId(j, id))
  <2>1. WithId(j, id) = {old}
    BY <1>2, NewestOfOne
  <2>2. old \in j /\ old.id = id /\ \A w \in j : w.id = id => w = old
    BY <2>1 DEF WithId
  <2>3. k = IF old.type = "Delete"
            THEN IF b THEN j
                 ELSE IF v # NoVersion /\ id = Null THEN AddVersion(j, v)
                 ELSE j \ {old}
            ELSE IF v # NoVersion THEN AddVersion(j, v) ELSE j \ {old}
    BY <1>2 DEF DeleteVersion
  <2> HIDE DEF old, k
  <2>4. /\ Elsewhere(id, j, j)
        /\ Elsewhere(id, j, j \ {old})
        /\ j \ {old} \notin Carrying(id)
    BY <2>2 DEF Elsewhere, Carrying, WithId
  <2>5. v # NoVersion => Elsewhere(id, j, AddVersion(j, v)) /\ AddVersion(j, v) \notin Lacking(v)
    BY <1>0, AddElsewhere
  <2>6. v # NoVersion /\ old.type = "Delete" => j \notin Lacking(v)
    BY <2>2 DEF Lacking, Matches
  <2>7. Elsewhere(id, j, k)
    BY <2>3, <2>4, <2>5
  <2>8. v = NoVersion /\ ~b => k \notin Carrying(id)
    BY <2>3, <2>4
  <2>9. v # NoVersion /\ b => k \notin Lacking(v)
    BY <2>3, <2>5, <2>6
  <2> QED
    BY <2>7, <2>8, <2>9 DEF k
<1> QED
  BY <1>1, <1>2

\* The sets of journals that the invariant counts do not mind an operation on
\* another id.
LEMMA ElsewhereKinds ==
  ASSUME NEW id, NEW j \in Journals, NEW k \in Journals, Elsewhere(id, j, k)
  PROVE  /\ \A i \in Ids : i # id => (k \in Carrying(i) <=> j \in Carrying(i))
         /\ \A v \in Versions : v.id # id => (k \in Lacking(v) <=> j \in Lacking(v))
<1>1. ASSUME NEW i \in Ids, i # id PROVE k \in Carrying(i) <=> j \in Carrying(i)
  <2>1. WithId(k, i) = WithId(j, i)
    BY <1>1 DEF WithId, Elsewhere, Journals
  <2> QED
    BY <2>1 DEF Carrying
<1>2. ASSUME NEW v \in Versions, v.id # id PROVE k \in Lacking(v) <=> j \in Lacking(v)
  <2>1. \A w \in Versions : Matches(v, w) => w.id # id
    BY <1>2 DEF Matches
  <2>2. \A w \in Versions : Matches(v, w) => (w \in k <=> w \in j)
    BY <2>1 DEF Elsewhere
  <2> QED
    BY <2>2 DEF Lacking, Journals
<1> QED
  BY <1>1, <1>2

\* An operation on id that reached the disks D, with success (a) or not.
LEMMA OperationSettled ==
  ASSUME Settled, Typed',
         NEW id \in Ids, NEW v \in Versions \cup {NoVersion}, v # NoVersion => v.id = id,
         NEW D \in SUBSET Disks, NEW a \in BOOLEAN, Record(id, v, D, a),
         \A d \in D : Elsewhere(id, journal[d], journal'[d]),
         \A d \in Disks \ D : journal'[d] = journal[d],
         a /\ v = NoVersion =>
           Cardinality(D) >= DeleteQuorum /\ \A d \in D : journal'[d] \notin Carrying(id),
         a /\ v # NoVersion =>
           Cardinality(D) >= QuorumFor(v) /\ \A d \in D : journal'[d] \notin Lacking(v),
         UNCHANGED walkVars
  PROVE  DisksSettled' /\ ListingSettled'
<1>0. /\ \A d \in Disks : journal[d] \in Journals /\ journal'[d] \in Journals
      /\ unread \subseteq Disks /\ gone \subseteq Ids /\ due \subseteq Versions
      /\ last \in [Ids -> [version : Versions \cup {NoVersion}, acked : BOOLEAN]]
  BY DEF Settled, Typed, TypeOK, Journals
<1>1. \A d \in Disks : Elsewhere(id, journal[d], journal'[d])
  BY DEF Elsewhere
<1>2. /\ \A i \in Ids : i # id =>
           \A d \in Disks : journal'[d] \in Carrying(i) <=> journal[d] \in Carrying(i)
      /\ \A w \in Versions : w.id # id =>
           \A d \in Disks : journal'[d] \in Lacking(w) <=> journal[d] \in Lacking(w)
  BY <1>0, <1>1, ElsewhereKinds
<1>3. ASSUME NEW B, \A d \in Disks : journal'[d] \in B <=> journal[d] \in B
      PROVE  /\ Cardinality({d \in Disks : journal'[d] \in B}) = OnDisks(B)
             /\ Cardinality({n \in 1..Len(streams') : streams'[n] \in B})
                  + Cardinality({d \in unread' : journal'[d] \in B}) = Heard(B)
  <2>1. {d \in Disks : journal'[d] \in B} = {d \in Disks : journal[d] \in B}
    BY <1>3
  <2>2. {d \in unread : journal'[d] \in B} = {d \in unread : journal[d] \in B}
    BY <1>0, <1>3
  <2>3. streams' = streams /\ unread' = unread
    BY DEF walkVars
  <2> QED
    BY <2>1, <2>2, <2>3 DEF OnDisks, Heard
<1>4. CASE D = {}
  <2>1. \A d \in Disks : journal'[d] = journal[d]
    BY <1>4
  <2>2. last' = last /\ due' = due /\ gone' = gone
    BY <1>4 DEF Record
  <2>3. \A B : OnDisks(B)' = OnDisks(B) /\ Heard(B)' = Heard(B)
    BY <1>3, <2>1 DEF OnDisks, Heard
  <2> QED
    BY <2>2, <2>3 DEF Settled, DisksSettled, ListingSettled, Carrying, Lacking, Journals, N,
                      DeleteQuorum, QuorumFor, WriteQuorum, DataBlocks
<1>5. CASE D # {}
  <2>1. /\ last' = [last EXCEPT ![id] = [version |-> v, acked |-> a]]
        /\ due' = {w \in due : w.id # id}
        /\ gone' = gone \ {id}
    BY <1>5 DEF Record
  <2>2. \A i \in gone' : Heard(Carrying(i))' = Heard(Carrying(i)) /\ i \in gone
    <3> SUFFICES ASSUME NEW i \in gone' PROVE Heard(Carrying(i))' = Heard(Carrying(i)) /\ i \in gone
      OBVIOUS
    <3>1. i \in gone /\ i \in Ids /\ i # id
      BY <1>0, <2>1
    <3>2. \A d \in Disks : journal'[d] \in Carrying(i) <=> journal[d] \in Carrying(i)
      BY <1>2, <3>1
    <3> QED
      BY <1>3, <3>1, <3>2 DEF Heard, Carrying, Journals
  <2>3. \A w \in due' : Heard(Lacking(w))' = Heard(Lacking(w)) /\ w \in due
    <3> SUFFICES ASSUME NEW w \in due' PROVE Heard(Lacking(w))' = Heard(Lacking(w)) /\ w \in due
      OBVIOUS
    <3>1. w \in due /\ w \in Versions /\ w.id # id
      BY <1>0, <2>1
    <3>2. \A d \in Disks : journal'[d] \in Lacking(w) <=> journal[d] \in Lacking(w)
      BY <1>2, <3>1
    <3> QED
      BY <1>3, <3>1, <3>2 DEF Heard, Lacking, Journals
  <2>4. ListingSettled'
    BY <2>2, <2>3 DEF Settled, ListingSettled, N, DeleteQuorum, QuorumFor, WriteQuorum, DataBlocks
  <2> DEFINE After(B) == Cardinality({d \in Disks : journal'[d] \in B})
  <2>5. ASSUME NEW i \in Ids, i # id, last[i].acked
        PROVE  /\ last[i].version = NoVersion => After(Carrying(i)) <= N - DeleteQuorum
               /\ last[i].version # NoVersion =>
                    /\ last[i].version.id = i
                    /\ After(Lacking(last[i].version)) <= N - QuorumFor(last[i].version)
    <3>1. ASSUME last[i].version = NoVersion PROVE After(Carrying(i)) <= N - DeleteQuorum
      <4>1. \A d \in Disks : journal'[d] \in Carrying(i) <=> journal[d] \in Carrying(i)
        BY <1>2, <2>5
      <4>2. After(Carrying(i)) = OnDisks(Carrying(i))
        BY <1>3, <4>1
      <4> QED
        BY <2>5, <3>1, <4>2 DEF Settled, DisksSettled
    <3>2. ASSUME last[i].version # NoVersion
          PROVE  /\ last[i].version.id = i
                 /\ After(Lacking(last[i].version)) <= N - QuorumFor(last[i].version)
      <4> DEFINE w == last[i].version
      <4>1. w \in Versions /\ w.id = i
        BY <1>0, <2>5, <3>2 DEF Settled, DisksSettled
      <4>2. \A d \in Disks : journal'[d] \in Lacking(w) <=> journal[d] \in Lacking(w)
        BY <1>2, <2>5, <4>1
      <4>3. After(Lacking(w)) = OnDisks(Lacking(w))
        BY <1>3, <4>2
      <4>4. OnDisks(Lacking(w)) <= N - QuorumFor(w)
        BY <2>5, <3>2 DEF Settled, DisksSettled
      <4> QED
        BY <4>1, <4>3, <4>4
    <3> QED
      BY <3>1, <3>2
  <2>6. ASSUME a
        PROVE  /\ v = NoVersion => After(Carrying(id)) <= N - DeleteQuorum
               /\ v # NoVersion => After(Lacking(v)) <= N - QuorumFor(v)
    <3>1. ASSUME v = NoVersion PROVE After(Carrying(id)) <= N - DeleteQuorum
      <4> DEFINE S == {d \in Disks : journal'[d] \in Carrying(id)}
      <4>1. S \cap D = {} /\ Cardinality(D) >= DeleteQuorum /\ S \subseteq Disks
        BY <2>6, <3>1
      <4> QED
        BY <4>1, Outside, Quorums
    <3>2. ASSUME v # NoVersion PROVE After(Lacking(v)) <= N - QuorumFor(v)
      <4> DEFINE S == {d \in Disks : journal'[d] \in Lacking(v)}
      <4>1. S \cap D = {} /\ Cardinality(D) >= QuorumFor(v) /\ S \subseteq Disks
        BY <2>6, <3>2
      <4> QED
        BY <4>1, Outside, Quorums
    <3> QED
      BY <3>1, <3>2
  <2>7. ASSUME NEW i \in Ids, last'[i].acked
        PROVE  /\ last'[i].version = NoVersion => After(Carrying(i)) <= N - DeleteQuorum
               /\ last'[i].version # NoVersion =>
                    /\ last'[i].version.id = i
                    /\ After(Lacking(last'[i].version)) <= N - QuorumFor(last'[i].version)
    <3>1. CASE i = id
      <4>1. last'[i] = [version |-> v, acked |-> a]
        BY <1>0, <2>1, <3>1
      <4>2. last'[i].version = v /\ (last'[i].acked <=> a)
        BY <4>1
      <4> HIDE DEF After
      <4> QED
        BY <2>6, <2>7, <3>1, <4>2
    <3>2. CASE i # id
      <4>1. last'[i] = last[i]
        BY <1>0, <2>1, <3>2
      <4> HIDE DEF After
      <4> QED
        BY <2>5, <2>7, <3>2, <4>1
    <3> QED
      BY <3>1, <3>2
  <2>8. DisksSettled'
    BY <2>7 DEF DisksSettled, OnDisks, Carrying, Lacking, Journals, N, DeleteQuorum, QuorumFor,
                WriteQuorum, DataBlocks
  <2> QED
    BY <2>4, <2>8
<1> QED
  BY <1>4, <1>5

\* A delete leaves what was settled settled.
LEMMA DeleteSettled ==
  ASSUME Settled, Typed', NEW id \in Ids, NEW v \in Versions \cup {NoVersion}, NEW b \in BOOLEAN,
         v # NoVersion => v.id = id /\ v.type = "Delete",
         DeleteAt(id, v, b), UNCHANGED <<puts, walkVars>>,
         b => v # NoVersion
  PROVE  Settled'
<1>1. PICK M \in SUBSET Disks :
        LET D == {d \in Disks \ M : ~Undeletable(journal[d], id, v)} IN
        /\ Miss(M)
        /\ journal' = [d \in Disks |-> IF d \in D THEN DeleteVersion(journal[d], id, v, b)
                                       ELSE journal[d]]
        /\ Record(id, v, D, Cardinality(D) >= DeleteQuorum /\ (b \/ v = NoVersion))
  BY DEF DeleteAt
<1> DEFINE D == {d \in Disks \ M : ~Undeletable(journal[d], id, v)}
           a == Cardinality(D) >= DeleteQuorum /\ (b \/ v = NoVersion)
<1>2. \A d \in D : /\ Elsewhere(id, journal[d], journal'[d])
                   /\ v = NoVersion /\ ~b => journal'[d] \notin Carrying(id)
                   /\ v # NoVersion /\ b => journal'[d] \notin Lacking(v)
  <2> TAKE d \in D
  <2>1. Proper(journal[d]) /\ ~Undeletable(journal[d], id, v) /\ d \in Disks
    BY JournalsProper DEF Settled
  <2>2. journal'[d] = DeleteVersion(journal[d], id, v, b)
    BY <1>1
  <2> QED
    BY <2>1, <2>2, DeleteElsewhere
<1>3. \A d \in Disks \ D : journal'[d] = journal[d]
  BY <1>1
<1>4. a \in BOOLEAN /\ Record(id, v, D, a) /\ D \in SUBSET Disks
  BY <1>1
<1>5. a /\ v = NoVersion =>
        Cardinality(D) >= DeleteQuorum /\ \A d \in D : journal'[d] \notin Carrying(id)
  BY <1>2
<1>6. a /\ v # NoVersion =>
        Cardinality(D) >= QuorumFor(v) /\ \A d \in D : journal'[d] \notin Lacking(v)
  BY <1>2 DEF QuorumFor
<1>7. (v # NoVersion => v.id = id) /\ UNCHANGED walkVars
  OBVIOUS
<1>8. \A d \in D : Elsewhere(id, journal[d], journal'[d])
  BY <1>2
<1> HIDE DEF D, a
<1>9. DisksSettled' /\ ListingSettled'
  BY <1>3, <1>4, <1>5, <1>6, <1>7, <1>8, OperationSettled
<1> QED
  BY <1>9 DEF Settled, PutsAreObjects

\* What is settled is inductive.
LEMMA SettledStep == ASSUME Settled, [Next]_vars PROVE Settled'
<1>0. Typed' /\ Typed
  BY TypedStep DEF Settled
<1>1. ASSUME NEW id \in {Null, clock + 1}, BeginPut(id) PROVE Settled'
  <2>1. UNCHANGED <<journal, last, streams, unread, due, gone>>
    BY <1>1 DEF BeginPut, listVars, walkVars
  <2>2. PutsAreObjects'
    BY <1>1 DEF BeginPut, Settled, PutsAreObjects
  <2> QED
    BY <1>0, <2>1, <2>2 DEF Settled, DisksSettled, ListingSettled, OnDisks, Heard
<1>2. ASSUME NEW id \in {Null, clock + 1}, DeleteLatest(id) PROVE Settled'
  <2> DEFINE v == [id |-> id, time |-> clock + 1, type |-> "Delete"]
  <2>0. id \in Ids /\ clock + 1 \in Times
    BY <1>0, <1>2 DEF DeleteLatest, Ids, Times, Null, Typed, TypeOK
  <2>1. v \in Versions /\ v.id = id /\ v.type = "Delete" /\ v # NoVersion
    BY <2>0, VersionTypes
  <2>2. DeleteAt(id, v, TRUE) /\ UNCHANGED <<puts, walkVars>>
    BY <1>2 DEF DeleteLatest
  <2> HIDE DEF v
  <2> QED
    BY <1>0, <2>0, <2>1, <2>2, DeleteSettled
<1>3. ASSUME NEW v \in puts, CommitPut(v) PROVE Settled'
  <2>0. v \in Versions /\ v.id \in Ids /\ v # NoVersion /\ v.type = "Object"
    BY <1>0, VersionTypes DEF Typed, TypeOK, Settled, PutsAreObjects
  <2>1. PICK M \in SUBSET Disks :
          LET D == {d \in Disks \ M : ~Refuses(journal[d], v)} IN
          /\ puts' = puts \ {v}
          /\ journal' = [d \in Disks |-> IF d \in D THEN AddVersion(journal[d], v) ELSE journal[d]]
          /\ Record(v.id, v, D, Cardinality(D) >= WriteQuorum)
          /\ UNCHANGED walkVars
    BY <1>3 DEF CommitPut
  <2> DEFINE D == {d \in Disks \ M : ~Refuses(journal[d], v)}
             a == Cardinality(D) >= WriteQuorum
  <2>2. \A d \in D : Elsewhere(v.id, journal[d], journal'[d]) /\ journal'[d] \notin Lacking(v)
    <3> TAKE d \in D
    <3>1. journal[d] \in Journals /\ journal'[d] = AddVersion(journal[d], v)
      BY <1>0, <2>1 DEF Typed, TypeOK, Journals
    <3> QED
      BY <2>0, <3>1, AddElsewhere
  <2>3. \A d \in Disks \ D : journal'[d] = journal[d]
    BY <2>1
  <2>4. a \in BOOLEAN /\ Record(v.id, v, D, a) /\ D \in SUBSET Disks
    BY <2>1
  <2>5. a => Cardinality(D) >= QuorumFor(v)
    BY <2>0 DEF QuorumFor
  <2>6. UNCHANGED walkVars
    BY <2>1
  <2>7. PutsAreObjects'
    BY <2>1 DEF Settled, PutsAreObjects
  <2> HIDE DEF D, a
  <2>8. DisksSettled' /\ ListingSettled'
    BY <1>0, <2>0, <2>2, <2>3, <2>4, <2>5, <2>6, OperationSettled
  <2> QED
    BY <1>0, <2>7, <2>8 DEF Settled
<1>4. ASSUME NEW v \in UNION {journal[d] : d \in Disks}, NEW b \in BOOLEAN, DeleteOne(v, b)
      PROVE  Settled'
  <2> DEFINE again == IF b /\ v.type = "Delete"
                      THEN [id |-> v.id, time |-> clock + 1, type |-> "Delete"]
                      ELSE NoVersion
  <2>1. v \in Versions /\ v.id \in Ids
    BY <1>0, VersionTypes DEF Typed, TypeOK
  <2>2. clock + 1 \in Times
    BY <1>0, <1>4 DEF DeleteOne, Times, Typed, TypeOK
  <2>3. [id |-> v.id, time |-> clock + 1, type |-> "Delete"] \in Versions
    BY <2>1, <2>2, VersionTypes
  <2>4. again \in Versions \cup {NoVersion} /\ (again # NoVersion => again.id = v.id /\ again.type = "Delete")
    BY <2>3
  <2>5. DeleteAt(v.id, again, FALSE) /\ UNCHANGED <<puts, walkVars>>
    BY <1>4 DEF DeleteOne
  <2> HIDE DEF again
  <2> QED
    BY <1>0, <2>1, <2>4, <2>5, DeleteSettled
<1>5. ASSUME NEW A \in SUBSET Disks \ {{}}, BeginListing(A) PROVE Settled'
  <2>1. streams = <<>> /\ Len(streams) = 0
    <3>1. asked = {} /\ unread = {}
      BY <1>0, <1>5 DEF BeginListing, Typed, TypeOK
    <3> QED
      BY <1>0, <3>1, FS_EmptySet DEF Typed, TypeOK, Streamed
  <2>2. UNCHANGED <<journal, last, puts, streams>> /\ unread' = A
    BY <1>5 DEF BeginListing, opVars
  <2>3. ASSUME NEW B
        PROVE  Cardinality({n \in 1..Len(streams') : streams'[n] \in B})
                 + Cardinality({d \in unread' : journal'[d] \in B}) <= OnDisks(B)
    <3>1. {n \in 1..Len(streams') : streams'[n] \in B} = {}
      BY <2>1, <2>2
    <3>2. /\ {d \in A : journal[d] \in B} \subseteq {d \in Disks : journal[d] \in B}
          /\ {d \in Disks : journal[d] \in B} \subseteq Disks
      OBVIOUS
    <3>3. Cardinality({d \in A : journal[d] \in B}) <= Cardinality({d \in Disks : journal[d] \in B})
      BY <3>2, FiniteDisks, FS_Subset
    <3>4. Cardinality({d \in A : journal[d] \in B}) \in Nat
      BY FiniteDisks
    <3>5. Cardinality({n \in 1..Len(streams') : streams'[n] \in B}) = 0
      BY <3>1, FS_EmptySet
    <3>6. Cardinality({e \in unread' : journal'[e] \in B}) = Cardinality({e \in A : journal[e] \in B})
      BY <2>2
    <3> QED
      BY <3>3, <3>4, <3>5, <3>6 DEF OnDisks
  <2>4. ASSUME NEW B PROVE OnDisks(B) \in Nat /\ Heard(B)' \in Nat
    <3>1. {d \in Disks : journal[d] \in B} \subseteq Disks /\ {d \in A : journal[d] \in B} \subseteq Disks
      OBVIOUS
    <3>2. {n \in 1..Len(streams') : streams'[n] \in B} = {}
      BY <2>1, <2>2
    <3> QED
      BY <2>2, <3>1, <3>2, FiniteDisks, FS_EmptySet DEF OnDisks, Heard
  <2>5. \A i \in gone' : Heard(Carrying(i))' <= N - DeleteQuorum
    <3> TAKE i \in gone'
    <3>1. i \in Ids /\ last[i].acked /\ last[i].version = NoVersion
      BY <1>5 DEF BeginListing
    <3>2. OnDisks(Carrying(i)) <= N - DeleteQuorum
      BY <3>1 DEF Settled, DisksSettled
    <3>3. Heard(Carrying(i))' <= OnDisks(Carrying(i))
      BY <2>3 DEF Heard, Carrying, Journals
    <3>4. OnDisks(Carrying(i)) \in Nat /\ Heard(Carrying(i))' \in Nat
      BY <2>4 DEF Heard, Carrying, Journals
    <3> QED
      BY <3>2, <3>3, <3>4, Quorums
  <2>6. \A v \in due' : Heard(Lacking(v))' <= N - QuorumFor(v)
    <3> TAKE v \in due'
    <3>1. PICK i \in Ids : last[i].acked /\ last[i].version # NoVersion /\ v = last[i].version
      BY <1>5 DEF BeginListing
    <3>2. OnDisks(Lacking(v)) <= N - QuorumFor(v)
      BY <3>1 DEF Settled, DisksSettled
    <3>3. Heard(Lacking(v))' <= OnDisks(Lacking(v))
      BY <2>3 DEF Heard, Lacking, Journals
    <3>4. OnDisks(Lacking(v)) \in Nat /\ Heard(Lacking(v))' \in Nat
      BY <2>4 DEF Heard, Lacking, Journals
    <3> QED
      BY <3>2, <3>3, <3>4, Quorums
  <2>7. ListingSettled'
    BY <2>5, <2>6 DEF ListingSettled, N, DeleteQuorum, QuorumFor, WriteQuorum, DataBlocks
  <2> QED
    BY <1>0, <2>2, <2>7 DEF Settled, DisksSettled, PutsAreObjects, OnDisks
<1>6. ASSUME NEW d \in Disks, ReadDisk(d) \/ WalkFails(d),
             \A B : Heard(B)' <= Heard(B) /\ Heard(B) \in Nat /\ Heard(B)' \in Nat
      PROVE  Settled'
  <2>1. UNCHANGED <<journal, last, puts, due, gone>>
    BY <1>6 DEF ReadDisk, WalkFails, opVars
  <2>2. \A i \in gone' : Heard(Carrying(i))' <= N - DeleteQuorum
    <3> TAKE i \in gone'
    <3>1. Heard(Carrying(i)) <= N - DeleteQuorum
      BY <2>1 DEF Settled, ListingSettled
    <3>2. Heard(Carrying(i))' <= Heard(Carrying(i)) /\ Heard(Carrying(i)) \in Nat /\ Heard(Carrying(i))' \in Nat
      BY <1>6 DEF Heard, Carrying, Journals
    <3> QED
      BY <3>1, <3>2, Quorums
  <2>3. \A v \in due' : Heard(Lacking(v))' <= N - QuorumFor(v)
    <3> TAKE v \in due'
    <3>1. Heard(Lacking(v)) <= N - QuorumFor(v)
      BY <2>1 DEF Settled, ListingSettled
    <3>2. Heard(Lacking(v))' <= Heard(Lacking(v)) /\ Heard(Lacking(v)) \in Nat /\ Heard(Lacking(v))' \in Nat
      BY <1>6 DEF Heard, Lacking, Journals
    <3> QED
      BY <3>1, <3>2, Quorums
  <2>4. ListingSettled'
    BY <2>2, <2>3 DEF ListingSettled, N, DeleteQuorum, QuorumFor, WriteQuorum, DataBlocks
  <2> QED
    BY <1>0, <2>1, <2>4 DEF Settled, DisksSettled, PutsAreObjects, OnDisks
<1> DEFINE Read(B) == {n \in 1..Len(streams) : streams[n] \in B}
           Open(B) == {e \in unread : journal[e] \in B}
<1>c. ASSUME NEW B
      PROVE  /\ Cardinality(Read(B)) \in Nat
             /\ IsFiniteSet(Open(B)) /\ Cardinality(Open(B)) \in Nat
             /\ Heard(B) = Cardinality(Read(B)) + Cardinality(Open(B))
  <2>1. IsFiniteSet(1..Len(streams))
    BY <1>0, LenProperties, FS_Interval DEF Typed, Streamed
  <2>2. IsFiniteSet(Read(B)) /\ Cardinality(Read(B)) \in Nat
    BY <2>1, FS_Subset, FS_CardinalityType
  <2>3. Open(B) \subseteq Disks
    BY <1>0 DEF Typed, TypeOK
  <2> QED
    BY <2>2, <2>3, FiniteDisks DEF Heard
<1>7. ASSUME NEW d \in Disks, ReadDisk(d) PROVE Settled'
  <2>1. PICK k \in 1..(Len(streams) + 1) : streams' = InsertAt(streams, k, journal[d])
    BY <1>7 DEF ReadDisk
  <2>2. journal[d] \in Journals /\ streams \in Seq(Journals)
    BY <1>0 DEF Typed, TypeOK, Streamed, Journals
  <2>3. d \in unread /\ unread' = unread \ {d} /\ journal' = journal
    BY <1>7 DEF ReadDisk
  <2>4. ASSUME NEW B PROVE Heard(B)' <= Heard(B) /\ Heard(B) \in Nat /\ Heard(B)' \in Nat
    <3> DEFINE T == {n \in 1..Len(streams') : streams'[n] \in B}
               U == {e \in unread' : journal'[e] \in B}
    <3>1. /\ Cardinality(T) \in Nat
          /\ journal[d] \in B => Cardinality(T) <= Cardinality(Read(B)) + 1
          /\ journal[d] \notin B => Cardinality(T) <= Cardinality(Read(B))
      <4>1. OneMore(streams, streams', journal[d], B)
        BY <2>1, <2>2, InsertCount
      <4> QED
        BY <4>1 DEF OneMore
    <3>2. U = Open(B) \ {d} /\ (d \in Open(B) <=> journal[d] \in B)
      BY <2>3
    <3>3. Cardinality(U) = IF d \in Open(B) THEN Cardinality(Open(B)) - 1 ELSE Cardinality(Open(B))
      <4> HIDE DEF U, Open
      <4> QED
        BY <1>c, <3>2, FS_RemoveElement
    <3>4. d \in Open(B) => Cardinality(Open(B)) # 0
      BY <1>c, FS_EmptySet
    <3>5. Heard(B)' = Cardinality(T) + Cardinality(U)
      BY DEF Heard
    <3> HIDE DEF T, U, Read, Open
    <3> QED
      BY <1>c, <3>1, <3>2, <3>3, <3>4, <3>5
  <2> QED
    BY <1>6, <1>7, <2>4
<1>8. ASSUME NEW d \in Disks, WalkFails(d) PROVE Settled'
  <2>1. unread' = unread \ {d} /\ journal' = journal /\ streams' = streams
    BY <1>8 DEF WalkFails
  <2>2. ASSUME NEW B PROVE Heard(B)' <= Heard(B) /\ Heard(B) \in Nat /\ Heard(B)' \in Nat
    <3> DEFINE U == {e \in unread' : journal'[e] \in B}
    <3>1. U \subseteq Open(B)
      BY <2>1
    <3>2. Cardinality(U) <= Cardinality(Open(B)) /\ Cardinality(U) \in Nat
      <4> HIDE DEF U, Open
      <4> QED
        BY <1>c, <3>1, FS_Subset, FS_CardinalityType
    <3>3. Heard(B)' = Cardinality(Read(B)) + Cardinality(U)
      BY <2>1 DEF Heard
    <3> HIDE DEF U, Read, Open
    <3> QED
      BY <1>c, <3>2, <3>3
  <2> QED
    BY <1>6, <1>8, <2>2
<1>9. ASSUME EndListing PROVE Settled'
  <2>1. UNCHANGED <<journal, last, puts>> /\ due' = {} /\ gone' = {}
    BY <1>9 DEF EndListing, opVars
  <2> QED
    BY <1>0, <2>1 DEF Settled, DisksSettled, ListingSettled, PutsAreObjects, OnDisks
<1>10. ASSUME UNCHANGED vars PROVE Settled'
  BY <1>0, <1>10 DEF vars, opVars, listVars, walkVars, Settled, DisksSettled, ListingSettled,
                     PutsAreObjects, OnDisks, Heard
<1> QED
  BY <1>1, <1>2, <1>3, <1>4, <1>5, <1>7, <1>8, <1>9, <1>10 DEF Next

LEMMA SettledAlways == Spec => []Settled
<1>1. Init => Settled
  <2> SUFFICES ASSUME Init PROVE Settled
    OBVIOUS
  <2>1. \A i \in Ids : ~last[i].acked
    BY DEF Init
  <2>2. DisksSettled
    BY <2>1 DEF DisksSettled
  <2>3. ListingSettled /\ PutsAreObjects
    BY DEF Init, ListingSettled, PutsAreObjects
  <2> QED
    BY <2>2, <2>3, TypedInit DEF Settled
<1>2. Settled /\ [Next]_vars => Settled'
  BY SettledStep
<1> QED
  BY <1>1, <1>2, PTL DEF Spec

-----------------------------------------------------------------------------
(* What the merge is given. *)

\* The streams of a listing that has heard from its disks: of an acknowledged
\* delete too few of them have the version to make a majority of the set, and
\* of an acknowledged put or marker a listing quorum of them have a copy, if as
\* many disks answered as ListingComplete asks for.
StreamsTell ==
  Complete =>
    /\ \A i \in gone :
         Cardinality({n \in 1..Len(streams) : WithId(streams[n], i) # {}}) <= N - DeleteQuorum
    /\ \A v \in due : Len(streams) >= ListingQuorum + (N - QuorumFor(v)) =>
         Cardinality({n \in 1..Len(streams) : \E w \in streams[n] : Matches(v, w)}) >= ListingQuorum

\* The listing quorum is a number.
LEMMA ListingQuorumType == ASSUME Typed PROVE ListingQuorum \in Nat
BY FiniteDisks DEF Typed, TypeOK, ListingQuorum

\* What a complete listing has read.
LEMMA StreamsTellSettled == ASSUME Settled PROVE StreamsTell
<1> SUFFICES ASSUME Complete PROVE StreamsTell
  BY DEF StreamsTell
<1>0. /\ unread = {} /\ streams \in Seq(Journals) /\ Len(streams) \in Nat
      /\ IsFiniteSet(1..Len(streams)) /\ Cardinality(1..Len(streams)) = Len(streams)
  <2>1. unread = {} /\ streams \in Seq(Journals) /\ Len(streams) \in Nat
    BY LenProperties DEF Complete, Settled, Typed, Streamed
  <2> DEFINE n == Len(streams)
  <2> HIDE DEF n
  <2>2. n \in Nat => IsFiniteSet(1..n) /\ Cardinality(1..n) = n
    BY FS_Interval
  <2> QED
    BY <2>1, <2>2 DEF n
<1>1. \A n \in 1..Len(streams) : streams[n] \in Journals
  BY <1>0, ElementOfSeq
<1>2. \A S \in SUBSET (1..Len(streams)) : IsFiniteSet(S) /\ Cardinality(S) \in Nat
  BY <1>0, FS_Subset, FS_CardinalityType
<1>3. ASSUME NEW B PROVE Heard(B) = Cardinality({n \in 1..Len(streams) : streams[n] \in B})
  <2>1. Cardinality({d \in unread : journal[d] \in B}) = 0
    BY <1>0, FS_EmptySet
  <2>2. Cardinality({n \in 1..Len(streams) : streams[n] \in B}) \in Nat
    BY <1>2
  <2> QED
    BY <2>1, <2>2 DEF Heard
<1>4. ASSUME NEW i \in gone
      PROVE  Cardinality({n \in 1..Len(streams) : WithId(streams[n], i) # {}}) <= N - DeleteQuorum
  <2>1. {n \in 1..Len(streams) : WithId(streams[n], i) # {}}
          = {n \in 1..Len(streams) : streams[n] \in Carrying(i)}
    BY <1>1 DEF Carrying
  <2> QED
    BY <1>3, <2>1 DEF Settled, ListingSettled
<1>5. ASSUME NEW v \in due, Len(streams) >= ListingQuorum + (N - QuorumFor(v))
      PROVE  Cardinality({n \in 1..Len(streams) : \E w \in streams[n] : Matches(v, w)}) >= ListingQuorum
  <2> DEFINE L == {n \in 1..Len(streams) : streams[n] \in Lacking(v)}
             C == {n \in 1..Len(streams) : \E w \in streams[n] : Matches(v, w)}
  <2>1. L \cup C = 1..Len(streams) /\ L \cap C = {}
    BY <1>1 DEF Lacking
  <2>2. IsFiniteSet(L) /\ IsFiniteSet(C) /\ Cardinality(L) \in Nat /\ Cardinality(C) \in Nat
    BY <1>2
  <2>3. Cardinality(L) <= N - QuorumFor(v)
    BY <1>3 DEF Settled, ListingSettled
  <2> HIDE DEF L, C
  <2>4. Len(streams) = Cardinality(L) + Cardinality(C)
    <3>1. Cardinality(L \cup C) = Cardinality(L) + Cardinality(C) - Cardinality(L \cap C)
      BY <2>2, FS_Union
    <3>2. Cardinality(L \cap C) = 0 /\ Cardinality(L \cup C) = Len(streams)
      BY <1>0, <2>1, FS_EmptySet
    <3> QED
      BY <2>2, <3>1, <3>2
  <2>5. Cardinality(C) >= ListingQuorum
    BY <1>0, <1>5, <2>2, <2>3, <2>4, Quorums, ListingQuorumType DEF Settled
  <2> QED
    BY <2>5 DEF C
<1> QED
  BY <1>4, <1>5 DEF StreamsTell

\* Whatever the disks missed and whatever happens between the reads, a listing
\* hears of an acknowledged put or marker from a quorum, and of a version whose
\* delete was acknowledged from no more disks than may miss a delete.
THEOREM ListingHears == Spec => []StreamsTell
<1>1. Settled => StreamsTell
  BY StreamsTellSettled
<1> QED
  BY <1>1, SettledAlways, PTL

-----------------------------------------------------------------------------
(* Counting, ranking and folding. *)

\* A set of numbers with finitely many members has a greatest one.
LEMMA MaxExists ==
  ASSUME NEW S \in SUBSET Nat, S # {}, IsFiniteSet(S)
  PROVE  \E k \in S : \A j \in S : j <= k
<1> DEFINE Above(k) == {i \in S : i > k}
           A == {Above(k) : k \in S}
<1>1. A \subseteq FiniteSubsetsOf(S) /\ A # {}
  <2>1. \A k \in S : IsFiniteSet(Above(k)) /\ Above(k) \subseteq S
    BY FS_Subset
  <2> QED
    BY <2>1 DEF FiniteSubsetsOf
<1>2. IsWellFoundedOn(StrictSubsetOrdering(S), FiniteSubsetsOf(S))
  BY FS_StrictSubsetOrderingWellFounded
<1>3. \E x \in A : \A y \in A : ~(<<y, x>> \in StrictSubsetOrdering(S))
  BY <1>1, <1>2, WFMin
<1>4. PICK k \in S : \A j \in S : ~(<<Above(j), Above(k)>> \in StrictSubsetOrdering(S))
  BY <1>3
<1>5. ASSUME NEW j \in S, ~(j <= k) PROVE FALSE
  <2>1. Above(j) \subseteq Above(k) /\ j \in Above(k) /\ j \notin Above(j)
    <3>1. j \in Nat /\ k \in Nat /\ j > k
      BY <1>5
    <3>2. \A i \in S : i > j => i > k
      BY <3>1
    <3>3. ~(j > j)
      BY <3>1
    <3>4. Above(j) \subseteq Above(k)
      BY <3>2
    <3>5. j \in Above(k)
      BY <3>1
    <3>6. j \notin Above(j)
      BY <3>3
    <3> QED
      BY <3>4, <3>5, <3>6
  <2>2. <<Above(j), Above(k)>> \in StrictSubsetOrdering(S)
    BY <2>1 DEF StrictSubsetOrdering
  <2> QED
    BY <1>4, <2>2
<1> QED
  BY <1>5

\* Induction up to a bound.
LEMMA Climb ==
  ASSUME NEW n \in Nat, NEW P, 0 \in P, \A k \in 1..n : k - 1 \in P => k \in P
  PROVE  \A k \in 0..n : k \in P
<1> DEFINE S == {k \in 0..n : \A h \in 0..k : h \in P}
<1>1. S \in SUBSET Nat /\ S # {} /\ IsFiniteSet(S)
  <2>1. 0 \in S
    OBVIOUS
  <2>2. IsFiniteSet(0..n)
    BY FS_Interval
  <2>3. S \subseteq 0..n /\ S \in SUBSET Nat
    OBVIOUS
  <2> HIDE DEF S
  <2>4. IsFiniteSet(S)
    BY <2>2, <2>3, FS_Subset
  <2> QED
    BY <2>1, <2>3, <2>4
<1>2. PICK k \in S : \A j \in S : j <= k
  <2> HIDE DEF S
  <2> QED
    BY <1>1, MaxExists
<1>3. k = n
  <2> SUFFICES ASSUME k # n PROVE FALSE
    OBVIOUS
  <2>1. k \in Nat /\ k + 1 \in 1..n /\ k \in P
    OBVIOUS
  <2>2. k + 1 \in P
    BY <2>1
  <2>3. \A h \in 0..(k + 1) : h \in 0..k \/ h = k + 1
    BY <2>1
  <2>4. k + 1 \in S
    BY <2>1, <2>2, <2>3
  <2> QED
    BY <1>2, <2>1, <2>4
<1> QED
  BY <1>3

\* Max picks the greatest index, as the folds need.
LEMMA MaxOfPrefix ==
  ASSUME NEW k \in Nat, NEW s \in SUBSET (1..(k + 1)), k + 1 \in s
  PROVE  Max(s) = k + 1 /\ s \ {Max(s)} \in SUBSET (1..k)
<1>1. \A y \in s : k + 1 >= y
  OBVIOUS
<1>2. \A x \in s : (\A y \in s : x >= y) => x = k + 1
  BY <1>1
<1>3. Max(s) = k + 1
  BY <1>1, <1>2 DEF Max
<1> QED
  BY <1>3

LEMMA MaxInPrefix ==
  ASSUME NEW k \in Nat, NEW s \in SUBSET (1..k), s # {}
  PROVE  Max(s) \in s /\ s \ {Max(s)} \in SUBSET (1..k)
<1>1. IsFiniteSet(s) /\ s \in SUBSET Nat
  <2>1. IsFiniteSet(1..k)
    BY FS_Interval
  <2>2. s \in SUBSET Nat
    OBVIOUS
  <2> QED
    BY <2>1, <2>2, FS_Subset
<1>2. PICK x \in s : \A y \in s : y <= x
  BY <1>1, MaxExists
<1>3. \A y \in s : x >= y
  BY <1>1, <1>2
<1> QED
  BY <1>3 DEF Max

\* The recursion by which folds are defined, and that there is such a function.
Folds(n, base, step, f) ==
  \A s \in SUBSET (1..n) :
    f[s] = IF s = {} THEN base ELSE step[Max(s)][f[s \ {Max(s)}]]

LEMMA FoldExists ==
  ASSUME NEW n \in Nat, NEW C, NEW base \in C, NEW step \in [1..n -> [C -> C]]
  PROVE  \E f \in [SUBSET (1..n) -> C] : Folds(n, base, step, f)
<1> DEFINE Good(k, f) == \A s \in SUBSET (1..k) :
             f[s] = IF s = {} THEN base ELSE step[Max(s)][f[s \ {Max(s)}]]
           P == {k \in 0..n : \E f \in [SUBSET (1..k) -> C] : Good(k, f)}
<1>1. 0 \in P
  <2> DEFINE f == [s \in SUBSET (1..0) |-> base]
  <2>1. f \in [SUBSET (1..0) -> C] /\ Good(0, f)
    OBVIOUS
  <2>2. 0 \in 0..n
    OBVIOUS
  <2> HIDE DEF f, Good
  <2> QED
    BY <2>1, <2>2
<1>2. ASSUME NEW k \in 1..n, k - 1 \in P PROVE k \in P
  <2>1. PICK f \in [SUBSET (1..(k - 1)) -> C] : Good(k - 1, f)
    BY <1>2
  <2> DEFINE g == [s \in SUBSET (1..k) |-> IF k \in s THEN step[k][f[s \ {k}]] ELSE f[s]]
  <2>2. \A s \in SUBSET (1..k) : k \notin s => s \in SUBSET (1..(k - 1))
    OBVIOUS
  <2>3. \A s \in SUBSET (1..k) : s \ {k} \in SUBSET (1..(k - 1))
    OBVIOUS
  <2>4. \A s \in SUBSET (1..k) : k \in s => Max(s) = k
    <3>1. k - 1 \in Nat /\ (k - 1) + 1 = k
      OBVIOUS
    <3> QED
      BY <3>1, MaxOfPrefix
  <2>5. g \in [SUBSET (1..k) -> C]
    <3>1. \A s \in SUBSET (1..k) : f[s \ {k}] \in C
      BY <2>3
    <3>2. \A s \in SUBSET (1..k) : step[k][f[s \ {k}]] \in C
      BY <3>1
    <3> QED
      BY <2>2, <3>2
  <2>6. ASSUME NEW s \in SUBSET (1..k)
        PROVE  g[s] = IF s = {} THEN base ELSE step[Max(s)][g[s \ {Max(s)}]]
    <3>1. CASE k \in s
      <4>1. s # {} /\ Max(s) = k /\ k \notin s \ {k} /\ s \ {k} \in SUBSET (1..k)
        BY <2>4, <3>1
      <4>2. g[s \ {k}] = f[s \ {k}] /\ g[s] = step[k][f[s \ {k}]]
        BY <3>1, <4>1
      <4> QED
        BY <4>1, <4>2
    <3>2. CASE k \notin s
      <4>1. s \in SUBSET (1..(k - 1)) /\ g[s] = f[s]
        BY <2>2, <3>2
      <4>2. CASE s = {}
        BY <2>1, <4>1, <4>2
      <4>3. CASE s # {}
        <5>1. k \notin s \ {Max(s)} /\ s \ {Max(s)} \in SUBSET (1..k)
          BY <3>2
        <5>2. g[s \ {Max(s)}] = f[s \ {Max(s)}]
          BY <5>1
        <5> HIDE DEF g
        <5> QED
          BY <2>1, <4>1, <4>3, <5>2
      <4> QED
        BY <4>2, <4>3
    <3> QED
      BY <3>1, <3>2
  <2> HIDE DEF g
  <2>7. Good(k, g)
    BY <2>6
  <2>8. k \in 0..n
    OBVIOUS
  <2> HIDE DEF Good
  <2> QED
    BY <2>5, <2>7, <2>8
<1>3. n \in P
  <2>1. \A k \in 1..n : k - 1 \in P => k \in P
    BY <1>2
  <2> HIDE DEF P
  <2>2. \A k \in 0..n : k \in P
    BY <1>1, <2>1, Climb
  <2> QED
    BY <2>2
<1> QED
  BY <1>3 DEF Folds

Ahead(S, key, x) == {y \in S : key[y] > key[x]}

\* The members of a finite set by rank, a higher key coming first.
LEMMA Ranking ==
  ASSUME NEW S, IsFiniteSet(S), NEW key \in [S -> Int],
         \A x, y \in S : key[x] = key[y] => x = y
  PROVE  /\ Cardinality(S) \in Nat
         /\ \A x \in S : Cardinality(Ahead(S, key, x)) \in 0..(Cardinality(S) - 1)
         /\ \A x, y \in S : key[x] > key[y] => Cardinality(Ahead(S, key, x)) < Cardinality(Ahead(S, key, y))
         /\ \A n \in 1..Cardinality(S) : \E x \in S : Cardinality(Ahead(S, key, x)) = n - 1
<1>0. Cardinality(S) \in Nat
  BY FS_CardinalityType
<1>1. \A x \in S : Ahead(S, key, x) \in SUBSET S /\ x \notin Ahead(S, key, x)
  <2>1. \A x \in S : ~(key[x] > key[x])
    OBVIOUS
  <2> QED
    BY <2>1 DEF Ahead
<1>2. \A T \in SUBSET S : IsFiniteSet(T) /\ Cardinality(T) \in Nat
  BY FS_Subset, FS_CardinalityType
<1>3. \A x \in S : Cardinality(Ahead(S, key, x)) \in 0..(Cardinality(S) - 1)
  <2> TAKE x \in S
  <2>1. Ahead(S, key, x) \subseteq S /\ Ahead(S, key, x) # S
    BY <1>1
  <2>2. Cardinality(Ahead(S, key, x)) < Cardinality(S)
    BY <1>2, <2>1, FS_Subset
  <2> QED
    BY <1>0, <1>1, <1>2, <2>2
<1>4. ASSUME NEW x \in S, NEW y \in S, key[x] > key[y]
      PROVE  Cardinality(Ahead(S, key, x)) < Cardinality(Ahead(S, key, y))
  <2>1. \A z \in S : key[z] \in Int
    OBVIOUS
  <2>2. \A z \in S : key[z] > key[x] => key[z] > key[y]
    BY <1>4, <2>1
  <2>3. Ahead(S, key, x) \subseteq Ahead(S, key, y) /\ x \in Ahead(S, key, y) /\ x \notin Ahead(S, key, x)
    BY <1>1, <1>4, <2>2 DEF Ahead
  <2>4. IsFiniteSet(Ahead(S, key, y)) /\ Ahead(S, key, x) # Ahead(S, key, y)
    BY <1>1, <1>2, <2>3
  <2>5. Cardinality(Ahead(S, key, x)) <= Cardinality(Ahead(S, key, y))
    BY <2>3, <2>4, FS_Subset
  <2>6. Cardinality(Ahead(S, key, x)) # Cardinality(Ahead(S, key, y))
    BY <2>3, <2>4, FS_Subset
  <2> QED
    BY <1>1, <1>2, <2>5, <2>6
<1>5. ASSUME NEW n \in 1..Cardinality(S) PROVE \E x \in S : Cardinality(Ahead(S, key, x)) = n - 1
  <2> DEFINE r == [x \in S |-> Cardinality(Ahead(S, key, x))]
             T == 0..(Cardinality(S) - 1)
  <2>1. r \in [S -> T]
    BY <1>3
  <2>2. \A x, y \in S : x # y => r[x] # r[y]
    <3> TAKE x, y \in S
    <3> HAVE x # y
    <3>1. key[x] \in Int /\ key[y] \in Int /\ key[x] # key[y]
      OBVIOUS
    <3>2. key[x] > key[y] \/ key[y] > key[x]
      BY <3>1
    <3>3. r[x] < r[y] \/ r[y] < r[x]
      BY <1>4, <3>2
    <3>4. r[x] \in Nat /\ r[y] \in Nat
      BY <1>1, <1>2
    <3> QED
      BY <3>3, <3>4
  <2>3. IsFiniteSet(T) /\ Cardinality(T) = Cardinality(S)
    <3>1. \A c \in Nat : IsFiniteSet(0..(c - 1)) /\ Cardinality(0..(c - 1)) = c
      BY FS_Interval
    <3> QED
      BY <1>0, <3>1
  <2>4. n - 1 \in T
    BY <1>0
  <2> HIDE DEF T
  <2>5. r \in Injection(S, T)
    <3> HIDE DEF r
    <3> QED
      BY <2>1, <2>2 DEF Injection, IsInjective
  <2>6. r \in Surjection(S, T)
    <3> HIDE DEF r
    <3> QED
      BY <2>3, <2>5, FS_Injection
  <2>7. \E x \in S : r[x] = n - 1
    <3> HIDE DEF r
    <3> QED
      BY <2>4, <2>6 DEF Surjection
  <2> QED
    BY <2>7
<1> QED
  BY <1>0, <1>3, <1>4, <1>5

-----------------------------------------------------------------------------
(* Journals and streams. *)

\* Journals that can be told apart by their times: finite sets of versions, one
\* per id and one per time.
Dated(j) ==
  /\ j \in Journals
  /\ \A v, w \in j : v.time = w.time => v = w

\* Journals are finite.
LEMMA FiniteJournals ==
  \A j \in Journals : IsFiniteSet(j) /\ Cardinality(j) \in Nat
<1>1. IsFiniteSet(Ids) /\ IsFiniteSet(Times)
  <2>1. IsFiniteSet(0..MaxOps) /\ IsFiniteSet(1..MaxOps)
    BY FS_Interval
  <2> QED
    BY <2>1 DEF Ids, Times
<1> DEFINE K == {"Object", "Delete"}
           P == Ids \X Times
           Q == P \X K
           h == [q \in Q |-> [id |-> q[1][1], time |-> q[1][2], type |-> q[2]]]
<1>2. IsFiniteSet(K)
  <2>1. IsFiniteSet({"Object"}) /\ K = {"Object"} \cup {"Delete"}
    BY FS_Singleton
  <2> QED
    BY <2>1, FS_AddElement
<1>3. IsFiniteSet(P)
  BY <1>1, FS_Product
<1>4. IsFiniteSet(Q)
  <2> HIDE DEF K, P
  <2> QED
    BY <1>2, <1>3, FS_Product
<1>5. h \in Surjection(Q, Versions)
  <2>1. h \in [Q -> Versions]
    BY DEF Versions
  <2>2. ASSUME NEW v \in Versions PROVE \E q \in Q : h[q] = v
    <3> DEFINE q == <<<<v.id, v.time>>, v.type>>
    <3>1. q \in Q /\ v = [id |-> v.id, time |-> v.time, type |-> v.type]
      BY DEF Versions
    <3>2. h[q] = v
      BY <3>1
    <3> QED
      BY <3>1, <3>2
  <2> QED
    BY <2>1, <2>2 DEF Surjection
<1>6. IsFiniteSet(Versions)
  <2> HIDE DEF h, Q
  <2> QED
    BY <1>4, <1>5, FS_Surjection
<1> QED
  BY <1>6, FS_Subset, FS_CardinalityType DEF Journals

\* Its newest version.
LEMMA NewestVersion ==
  ASSUME NEW j \in Journals, j # {}
  PROVE  Newest(j) \in j /\ \A w \in j : w.time <= Newest(j).time
<1> DEFINE T == {v.time : v \in j}
<1>1. \A v \in j : v.time \in Nat
  BY VersionTypes DEF Journals, Times
<1>2. IsFiniteSet(T)
  <2>1. IsFiniteSet(j)
    BY FiniteJournals
  <2> DEFINE h == [v \in j |-> v.time]
  <2>2. h \in Surjection(j, T)
    BY DEF Surjection
  <2> HIDE DEF h, T
  <2> QED
    BY <2>1, <2>2, FS_Surjection
<1>3. T \in SUBSET Nat /\ T # {}
  BY <1>1
<1>4. PICK t \in T : \A u \in T : u <= t
  <2> HIDE DEF T
  <2> QED
    BY <1>2, <1>3, MaxExists
<1>5. PICK v \in j : v.time = t
  BY <1>4
<1>6. \A w \in j : w.time <= v.time
  BY <1>4, <1>5
<1> QED
  BY <1>6 DEF Newest

\* The sorted journal.
LEMMA SortedJournal ==
  ASSUME NEW j, Dated(j)
  PROVE  /\ Sorted(j) \in Seq(j)
         /\ Len(Sorted(j)) = Cardinality(j)
         /\ Range(Sorted(j)) = j
         /\ \A i, k \in 1..Len(Sorted(j)) : i < k => Sorted(j)[i].time > Sorted(j)[k].time
<1> DEFINE key == [v \in j |-> v.time]
           c == Cardinality(j)
           s == Sorted(j)
<1>1. \A v \in j : v.time \in Nat
  BY VersionTypes DEF Dated, Journals, Times
<1>2. key \in [j -> Int] /\ \A x, y \in j : key[x] = key[y] => x = y
  BY <1>1 DEF Dated
<1>3. IsFiniteSet(j)
  BY FiniteJournals DEF Dated
<1>4. /\ c \in Nat
      /\ \A x \in j : Cardinality(Ahead(j, key, x)) \in 0..(c - 1)
      /\ \A x, y \in j : key[x] > key[y] => Cardinality(Ahead(j, key, x)) < Cardinality(Ahead(j, key, y))
      /\ \A n \in 1..c : \E x \in j : Cardinality(Ahead(j, key, x)) = n - 1
  <2> HIDE DEF key
  <2> QED
    BY <1>2, <1>3, Ranking
<1>5. \A v \in j : Ahead(j, key, v) = {w \in j : w.time > v.time}
  BY DEF Ahead
<1>6. s = [n \in 1..c |-> CHOOSE v \in j : Cardinality(Ahead(j, key, v)) = n - 1]
  <2> DEFINE A(n) == CHOOSE v \in j : Cardinality({w \in j : w.time > v.time}) = n - 1
             B(n) == CHOOSE v \in j : Cardinality(Ahead(j, key, v)) = n - 1
  <2>1. \A n \in 1..c : A(n) = B(n)
    <3> HIDE DEF key, c
    <3> QED
      BY <1>5
  <2>2. s = [n \in 1..c |-> A(n)]
    BY DEF Sorted
  <2> HIDE DEF A
  <2> QED
    BY <2>1, <2>2
<1> HIDE DEF c, s
<1>7. \A n \in 1..c : s[n] \in j /\ Cardinality(Ahead(j, key, s[n])) = n - 1
  <2> TAKE n \in 1..c
  <2>1. \E x \in j : Cardinality(Ahead(j, key, x)) = n - 1
    BY <1>4
  <2>2. s[n] = CHOOSE v \in j : Cardinality(Ahead(j, key, v)) = n - 1
    BY <1>6
  <2> QED
    BY <2>1, <2>2
<1>8. s \in [1..c -> j] /\ DOMAIN s = 1..c
  BY <1>6, <1>7
<1>9. s \in Seq(j) /\ Len(s) = c
  BY <1>4, <1>8
<1>10. ASSUME NEW i \in 1..c, NEW k \in 1..c, i < k PROVE s[i].time > s[k].time
  <2> DEFINE x == s[i]
             y == s[k]
  <2>1. x \in j /\ y \in j /\ Cardinality(Ahead(j, key, x)) = i - 1 /\ Cardinality(Ahead(j, key, y)) = k - 1
    BY <1>7
  <2> HIDE DEF x, y
  <2>2. ~(key[y] > key[x]) /\ x # y
    BY <1>4, <1>10, <2>1
  <2>3. key[x] \in Int /\ key[y] \in Int /\ key[x] # key[y]
    BY <1>2, <2>1, <2>2
  <2>4. key[x] > key[y] /\ key[x] = x.time /\ key[y] = y.time
    BY <2>1, <2>2, <2>3
  <2> QED
    BY <2>4 DEF x, y
<1>11. ASSUME NEW v \in j PROVE \E n \in 1..c : s[n] = v
  <2> DEFINE n == Cardinality(Ahead(j, key, v)) + 1
  <2>1. n \in 1..c /\ Cardinality(Ahead(j, key, v)) = n - 1
    BY <1>4
  <2>2. s[n] \in j /\ Cardinality(Ahead(j, key, s[n])) = n - 1
    BY <1>7, <2>1
  <2>3. s[n] = v
    <3> SUFFICES ASSUME s[n] # v PROVE FALSE
      OBVIOUS
    <3> DEFINE x == s[n]
    <3>1. x \in j /\ key[x] \in Int /\ key[v] \in Int /\ key[x] # key[v]
      BY <1>2, <2>2
    <3> HIDE DEF x
    <3>2. key[x] > key[v] \/ key[v] > key[x]
      BY <3>1
    <3>3. Cardinality(Ahead(j, key, x)) < Cardinality(Ahead(j, key, v)) \/ Cardinality(Ahead(j, key, v)) < Cardinality(Ahead(j, key, x))
      BY <1>4, <3>1, <3>2
    <3>4. Cardinality(Ahead(j, key, x)) = Cardinality(Ahead(j, key, v)) /\ Cardinality(Ahead(j, key, v)) \in Nat
      BY <1>4, <2>1, <2>2 DEF x
    <3> QED
      BY <3>3, <3>4
  <2> QED
    BY <2>1, <2>3
<1>12. Range(s) = j
  BY <1>7, <1>8, <1>11 DEF Range
<1> QED
  BY <1>9, <1>10, <1>12 DEF s, c

Left(ss) == {i \in 1..Len(ss) : ss[i] # {}}

\* Sequences of journals.
LEMMA StreamFacts ==
  ASSUME NEW ss \in Seq(Journals)
  PROVE  /\ Len(ss) \in Nat /\ DOMAIN ss = 1..Len(ss)
         /\ \A i \in 1..Len(ss) : ss[i] \in Journals
         /\ IsFiniteSet(1..Len(ss))
         /\ \A S \in SUBSET (1..Len(ss)) : IsFiniteSet(S) /\ Cardinality(S) \in Nat
<1>1. Len(ss) \in Nat /\ DOMAIN ss = 1..Len(ss)
  BY LenProperties
<1>2. \A i \in 1..Len(ss) : ss[i] \in Journals
  BY ElementOfSeq
<1>3. \A n \in Nat : IsFiniteSet(1..n)
  BY FS_Interval
<1>4. IsFiniteSet(1..Len(ss))
  BY <1>1, <1>3
<1> QED
  BY <1>1, <1>2, <1>4, FS_Subset, FS_CardinalityType

\* The streams that have a version left, each once.
LEMMA CandidatesOf ==
  ASSUME NEW ss \in Seq(Journals)
  PROVE  /\ Candidates(ss) \in Seq(Journals)
         /\ Len(Candidates(ss)) = Cardinality(Left(ss))
         /\ \E e \in Bijection(1..Len(Candidates(ss)), Left(ss)) :
              \A n \in 1..Len(Candidates(ss)) : Candidates(ss)[n] = ss[e[n]]
<1> DEFINE L == Left(ss)
           c == Cardinality(L)
           key == [i \in L |-> -i]
           Rank(i) == Cardinality({h \in L : h < i})
           e == [n \in 1..c |-> CHOOSE i \in L : Rank(i) = n - 1]
           cs == Candidates(ss)
<1>1. L \in SUBSET (1..Len(ss)) /\ Len(ss) \in Nat /\ IsFiniteSet(L) /\ c \in Nat
  BY StreamFacts DEF Left
<1>2. \A i \in L : i \in Int
  BY <1>1
<1>3. key \in [L -> Int] /\ \A x, y \in L : key[x] = key[y] => x = y
  BY <1>2
<1>4. \A x \in L : Ahead(L, key, x) = {h \in L : h < x}
  BY <1>2 DEF Ahead
<1>5. /\ \A x \in L : Cardinality(Ahead(L, key, x)) \in 0..(Cardinality(L) - 1)
      /\ \A x, y \in L : key[x] > key[y] => Cardinality(Ahead(L, key, x)) < Cardinality(Ahead(L, key, y))
      /\ \A n \in 1..Cardinality(L) : \E x \in L : Cardinality(Ahead(L, key, x)) = n - 1
  <2> HIDE DEF key, L
  <2> QED
    BY <1>1, <1>3, Ranking
<1> HIDE DEF L
<1>6. /\ \A x \in L : Rank(x) \in 0..(c - 1)
      /\ \A x, y \in L : x < y => Rank(x) < Rank(y)
      /\ \A n \in 1..c : \E x \in L : Rank(x) = n - 1
  <2>1. \A x \in L : Cardinality(Ahead(L, key, x)) = Rank(x)
    BY <1>4
  <2>2. \A x, y \in L : x < y => key[x] > key[y]
    BY <1>2
  <2> HIDE DEF key, Rank
  <2> QED
    BY <1>5, <2>1, <2>2
<1>7. cs = [n \in 1..c |-> ss[e[n]]]
  <2> DEFINE A(n) == CHOOSE i \in L : Rank(i) = n - 1
  <2>1. cs = [n \in 1..c |-> ss[A(n)]]
    BY DEF Candidates, L, Left
  <2>2. \A n \in 1..c : e[n] = A(n)
    OBVIOUS
  <2> HIDE DEF A, e
  <2> QED
    BY <2>1, <2>2
<1> HIDE DEF Rank
<1>8. \A n \in 1..c : e[n] \in L /\ Rank(e[n]) = n - 1
  <2> TAKE n \in 1..c
  <2>1. \E x \in L : Rank(x) = n - 1
    BY <1>6
  <2> QED
    BY <2>1
<1>9. e \in [1..c -> L]
  <2>1. e = [n \in 1..c |-> e[n]]
    OBVIOUS
  <2> HIDE DEF e
  <2> QED
    BY <1>8, <2>1
<1> HIDE DEF e, cs
<1>10. ASSUME NEW m \in 1..c, NEW n \in 1..c, m # n PROVE e[m] # e[n]
  <2>1. Rank(e[m]) = m - 1 /\ Rank(e[n]) = n - 1
    BY <1>8
  <2> QED
    BY <1>1, <1>10, <2>1
<1>11. ASSUME NEW x \in L PROVE \E n \in 1..c : e[n] = x
  <2> DEFINE n == Rank(x) + 1
  <2>1. n \in 1..c /\ Rank(x) = n - 1
    BY <1>1, <1>6
  <2>2. e[n] \in L /\ Rank(e[n]) = Rank(x)
    BY <1>8, <2>1
  <2>3. ~(e[n] < x) /\ ~(x < e[n])
    <3>1. Rank(x) \in Int
      BY <2>1
    <3> QED
      BY <1>6, <2>2, <3>1
  <2>4. e[n] = x
    <3>1. e[n] \in Int /\ x \in Int
      BY <1>2, <2>2
    <3> HIDE DEF n
    <3> QED
      BY <2>3, <3>1
  <2> QED
    BY <2>1, <2>4
<1>12. e \in Bijection(1..c, L)
  BY <1>9, <1>10, <1>11 DEF Bijection, Injection, IsInjective, Surjection
<1>13. \A i \in L : ss[i] \in Journals
  BY <1>1, StreamFacts
<1>14. cs \in Seq(Journals) /\ Len(cs) = c
  <2>1. \A n \in 1..c : ss[e[n]] \in Journals
    BY <1>8, <1>13
  <2>2. cs \in [1..c -> Journals]
    BY <1>7, <2>1
  <2> QED
    BY <1>1, <2>2
<1>15. \A n \in 1..c : cs[n] = ss[e[n]]
  BY <1>7
<1> QED
  BY <1>12, <1>14, <1>15 DEF cs, L

\* Their newest versions.
LEMMA TopsOf ==
  ASSUME NEW ss \in Seq(Journals)
  PROVE  /\ Len(Tops(ss)) = Cardinality(Left(ss))
         /\ Tops(ss) \in [1..Cardinality(Left(ss)) -> Versions]
         /\ \E e \in Bijection(1..Cardinality(Left(ss)), Left(ss)) :
              \A n \in 1..Cardinality(Left(ss)) :
                /\ e[n] \in Left(ss)
                /\ Tops(ss)[n] = Newest(ss[e[n]])
                /\ Tops(ss)[n] \in ss[e[n]]
<1> DEFINE cs == Candidates(ss)
           c == Cardinality(Left(ss))
<1>1. PICK e \in Bijection(1..c, Left(ss)) : \A n \in 1..c : cs[n] = ss[e[n]]
  BY CandidatesOf
<1>2. \A n \in 1..c : e[n] \in Left(ss)
  BY <1>1 DEF Bijection, Injection
<1>3. c \in Nat
  <2>1. Left(ss) \in SUBSET (1..Len(ss))
    BY DEF Left
  <2> QED
    BY <2>1, StreamFacts
<1>4. Tops(ss) = [n \in 1..c |-> Newest(ss[e[n]])]
  <2>1. Tops(ss) = [n \in 1..c |-> Newest(cs[n])]
    BY CandidatesOf DEF Tops
  <2> HIDE DEF cs, c
  <2> QED
    BY <1>1, <2>1
<1>5. \A n \in 1..c : ss[e[n]] \in Journals /\ ss[e[n]] # {}
  BY <1>2, StreamFacts DEF Left
<1>6. \A n \in 1..c : Newest(ss[e[n]]) \in ss[e[n]] /\ Newest(ss[e[n]]) \in Versions
  BY <1>5, NewestVersion DEF Journals
<1> HIDE DEF c
<1>7. Tops(ss) \in [1..c -> Versions] /\ \A n \in 1..c : Tops(ss)[n] = Newest(ss[e[n]])
  BY <1>4, <1>6
<1>8. Len(Tops(ss)) = c
  BY <1>3, <1>7
<1> QED
  BY <1>1, <1>2, <1>6, <1>7, <1>8 DEF c

\* Counting streams through the tops or the candidates.
LEMMA CountThrough ==
  ASSUME NEW n \in Nat, NEW L, IsFiniteSet(L), NEW e \in Bijection(1..n, L),
         NEW A \in SUBSET (1..n), NEW B \in SUBSET L
  PROVE  /\ (\A i \in A : e[i] \in B) => Cardinality(A) <= Cardinality(B)
         /\ (\A i \in 1..n : i \in A <=> e[i] \in B) => Cardinality(A) = Cardinality(B)
<1>0. e \in [1..n -> L] /\ (\A i, k \in 1..n : e[i] = e[k] => i = k) /\ \A x \in L : \E i \in 1..n : e[i] = x
  BY DEF Bijection, Injection, IsInjective, Surjection
<1> DEFINE f == [i \in A |-> e[i]]
<1>1. ASSUME \A i \in A : e[i] \in B PROVE f \in Injection(A, B)
  <2>1. f \in [A -> B]
    BY <1>1
  <2>2. \A i, k \in A : f[i] = f[k] => i = k
    BY <1>0
  <2> HIDE DEF f
  <2> QED
    BY <2>1, <2>2 DEF Injection, IsInjective
<1>2. IsFiniteSet(B) /\ IsFiniteSet(A)
  <2>1. IsFiniteSet(1..n)
    BY FS_Interval
  <2> QED
    BY <2>1, FS_Subset
<1>3. ASSUME \A i \in 1..n : i \in A <=> e[i] \in B
      PROVE  f \in Bijection(A, B)
  <2>1. f \in Injection(A, B)
    BY <1>1, <1>3
  <2>2. \A x \in B : \E i \in A : f[i] = x
    BY <1>0, <1>3
  <2> HIDE DEF f
  <2> QED
    BY <2>1, <2>2 DEF Bijection, Surjection, Injection
<1> HIDE DEF f
<1>4. ASSUME \A i \in 1..n : i \in A <=> e[i] \in B PROVE Cardinality(A) = Cardinality(B)
  <2>1. ExistsBijection(A, B)
    BY <1>3, <1>4 DEF ExistsBijection
  <2> QED
    BY <1>2, <2>1, FS_Bijection
<1>5. ASSUME \A i \in A : e[i] \in B PROVE Cardinality(A) <= Cardinality(B)
  BY <1>1, <1>2, <1>5, FS_Injection
<1> QED
  BY <1>4, <1>5

\* The indices up to k, by their last.
LEMMA PrefixLast ==
  ASSUME NEW k \in Nat, k # 0
  PROVE  /\ 1..k # {} /\ Max(1..k) = k /\ (1..k) \ {k} = 1..(k - 1)
         /\ \A n \in Nat : k <= n => 1..k \in SUBSET (1..n) /\ 1..(k - 1) \in SUBSET (1..n)
<1>1. k - 1 \in Nat /\ (k - 1) + 1 = k /\ k \in 1..k
  OBVIOUS
<1>2. Max(1..k) = k
  BY <1>1, MaxOfPrefix
<1>3. (1..k) \ {k} = 1..(k - 1)
  BY <1>1
<1>4. \A n \in Nat : k <= n => 1..k \in SUBSET (1..n) /\ 1..(k - 1) \in SUBSET (1..n)
  BY <1>1
<1> QED
  BY <1>1, <1>2, <1>3, <1>4

UpTo(A, k) == A \cap (1..k)

\* Counting up to the next index.
LEMMA UpToStep ==
  ASSUME NEW A, NEW k \in Nat, k # 0
  PROVE  /\ Cardinality(UpTo(A, k - 1)) \in Nat
         /\ Cardinality(UpTo(A, k)) = Cardinality(UpTo(A, k - 1)) + IF k \in A THEN 1 ELSE 0
<1> DEFINE B == UpTo(A, k - 1)
<1>1. IsFiniteSet(1..(k - 1))
  BY FS_Interval
<1>2. B \subseteq 1..(k - 1) /\ k \notin 1..(k - 1)
  BY DEF UpTo
<1>3. IsFiniteSet(B) /\ Cardinality(B) \in Nat /\ k \notin B
  BY <1>1, <1>2, FS_Subset, FS_CardinalityType
<1>4. CASE k \in A
  <2>1. UpTo(A, k) = B \cup {k}
    BY <1>4 DEF UpTo
  <2> HIDE DEF B
  <2>2. Cardinality(B \cup {k}) = Cardinality(B) + 1
    BY <1>3, FS_AddElement
  <2> QED
    BY <1>3, <1>4, <2>1, <2>2 DEF B
<1>5. CASE k \notin A
  <2>1. UpTo(A, k) = B
    BY <1>5 DEF UpTo
  <2> QED
    BY <1>3, <1>5, <2>1
<1> QED
  BY <1>4, <1>5

-----------------------------------------------------------------------------
(* The search for the latest version among the tops. *)

\* Tops with distinct times unless they are equal.
Summits(n, tops) ==
  /\ n \in Nat
  /\ tops \in [1..n -> Versions]
  /\ \A i, k \in 1..n : tops[i].time = tops[k].time => tops[i] = tops[k]

MatchesOf(tops, v) == {i \in DOMAIN tops : Matches(v, tops[i])}

EqualsOf(tops, v) == {i \in DOMAIN tops : tops[i] = v}

\* Versions with the id that do not count as copies of each other.
Rivals(S, id) == \E v, w \in S : v.id = id /\ w.id = id /\ v # w /\ ~Copies(v, w)

\* Majority picks one of the tops with the id.
LEMMA MajorityOf ==
  ASSUME NEW n, NEW tops, Summits(n, tops), NEW h \in 1..n
  PROVE  LET m == Majority(tops, tops[h].id) IN
         /\ m.version \in {tops[i] : i \in 1..n} /\ m.version.id = tops[h].id
         /\ m = [version |-> m.version, count |-> Cardinality(EqualsOf(tops, m.version)), stop |-> TRUE]
<1> DEFINE id == tops[h].id
           R == Range(tops)
           H == {v \in R : v.id = id}
           Count(v) == Cardinality({i \in 1..Len(tops) : tops[i] = v})
           best == CHOOSE v \in H : \A w \in H : \/ Count(v) > Count(w)
                                                  \/ (Count(v) = Count(w) /\ v.time >= w.time)
<1>1. R = {tops[i] : i \in 1..n} /\ DOMAIN tops = 1..n /\ Len(tops) = n /\ n \in Nat
  BY DEF Summits, Range
<1>2. \A v : {i \in 1..Len(tops) : tops[i] = v} = EqualsOf(tops, v)
  BY <1>1 DEF EqualsOf
<1>3. Majority(tops, id) = [version |-> best, count |-> Count(best), stop |-> TRUE]
  BY DEF Majority
<1>4. \A v : Count(v) \in Nat
  <2>1. IsFiniteSet(1..n)
    BY <1>1, FS_Interval
  <2>2. \A v : EqualsOf(tops, v) \subseteq 1..n
    BY <1>1 DEF EqualsOf
  <2> QED
    BY <1>2, <2>1, <2>2, FS_Subset, FS_CardinalityType
<1>5. IsFiniteSet(H) /\ H \subseteq Versions /\ H # {} /\ H \subseteq R /\ \A v \in H : v.id = id
  <2>1. IsFiniteSet(1..n)
    BY <1>1, FS_Interval
  <2>2. R \subseteq Versions
    BY <1>1 DEF Summits
  <2>3. R \in Journals
    BY <2>2 DEF Journals
  <2>4. IsFiniteSet(R)
    BY <2>3, FiniteJournals
  <2>5. tops[h] \in H
    BY <1>1
  <2> QED
    BY <2>2, <2>4, <2>5, FS_Subset
<1>6. \A v \in H : v.time \in Nat
  BY <1>5, VersionTypes DEF Times
<1> HIDE DEF R, H, Count
<1>7. \E v \in H : \A w \in H : \/ Count(v) > Count(w)
                                \/ (Count(v) = Count(w) /\ v.time >= w.time)
  <2> DEFINE K == {Count(v) : v \in H}
             f == [v \in H |-> Count(v)]
  <2>1. K \in SUBSET Nat /\ K # {} /\ IsFiniteSet(K)
    <3>1. f \in Surjection(H, K)
      BY DEF Surjection
    <3>2. K \in SUBSET Nat /\ K # {}
      BY <1>4, <1>5
    <3> HIDE DEF f, K
    <3> QED
      BY <1>5, <3>1, <3>2, FS_Surjection
  <2>2. PICK m \in K : \A x \in K : x <= m
    <3> HIDE DEF K
    <3> QED
      BY <2>1, MaxExists
  <2> DEFINE T == {v \in H : Count(v) = m}
  <2>3. T \in Journals /\ T # {}
    BY <1>5, <2>2 DEF Journals
  <2> DEFINE b == Newest(T)
  <2>4. b \in T /\ \A w \in T : w.time <= b.time
    BY <2>3, NewestVersion
  <2> HIDE DEF b
  <2>5. ASSUME NEW w \in H
        PROVE  Count(b) > Count(w) \/ (Count(b) = Count(w) /\ b.time >= w.time)
    <3>1. Count(w) <= m /\ Count(b) = m /\ Count(w) \in Nat /\ m \in Nat
      BY <1>4, <2>2, <2>4
    <3>2. CASE Count(w) = m
      BY <1>6, <2>4, <3>1, <3>2
    <3>3. CASE Count(w) # m
      BY <3>1, <3>3
    <3> QED
      BY <3>2, <3>3
  <2> QED
    BY <2>4, <2>5
<1>8. best \in H
  BY <1>7
<1> HIDE DEF best
<1> QED
  <2>1. Majority(tops, id).version = best
    BY <1>3
  <2>2. Count(best) = Cardinality(EqualsOf(tops, best))
    BY <1>2 DEF Count
  <2>3. best \in {tops[i] : i \in 1..n} /\ best.id = id
    BY <1>1, <1>5, <1>8
  <2> QED
    BY <1>3, <2>1, <2>2, <2>3

Start == [version |-> NoVersion, count |-> 0, stop |-> FALSE]

\* What the loop knows after k tops.
Counted(tops, k, c) ==
  LET n == Len(tops) R == {tops[i] : i \in 1..n} IN
  /\ c \in [version : R \cup {NoVersion}, count : Nat, stop : BOOLEAN]
  /\ k = 0 => c = Start
  /\ k # 0 => c.version \in R
  /\ c.stop => /\ c.count <= Cardinality(MatchesOf(tops, c.version))
               /\ Rivals(R, c.version.id)
  /\ ~c.stop => /\ c.count <= Cardinality(UpTo(MatchesOf(tops, c.version), k))
                /\ \A i \in 1..k : tops[i].time <= c.version.time
                /\ c.count >= Cardinality(UpTo(EqualsOf(tops, c.version), k))

\* Not strict, copies are an equivalence.
LEMMA MatchesEquivalence ==
  /\ \A v : Matches(v, v)
  /\ \A v, w : Matches(v, w) => Matches(w, v)
  /\ \A u, v, w : Matches(u, v) /\ Matches(v, w) => Matches(u, w)
BY DEF Matches

\* One top more.
LEMMA CountStep ==
  ASSUME NEW n, NEW tops, Summits(n, tops), NEW k \in 1..n, NEW c, Counted(tops, k - 1, c)
  PROVE  Counted(tops, k, CountTop(tops, c, tops[k]))
<1> DEFINE R == {tops[i] : i \in 1..n}
           C == [version : R \cup {NoVersion}, count : Nat, stop : BOOLEAN]
           v == tops[k]
           d == CountTop(tops, c, v)
           o == c.version
<1>1. n \in Nat /\ Len(tops) = n /\ DOMAIN tops = 1..n /\ v \in R /\ R \subseteq Versions
  BY DEF Summits
<1>2. /\ c \in C
      /\ k = 1 => c = Start
      /\ k # 1 => o \in R
      /\ c.stop => c.count <= Cardinality(MatchesOf(tops, o)) /\ Rivals(R, o.id)
      /\ ~c.stop => /\ c.count <= Cardinality(UpTo(MatchesOf(tops, o), k - 1))
                    /\ \A i \in 1..(k - 1) : tops[i].time <= o.time
                    /\ c.count >= Cardinality(UpTo(EqualsOf(tops, o), k - 1))
  <2>1. k - 1 = 0 <=> k = 1
    OBVIOUS
  <2> QED
    BY <1>1, <2>1 DEF Counted
<1>3. /\ v \in Versions /\ v.time \in Nat /\ v.time > 0 /\ v # NoVersion
      /\ o \in Versions \cup {NoVersion} /\ o.time \in Nat
      /\ (o = NoVersion => o.time = 0)
      /\ c.count \in Nat /\ c.stop \in BOOLEAN
      /\ c = [version |-> o, count |-> c.count, stop |-> c.stop]
  <2>1. v \in Versions /\ o \in Versions \cup {NoVersion}
    BY <1>1, <1>2
  <2>2. NoVersion.time = 0
    BY DEF NoVersion
  <2>3. c.count \in Nat /\ c.stop \in BOOLEAN /\ c = [version |-> o, count |-> c.count, stop |-> c.stop]
    BY <1>2
  <2> HIDE DEF v, o
  <2> QED
    BY <2>1, <2>2, <2>3, VersionTypes DEF Times
<1>4. v.time = o.time => v = o
  <2>1. CASE o = NoVersion
    BY <1>3, <2>1
  <2>2. CASE o \in R
    BY <2>2 DEF Summits
  <2> QED
    BY <1>2, <2>1, <2>2
<1>5. /\ c.stop => d = c
      /\ ~c.stop /\ v = o => d = [c EXCEPT !.count = @ + 1]
      /\ ~c.stop /\ v.time > o.time =>
           d = [c EXCEPT !.version = v, !.count = IF Copies(v, o) THEN @ + 1 ELSE 1]
      /\ ~c.stop /\ v.time < o.time =>
           d = IF Copies(v, o) THEN [c EXCEPT !.count = @ + 1]
               ELSE IF v.id = o.id THEN Majority(tops, v.id) ELSE c
  BY <1>3, <1>4 DEF CountTop
<1> HIDE DEF d
<1>6. ASSUME NEW A, A \subseteq 1..n
      PROVE  /\ Cardinality(A) \in Nat
             /\ Cardinality(UpTo(A, k - 1)) \in Nat /\ Cardinality(UpTo(A, k)) \in Nat
             /\ Cardinality(UpTo(A, k)) <= Cardinality(A)
             /\ Cardinality(UpTo(A, k)) = Cardinality(UpTo(A, k - 1)) + IF k \in A THEN 1 ELSE 0
  <2>1. IsFiniteSet(A)
    <3>1. IsFiniteSet(1..n)
      BY <1>1, FS_Interval
    <3> QED
      BY <1>6, <3>1, FS_Subset
  <2>2. Cardinality(A) \in Nat /\ Cardinality(UpTo(A, k)) <= Cardinality(A)
    <3>1. UpTo(A, k) \subseteq A
      BY DEF UpTo
    <3> QED
      BY <2>1, <3>1, FS_Subset, FS_CardinalityType
  <2>3. k \in Nat /\ k # 0
    BY <1>1
  <2>4. /\ Cardinality(UpTo(A, k - 1)) \in Nat
        /\ Cardinality(UpTo(A, k)) = Cardinality(UpTo(A, k - 1)) + IF k \in A THEN 1 ELSE 0
    BY <2>3, UpToStep
  <2> QED
    BY <2>2, <2>4
<1>7. \A w : MatchesOf(tops, w) \subseteq 1..n /\ EqualsOf(tops, w) \subseteq 1..n
  BY <1>1 DEF MatchesOf, EqualsOf
<1>8. \A w : /\ k \in MatchesOf(tops, w) <=> Matches(w, v)
             /\ k \in EqualsOf(tops, w) <=> v = w
  BY <1>1 DEF MatchesOf, EqualsOf
<1>9. SUFFICES /\ d \in C
               /\ d.version \in R
               /\ d.stop => d.count <= Cardinality(MatchesOf(tops, d.version)) /\ Rivals(R, d.version.id)
               /\ ~d.stop => /\ d.count <= Cardinality(UpTo(MatchesOf(tops, d.version), k))
                             /\ \A i \in 1..k : tops[i].time <= d.version.time
                             /\ d.count >= Cardinality(UpTo(EqualsOf(tops, d.version), k))
  <2>1. k # 0
    BY <1>1
  <2> HIDE DEF v
  <2> QED
    BY <1>1, <2>1 DEF Counted, d, v
<1>10. \A i \in 1..k : i \in 1..(k - 1) \/ i = k
  BY <1>1
<1>11. o = NoVersion => k = 1
  <2>1. NoVersion \notin R
    BY <1>1, VersionTypes
  <2> QED
    BY <1>2, <2>1
<1>12. \A i \in 1..n : tops[i].time \in Nat
  BY <1>1, VersionTypes DEF Times
<1> HIDE DEF R, v, o
<1>a. CASE c.stop
  <2>1. k # 1
    <3>1. Start.stop = FALSE
      BY DEF Start
    <3> QED
      BY <1>2, <1>a, <3>1
  <2> QED
    BY <1>2, <1>5, <1>a, <2>1 DEF o
<1>b. CASE ~c.stop /\ v = o
  <2>1. d.version = o /\ d.count = c.count + 1 /\ d.stop = FALSE /\ d \in C
    BY <1>2, <1>3, <1>5, <1>b
  <2>2. k \in MatchesOf(tops, o) /\ k \in EqualsOf(tops, o)
    BY <1>8, <1>b, MatchesEquivalence
  <2>3. c.count + 1 <= Cardinality(UpTo(MatchesOf(tops, o), k))
    BY <1>2, <1>3, <1>6, <1>7, <1>b, <2>2
  <2>4. c.count + 1 >= Cardinality(UpTo(EqualsOf(tops, o), k))
    BY <1>2, <1>3, <1>6, <1>7, <1>b, <2>2
  <2>5. \A i \in 1..k : tops[i].time <= o.time
    <3>1. tops[k].time <= o.time
      BY <1>3, <1>b DEF v
    <3> QED
      BY <1>2, <1>10, <1>b, <3>1
  <2> QED
    BY <1>1, <1>b, <2>1, <2>3, <2>4, <2>5
<1>c. CASE ~c.stop /\ v.time > o.time
  <2>1. d.version = v /\ d.count = (IF Copies(v, o) THEN c.count + 1 ELSE 1) /\ d.stop = FALSE /\ d \in C
    <3> DEFINE q == IF Copies(v, o) THEN c.count + 1 ELSE 1
    <3>1. d = [c EXCEPT !.version = v, !.count = q]
      BY <1>5, <1>c
    <3>2. q \in Nat
      BY <1>3
    <3> HIDE DEF q
    <3>3. d = [version |-> v, count |-> q, stop |-> FALSE]
      BY <1>2, <1>c, <3>1
    <3>4. d.version = v /\ d.count = q /\ d.stop = FALSE /\ d \in C
      BY <1>1, <3>2, <3>3
    <3> QED
      BY <3>4 DEF q
  <2>2. k \in MatchesOf(tops, v) /\ k \in EqualsOf(tops, v)
    BY <1>8, MatchesEquivalence
  <2>3. Copies(v, o) => MatchesOf(tops, v) = MatchesOf(tops, o)
    <3>1. Copies(v, o) => \A w : Matches(v, w) <=> Matches(o, w)
      BY DEF Copies, Matches
    <3> QED
      BY <3>1 DEF MatchesOf
  <2>4. d.count <= Cardinality(UpTo(MatchesOf(tops, v), k))
    <3>1. /\ Cardinality(UpTo(MatchesOf(tops, v), k - 1)) \in Nat
          /\ Cardinality(UpTo(MatchesOf(tops, v), k)) = Cardinality(UpTo(MatchesOf(tops, v), k - 1)) + 1
      BY <1>6, <1>7, <2>2
    <3>2. Copies(v, o) => c.count <= Cardinality(UpTo(MatchesOf(tops, v), k - 1))
      BY <1>2, <1>c, <2>3
    <3> QED
      BY <1>3, <2>1, <3>1, <3>2
  <2>5. /\ \A i \in 1..k : tops[i].time <= v.time
        /\ d.count >= Cardinality(UpTo(EqualsOf(tops, v), k))
    <3>1. \A i \in 1..(k - 1) : tops[i].time < v.time
      BY <1>1, <1>2, <1>3, <1>12, <1>c
    <3>2. UpTo(EqualsOf(tops, v), k - 1) = {}
      <4>1. ASSUME NEW i \in UpTo(EqualsOf(tops, v), k - 1) PROVE FALSE
        <5>1. i \in 1..(k - 1) /\ tops[i] = v
          BY <4>1 DEF UpTo, EqualsOf
        <5> QED
          BY <1>3, <3>1, <5>1
      <4> QED
        BY <4>1
    <3>3. Cardinality(UpTo(EqualsOf(tops, v), k)) = 1
      <4>1. Cardinality(UpTo(EqualsOf(tops, v), k)) = Cardinality(UpTo(EqualsOf(tops, v), k - 1)) + 1
        BY <1>6, <1>7, <2>2
      <4> QED
        BY <3>2, <4>1, FS_EmptySet
    <3>4. tops[k].time <= v.time
      BY <1>3 DEF v
    <3>5. \A i \in 1..(k - 1) : tops[i].time <= v.time
      BY <1>1, <1>3, <1>12, <3>1
    <3>6. \A i \in 1..k : tops[i].time <= v.time
      BY <1>10, <3>4, <3>5
    <3>7. d.count \in Nat /\ d.count >= 1
      <4>1. Copies(v, o) \in BOOLEAN
        BY DEF Copies, Matches
      <4> QED
        BY <1>3, <2>1, <4>1
    <3> QED
      BY <3>3, <3>6, <3>7
  <2> QED
    BY <1>1, <2>1, <2>4, <2>5
<1>d. CASE ~c.stop /\ v.time < o.time
  <2>1. o # NoVersion /\ o \in R /\ v # o
    BY <1>2, <1>3, <1>d DEF Start, o
  <2>2. CASE Copies(v, o)
    <3>1. d.version = o /\ d.count = c.count + 1 /\ d.stop = FALSE /\ d \in C
      BY <1>2, <1>3, <1>5, <1>d, <2>2
    <3>2. k \in MatchesOf(tops, o) /\ k \notin EqualsOf(tops, o)
      BY <1>8, <2>1, <2>2, MatchesEquivalence DEF Copies
    <3>3. c.count + 1 <= Cardinality(UpTo(MatchesOf(tops, o), k))
      BY <1>2, <1>3, <1>6, <1>7, <1>d, <3>2
    <3>4. c.count + 1 >= Cardinality(UpTo(EqualsOf(tops, o), k))
      BY <1>2, <1>3, <1>6, <1>7, <1>d, <3>2
    <3>5. \A i \in 1..k : tops[i].time <= o.time
      <4>1. tops[k].time <= o.time
        BY <1>3, <1>d DEF v
      <4> QED
        BY <1>2, <1>10, <1>d, <4>1
    <3> QED
      BY <2>1, <3>1, <3>3, <3>4, <3>5
  <2>3. CASE ~Copies(v, o) /\ v.id = o.id
    <3>1. d = Majority(tops, v.id)
      BY <1>5, <1>d, <2>3
    <3>2. /\ d.version \in R /\ d.version.id = v.id
          /\ d = [version |-> d.version, count |-> Cardinality(EqualsOf(tops, d.version)), stop |-> TRUE]
      BY <3>1, MajorityOf DEF v, R
    <3>3. Cardinality(EqualsOf(tops, d.version)) \in Nat
      BY <1>6, <1>7
    <3>4. EqualsOf(tops, d.version) \subseteq MatchesOf(tops, d.version)
      BY MatchesEquivalence DEF EqualsOf, MatchesOf
    <3>5. Cardinality(EqualsOf(tops, d.version)) <= Cardinality(MatchesOf(tops, d.version))
      <4>1. IsFiniteSet(1..n)
        BY <1>1, FS_Interval
      <4>2. IsFiniteSet(MatchesOf(tops, d.version))
        BY <1>7, <4>1, FS_Subset
      <4> QED
        BY <3>4, <4>2, FS_Subset
    <3>6. Rivals(R, d.version.id)
      BY <1>1, <2>1, <2>3, <3>2 DEF Rivals
    <3>7. d.stop = TRUE /\ d.count = Cardinality(EqualsOf(tops, d.version)) /\ d \in C
      <4> DEFINE x == Cardinality(EqualsOf(tops, d.version))
                 y == d.version
      <4>1. d = [version |-> y, count |-> x, stop |-> TRUE] /\ y \in R /\ x \in Nat
        BY <3>2, <3>3
      <4> HIDE DEF x, y
      <4>2. d.stop = TRUE /\ d.count = x /\ d \in C
        BY <4>1
      <4> QED
        BY <4>2 DEF x
    <3> QED
      BY <3>2, <3>5, <3>6, <3>7
  <2>4. CASE ~Copies(v, o) /\ v.id # o.id
    <3>1. d = c
      BY <1>5, <1>d, <2>4
    <3>2. k \notin EqualsOf(tops, o)
      BY <1>8, <2>1
    <3>3. c.count <= Cardinality(UpTo(MatchesOf(tops, o), k))
      BY <1>2, <1>3, <1>6, <1>7, <1>d
    <3>4. c.count >= Cardinality(UpTo(EqualsOf(tops, o), k))
      BY <1>2, <1>3, <1>6, <1>7, <1>d, <3>2
    <3>5. \A i \in 1..k : tops[i].time <= o.time
      <4>1. tops[k].time <= o.time
        BY <1>3, <1>d DEF v
      <4> QED
        BY <1>2, <1>10, <1>d, <4>1
    <3> QED
      BY <1>2, <1>d, <2>1, <3>1, <3>3, <3>4, <3>5 DEF o
  <2> QED
    BY <2>2, <2>3, <2>4
<1> QED
  <2>1. v.time < o.time \/ v.time > o.time \/ v = o
    BY <1>3, <1>4
  <2> QED
    BY <1>a, <1>b, <1>c, <1>d, <2>1

LatestStep(g, tops) ==
  [s \in SUBSET (DOMAIN tops) |->
     IF s = {} THEN Start ELSE CountTop(tops, g[s \ {Max(s)}], tops[Max(s)])]

\* The count keeps its types.
LEMMA CountTyped ==
  ASSUME NEW n, NEW tops, Summits(n, tops), NEW k \in 1..n,
         NEW c \in [version : {tops[i] : i \in 1..n} \cup {NoVersion}, count : Nat, stop : BOOLEAN]
  PROVE  CountTop(tops, c, tops[k]) \in
           [version : {tops[i] : i \in 1..n} \cup {NoVersion}, count : Nat, stop : BOOLEAN]
<1> DEFINE R == {tops[i] : i \in 1..n}
           C == [version : R \cup {NoVersion}, count : Nat, stop : BOOLEAN]
           v == tops[k]
           o == c.version
           d == CountTop(tops, c, v)
<1>1. n \in Nat /\ DOMAIN tops = 1..n /\ v \in R /\ R \subseteq Versions
  BY DEF Summits
<1>2. o \in R \cup {NoVersion} /\ c.count \in Nat /\ c.stop \in BOOLEAN
  OBVIOUS
<1>3. v.time \in Nat /\ v.time > 0 /\ o.time \in Nat /\ (o = NoVersion => o.time = 0)
  <2>1. v \in Versions /\ o \in Versions \cup {NoVersion}
    BY <1>1, <1>2
  <2>2. NoVersion.time = 0
    BY DEF NoVersion
  <2> HIDE DEF v, o
  <2> QED
    BY <2>1, <2>2, VersionTypes DEF Times
<1>4. v.time = o.time => v = o
  <2>1. CASE o = NoVersion
    BY <1>3, <2>1
  <2>2. CASE o \in R
    BY <2>2 DEF Summits
  <2> QED
    BY <1>2, <2>1, <2>2
<1>5. \/ d = c
      \/ d = [c EXCEPT !.count = @ + 1]
      \/ \E q \in Nat : d = [c EXCEPT !.version = v, !.count = q]
      \/ d = Majority(tops, v.id)
  <2>1. (IF Copies(v, o) THEN c.count + 1 ELSE 1) \in Nat
    BY <1>2
  <2>2. /\ c.stop => d = c
        /\ ~c.stop /\ v = o => d = [c EXCEPT !.count = @ + 1]
        /\ ~c.stop /\ v.time > o.time =>
             d = [c EXCEPT !.version = v, !.count = IF Copies(v, o) THEN @ + 1 ELSE 1]
        /\ ~c.stop /\ v.time < o.time =>
             d = IF Copies(v, o) THEN [c EXCEPT !.count = @ + 1]
                 ELSE IF v.id = o.id THEN Majority(tops, v.id) ELSE c
    BY <1>3, <1>4 DEF CountTop
  <2>3. v = o \/ v.time > o.time \/ v.time < o.time
    BY <1>3, <1>4
  <2> HIDE DEF d, v, o
  <2>4. CASE ~c.stop /\ v.time > o.time
    BY <2>1, <2>2, <2>4 DEF o
  <2>5. CASE ~c.stop /\ v.time < o.time
    BY <2>2, <2>5
  <2> QED
    BY <2>2, <2>3, <2>4, <2>5
<1>6. Majority(tops, v.id) \in C
  <2> DEFINE m == Majority(tops, v.id)
             x == Cardinality(EqualsOf(tops, m.version))
             y == m.version
  <2>1. y \in R /\ m = [version |-> y, count |-> x, stop |-> TRUE]
    BY MajorityOf
  <2>2. x \in Nat
    <3>1. IsFiniteSet(1..n)
      BY <1>1, FS_Interval
    <3>2. EqualsOf(tops, m.version) \subseteq 1..n
      BY <1>1 DEF EqualsOf
    <3> QED
      BY <3>1, <3>2, FS_Subset, FS_CardinalityType
  <2> HIDE DEF x, y, m
  <2>3. m \in C
    BY <2>1, <2>2
  <2> QED
    BY <2>3 DEF m
<1> HIDE DEF d
<1>7. d \in C
  <2> HIDE DEF v
  <2>1. c \in C
    OBVIOUS
  <2>2. [c EXCEPT !.count = @ + 1] \in C
    BY <1>2
  <2>3. \A q \in Nat : [c EXCEPT !.version = v, !.count = q] \in C
    BY <1>1
  <2> HIDE DEF C
  <2> QED
    BY <1>5, <1>6, <2>1, <2>2, <2>3
<1> QED
  BY <1>7 DEF d

\* The result of the loop.
LEMMA LatestOf ==
  ASSUME NEW n, NEW tops, Summits(n, tops)
  PROVE  Counted(tops, n, Latest(tops))
<1> DEFINE R == {tops[i] : i \in 1..n}
           C == [version : R \cup {NoVersion}, count : Nat, stop : BOOLEAN]
           step == [k \in 1..n |-> [c \in C |-> CountTop(tops, c, tops[k])]]
           F == CHOOSE g : g = LatestStep(g, tops)
<1>1. n \in Nat /\ DOMAIN tops = 1..n /\ Len(tops) = n
  BY DEF Summits
<1>2. Start \in C
  BY DEF Start
<1>3. step \in [1..n -> [C -> C]]
  <2>1. \A k \in 1..n : \A c \in C : CountTop(tops, c, tops[k]) \in C
    BY CountTyped
  <2> HIDE DEF C
  <2> QED
    BY <2>1
<1>4. \E f : f = LatestStep(f, tops)
  <2> HIDE DEF C
  <2>0. \E f \in [SUBSET (1..n) -> C] : Folds(n, Start, step, f)
    <3> HIDE DEF step
    <3> QED
      BY <1>1, <1>2, <1>3, FoldExists
  <2>1. PICK f \in [SUBSET (1..n) -> C] :
          \A s \in SUBSET (1..n) : f[s] = IF s = {} THEN Start ELSE step[Max(s)][f[s \ {Max(s)}]]
    <3> HIDE DEF step
    <3> QED
      BY <2>0 DEF Folds
  <2>2. ASSUME NEW s \in SUBSET (1..n), s # {}
        PROVE  step[Max(s)][f[s \ {Max(s)}]] = CountTop(tops, f[s \ {Max(s)}], tops[Max(s)])
    <3>1. Max(s) \in 1..n /\ s \ {Max(s)} \in SUBSET (1..n)
      BY <1>1, <2>2, MaxInPrefix
    <3>2. f[s \ {Max(s)}] \in C
      BY <3>1
    <3> QED
      BY <3>1, <3>2
  <2> HIDE DEF step
  <2>3. f = [s \in SUBSET (1..n) |->
               IF s = {} THEN Start ELSE CountTop(tops, f[s \ {Max(s)}], tops[Max(s)])]
    BY <2>1, <2>2
  <2> QED
    BY <1>1, <2>3 DEF LatestStep
<1>5. F = LatestStep(F, tops)
  BY <1>4
<1>6. Latest(tops) = F[DOMAIN tops]
  BY DEF Latest, FoldLeft, MapThenFoldSet, Start, LatestStep
<1> HIDE DEF F
<1>7. \A s \in SUBSET (1..n) :
        F[s] = IF s = {} THEN Start ELSE CountTop(tops, F[s \ {Max(s)}], tops[Max(s)])
  <2> DEFINE G == LatestStep(F, tops)
  <2>1. \A s \in SUBSET (1..n) :
          G[s] = IF s = {} THEN Start ELSE CountTop(tops, F[s \ {Max(s)}], tops[Max(s)])
    BY <1>1 DEF LatestStep
  <2>2. F = G
    BY <1>5
  <2> HIDE DEF G
  <2> QED
    BY <2>1, <2>2
<1>8. ASSUME NEW k \in 1..n PROVE F[1..k] = CountTop(tops, F[1..(k - 1)], tops[k])
  <2>1. 1..k # {} /\ Max(1..k) = k /\ (1..k) \ {k} = 1..(k - 1) /\ 1..k \in SUBSET (1..n)
    <3>1. k \in Nat /\ k # 0 /\ k <= n
      BY <1>1
    <3> QED
      BY <1>1, <3>1, PrefixLast
  <2>2. F[1..k] = CountTop(tops, F[(1..k) \ {Max(1..k)}], tops[Max(1..k)])
    BY <1>7, <2>1
  <2> QED
    BY <2>1, <2>2
<1> DEFINE P == {k \in 0..n : Counted(tops, k, F[1..k])}
<1>9. 0 \in P
  <2>1. 1..0 = {} /\ 0 \in 0..n
    BY <1>1
  <2>2. Counted(tops, 0, Start)
    <3>1. \A A : Cardinality(UpTo(A, 0)) = 0
      <4>1. \A A : UpTo(A, 0) = {}
        BY DEF UpTo
      <4> QED
        BY <4>1, FS_EmptySet
    <3>2. Start.version = NoVersion /\ Start.count = 0 /\ Start.stop = FALSE
      BY DEF Start
    <3>4. \A i \in 1..0 : FALSE
      OBVIOUS
    <3> HIDE DEF R
    <3>5. Start \in [version : R \cup {NoVersion}, count : Nat, stop : BOOLEAN]
      BY <1>2
    <3> QED
      BY <1>1, <3>1, <3>2, <3>4, <3>5 DEF Counted, R
  <2> QED
    BY <1>7, <2>1, <2>2
<1>10. ASSUME NEW k \in 1..n, k - 1 \in P PROVE k \in P
  <2>1. Counted(tops, k - 1, F[1..(k - 1)])
    BY <1>10
  <2>2. Counted(tops, k, F[1..k])
    BY <1>8, <2>1, CountStep
  <2> QED
    BY <1>1, <2>2
<1>11. n \in P
  <2>1. \A k \in 1..n : k - 1 \in P => k \in P
    BY <1>10
  <2> HIDE DEF P
  <2>2. \A k \in 0..n : k \in P
    BY <1>1, <1>9, <2>1, Climb
  <2> QED
    BY <1>1, <2>2
<1> QED
  BY <1>1, <1>6, <1>11

-----------------------------------------------------------------------------
(* One round of the merge. *)

Pool(ss) == UNION {ss[i] : i \in 1..Len(ss)}

\* Streams of journals: a time names a version, and so does an id within one
\* journal.
Plain(ss) ==
  /\ ss \in Seq(Journals)
  /\ \A v, w \in Pool(ss) : v.time = w.time => v = w
  /\ \A i \in 1..Len(ss) : \A v, w \in ss[i] : v.id = w.id => v = w

Backing(ss, v) == {i \in 1..Len(ss) : \E w \in ss[i] : Matches(v, w)}

Topped(ss, v) == {i \in Left(ss) : Newest(ss[i]) = v}

\* The tops of such streams.
LEMMA PlainTops ==
  ASSUME NEW ss, Plain(ss)
  PROVE  Summits(Cardinality(Left(ss)), Tops(ss))
<1> DEFINE n == Cardinality(Left(ss))
<1>1. ss \in Seq(Journals)
  BY DEF Plain
<1>2. n \in Nat
  <2>1. Left(ss) \in SUBSET (1..Len(ss))
    BY DEF Left
  <2> QED
    BY <1>1, <2>1, StreamFacts
<1>3. Tops(ss) \in [1..n -> Versions]
  BY <1>1, TopsOf
<1>4. PICK e \in Bijection(1..n, Left(ss)) : \A k \in 1..n : e[k] \in Left(ss) /\ Tops(ss)[k] \in ss[e[k]]
  BY <1>1, TopsOf
<1>5. \A k \in 1..n : Tops(ss)[k] \in Pool(ss)
  BY <1>4 DEF Left, Pool
<1> HIDE DEF n
<1>6. Summits(n, Tops(ss))
  BY <1>2, <1>3, <1>5 DEF Summits, Plain
<1> QED
  BY <1>6 DEF n

\* Consistent: all streams that have one have the same newest version.
LEMMA ConsistentTops ==
  ASSUME NEW ss \in Seq(Journals), Left(ss) # {}, Consistent(ss)
  PROVE  \A i, k \in Left(ss) : Newest(ss[i]) = Newest(ss[k])
<1> DEFINE First(i) == ss[i] # {} /\ \A k \in 1..(i - 1) : ss[k] = {}
           first == CHOOSE i \in 1..Len(ss) : First(i)
           P == {k \in 0..Len(ss) : \A h \in 1..k : ss[h] = {}}
<1>1. Len(ss) \in Nat
  BY StreamFacts
<1>2. \E i \in 1..Len(ss) : First(i)
  <2> SUFFICES ASSUME \A i \in 1..Len(ss) : ~First(i) PROVE FALSE
    OBVIOUS
  <2>1. 0 \in P
    BY <1>1
  <2>2. ASSUME NEW k \in 1..Len(ss), k - 1 \in P PROVE k \in P
    <3>1. \A h \in 1..(k - 1) : ss[h] = {}
      BY <2>2
    <3>2. ss[k] = {}
      BY <3>1
    <3>3. \A h \in 1..k : h \in 1..(k - 1) \/ h = k
      BY <1>1
    <3>4. \A h \in 1..k : ss[h] = {}
      BY <3>1, <3>2, <3>3
    <3> QED
      BY <1>1, <3>4
  <2>3. Len(ss) \in P
    <3> HIDE DEF P
    <3>1. \A k \in 0..Len(ss) : k \in P
      BY <1>1, <2>1, <2>2, Climb
    <3> QED
      BY <1>1, <3>1
  <2> QED
    BY <2>3 DEF Left
<1>3. first \in 1..Len(ss) /\ First(first)
  <2> HIDE DEF First
  <2> QED
    BY <1>2
<1>4. \A i \in first..Len(ss) : ss[i] # {} /\ Newest(ss[i]) = Newest(ss[first])
  BY DEF Consistent
<1> HIDE DEF first
<1>5. ASSUME NEW i \in Left(ss) PROVE Newest(ss[i]) = Newest(ss[first])
  <2>1. i \in 1..Len(ss) /\ ss[i] # {}
    BY DEF Left
  <2>2. i \notin 1..(first - 1)
    BY <1>3, <2>1
  <2>3. i \in first..Len(ss)
    BY <1>1, <1>3, <2>1, <2>2
  <2> QED
    BY <1>4, <2>3
<1> QED
  BY <1>5

\* What a round does with the version x that it picks.
RoundPicks(m, r, x, latest, merges) ==
  LET tt == m.streams IN
  /\ r.merged = IF merges THEN Append(m.merged, x) ELSE m.merged
  /\ r.streams = [i \in 1..Len(tt) |-> DropFrom(tt[i], latest, r.merged)]
  /\ x \in Pool(tt)
  /\ Topped(tt, x) # {}
  /\ merges => Cardinality(Backing(tt, x)) >= ListingQuorum
  /\ latest = NoVersion => merges /\ \A i \in Left(tt) : Newest(tt[i]) = x
  /\ ~Rivals(Pool(tt), x.id) =>
       /\ \A i \in Left(tt) : Newest(tt[i]).time <= x.time
       /\ Cardinality(Topped(tt, x)) >= ListingQuorum => merges

\* A round with a quorum of streams picks some version.
LEMMA RoundOf ==
  ASSUME NEW m, Plain(m.streams), ListingQuorum \in Nat, ListingQuorum > 0,
         Cardinality(Left(m.streams)) >= ListingQuorum
  PROVE  \E x \in Versions, merges \in BOOLEAN : \E latest \in {NoVersion, x} :
           RoundPicks(m, MergeRound(m), x, latest, merges)
<1> DEFINE tt == m.streams
           tops == Tops(tt)
           n == Cardinality(Left(tt))
           c == Latest(tops)
           r == MergeRound(m)
<1> HIDE DEF tt
<1>1. tt \in Seq(Journals) /\ Plain(tt)
  BY DEF Plain, tt
<1>2. /\ Len(tt) \in Nat
      /\ \A i \in 1..Len(tt) : tt[i] \in Journals
      /\ \A S \in SUBSET (1..Len(tt)) : IsFiniteSet(S) /\ Cardinality(S) \in Nat
  BY <1>1, StreamFacts
<1>3. Left(tt) \in SUBSET (1..Len(tt)) /\ n \in Nat /\ IsFiniteSet(Left(tt))
  BY <1>2 DEF Left
<1>4. Len(tops) = n /\ tops \in [1..n -> Versions]
  BY <1>1, TopsOf
<1>5. PICK e \in Bijection(1..n, Left(tt)) :
        \A k \in 1..n : e[k] \in Left(tt) /\ tops[k] = Newest(tt[e[k]]) /\ tops[k] \in tt[e[k]]
  BY <1>1, TopsOf
<1>6. \A i \in Left(tt) : \E k \in 1..n : e[k] = i
  BY <1>5 DEF Bijection, Surjection
<1>7. n >= ListingQuorum /\ n > 0 /\ 1 \in 1..n /\ Left(tt) # {}
  <2>1. n >= ListingQuorum
    BY DEF tt
  <2>2. n > 0 /\ 1 \in 1..n
    BY <1>3, <2>1
  <2> QED
    BY <1>5, <2>1, <2>2
<1>8. \A k \in 1..n : tops[k] \in Pool(tt) /\ tops[k] \in Versions /\ e[k] \in Topped(tt, tops[k])
  BY <1>3, <1>4, <1>5 DEF Pool, Topped
<1>9. \A x : Backing(tt, x) \in SUBSET (1..Len(tt)) /\ Topped(tt, x) \in SUBSET Left(tt)
  BY DEF Backing, Topped
<1>10. ~(Len(tops) < ListingQuorum)
  BY <1>3, <1>4, <1>7
<1>11. CASE Consistent(tt)
  <2> DEFINE x == tops[1]
  <2>1. r = [merged |-> Append(m.merged, x),
             streams |-> [i \in 1..Len(tt) |-> DropFrom(tt[i], NoVersion, Append(m.merged, x))]]
    BY <1>10, <1>11 DEF MergeRound, tt
  <2>2. x \in Versions /\ x \in Pool(tt) /\ Topped(tt, x) # {}
    BY <1>7, <1>8
  <2>3. \A i \in Left(tt) : Newest(tt[i]) = x
    BY <1>1, <1>5, <1>7, <1>11, ConsistentTops
  <2> HIDE DEF x, r, tops
  <2>4. Left(tt) \subseteq Backing(tt, x)
    <3> SUFFICES ASSUME NEW i \in Left(tt) PROVE i \in Backing(tt, x)
      OBVIOUS
    <3>1. i \in 1..Len(tt) /\ tt[i] \in Journals /\ tt[i] # {}
      BY <1>2 DEF Left
    <3>2. x \in tt[i]
      BY <2>3, <3>1, NewestVersion
    <3> QED
      BY <3>1, <3>2, MatchesEquivalence DEF Backing
  <2>5. Cardinality(Backing(tt, x)) >= ListingQuorum
    <3>1. IsFiniteSet(Backing(tt, x)) /\ Cardinality(Backing(tt, x)) \in Nat
      BY <1>2, <1>9
    <3>2. n <= Cardinality(Backing(tt, x))
      BY <2>4, <3>1, FS_Subset
    <3> QED
      BY <1>3, <1>7, <3>1, <3>2
  <2>6. \A i \in Left(tt) : Newest(tt[i]).time <= x.time
    BY <2>2, <2>3, VersionTypes DEF Times
  <2>7. r.merged = Append(m.merged, x)
    BY <2>1
  <2>8. r.streams = [i \in 1..Len(tt) |-> DropFrom(tt[i], NoVersion, r.merged)]
    BY <2>1, <2>7
  <2>9. RoundPicks(m, r, x, NoVersion, TRUE)
    BY <2>2, <2>3, <2>5, <2>6, <2>7, <2>8 DEF RoundPicks, tt
  <2> QED
    BY <2>2, <2>9 DEF r
<1>12. CASE ~Consistent(tt)
  <2> DEFINE x == c.version
             merges == c.count >= ListingQuorum
  <2>1. r = [merged |-> Merged(m.merged, c),
             streams |-> [i \in 1..Len(tt) |-> DropFrom(tt[i], x, Merged(m.merged, c))]]
    BY <1>10, <1>12 DEF MergeRound, tt
  <2>2. Counted(tops, n, c)
    BY <1>1, LatestOf, PlainTops
  <2> HIDE DEF tops, c, r
  <2> DEFINE R == {tops[i] : i \in 1..n}
  <2>3. /\ x \in R
        /\ c.count \in Nat /\ c.stop \in BOOLEAN
        /\ c.stop => c.count <= Cardinality(MatchesOf(tops, x)) /\ Rivals(R, x.id)
        /\ ~c.stop => /\ c.count <= Cardinality(UpTo(MatchesOf(tops, x), n))
                      /\ \A i \in 1..n : tops[i].time <= x.time
                      /\ c.count >= Cardinality(UpTo(EqualsOf(tops, x), n))
    BY <1>3, <1>4, <1>7, <2>2 DEF Counted
  <2>4. /\ MatchesOf(tops, x) \in SUBSET (1..n) /\ UpTo(MatchesOf(tops, x), n) = MatchesOf(tops, x)
        /\ EqualsOf(tops, x) \in SUBSET (1..n) /\ UpTo(EqualsOf(tops, x), n) = EqualsOf(tops, x)
    BY <1>4 DEF MatchesOf, EqualsOf, UpTo
  <2>5. x \in Versions /\ x \in Pool(tt) /\ Topped(tt, x) # {} /\ R \subseteq Pool(tt)
    BY <1>8, <2>3
  <2> HIDE DEF x, R
  <2>6. c.count <= Cardinality(Backing(tt, x))
    <3> DEFINE B == Backing(tt, x) \cap Left(tt)
    <3>1. \A k \in MatchesOf(tops, x) : e[k] \in B
      BY <1>3, <1>4, <1>5 DEF MatchesOf, Backing
    <3>2. Cardinality(MatchesOf(tops, x)) <= Cardinality(B)
      BY <1>3, <1>5, <2>4, <3>1, CountThrough
    <3>3. IsFiniteSet(Backing(tt, x)) /\ Cardinality(Backing(tt, x)) \in Nat
      BY <1>2, <1>9
    <3>4. Cardinality(B) <= Cardinality(Backing(tt, x)) /\ Cardinality(B) \in Nat
      BY <3>3, FS_Subset, FS_CardinalityType
    <3>5. Cardinality(MatchesOf(tops, x)) \in Nat
      <4>1. IsFiniteSet(1..n)
        BY <1>3, FS_Interval
      <4> QED
        BY <2>4, <4>1, FS_Subset, FS_CardinalityType
    <3> QED
      BY <2>3, <2>4, <3>2, <3>3, <3>4, <3>5
  <2>7. merges => Cardinality(Backing(tt, x)) >= ListingQuorum
    <3>1. Cardinality(Backing(tt, x)) \in Nat
      BY <1>2, <1>9
    <3> QED
      BY <2>3, <2>6, <3>1
  <2>8. ASSUME ~Rivals(Pool(tt), x.id)
        PROVE  /\ \A i \in Left(tt) : Newest(tt[i]).time <= x.time
               /\ Cardinality(Topped(tt, x)) >= ListingQuorum => merges
    <3>1. ~c.stop
      BY <2>3, <2>5, <2>8 DEF Rivals
    <3>2. \A i \in Left(tt) : Newest(tt[i]).time <= x.time
      BY <1>5, <1>6, <2>3, <3>1
    <3>3. \A k \in 1..n : k \in EqualsOf(tops, x) <=> e[k] \in Topped(tt, x)
      BY <1>4, <1>5 DEF EqualsOf, Topped
    <3>4. Cardinality(EqualsOf(tops, x)) = Cardinality(Topped(tt, x))
      BY <1>3, <1>5, <1>9, <2>4, <3>3, CountThrough
    <3>5. Cardinality(Topped(tt, x)) \in Nat
      BY <1>2, <1>3, <1>9
    <3> QED
      BY <2>3, <2>4, <3>1, <3>2, <3>4, <3>5
  <2>9. r.merged = IF merges THEN Append(m.merged, x) ELSE m.merged
    BY <2>1 DEF Merged, x
  <2>10. r.streams = [i \in 1..Len(tt) |-> DropFrom(tt[i], x, r.merged)]
    BY <2>1
  <2>11. x # NoVersion
    BY <2>5, VersionTypes
  <2> HIDE DEF merges
  <2>12. RoundPicks(m, r, x, x, merges)
    BY <2>5, <2>7, <2>8, <2>9, <2>10, <2>11 DEF RoundPicks, tt
  <2>13. merges \in BOOLEAN
    BY DEF merges
  <2> QED
    BY <2>5, <2>12, <2>13 DEF r
<1> QED
  BY <1>11, <1>12

\* A round without a quorum of streams changes nothing.
LEMMA RoundOver ==
  ASSUME NEW m, m.streams \in Seq(Journals), Cardinality(Left(m.streams)) < ListingQuorum
  PROVE  MergeRound(m) = m
<1>1. Len(Tops(m.streams)) < ListingQuorum
  BY TopsOf
<1> QED
  BY <1>1 DEF MergeRound

-----------------------------------------------------------------------------
(* The rounds. *)

\* The versions of the first k streams, each with its stream.
ItemsUpTo(ss, k) == {p \in (1..k) \X Versions : p[2] \in ss[p[1]]}

Items(ss) == ItemsUpTo(ss, Len(ss))

\* The next stream adds its versions.
LEMMA ItemsStep ==
  ASSUME NEW ss \in Seq(Journals), NEW k \in 1..Len(ss), IsFiniteSet(ItemsUpTo(ss, k - 1))
  PROVE  /\ IsFiniteSet(ItemsUpTo(ss, k))
         /\ Cardinality(ItemsUpTo(ss, k)) = Cardinality(ItemsUpTo(ss, k - 1)) + Cardinality(ss[k])
<1> DEFINE A == ItemsUpTo(ss, k - 1)
           j == ss[k]
           B == {p \in {k} \X Versions : p[2] \in j}
           f == [v \in j |-> <<k, v>>]
<1>1. Len(ss) \in Nat /\ j \in Journals /\ IsFiniteSet(j) /\ Cardinality(j) \in Nat
  BY StreamFacts, FiniteJournals
<1>2. A \cup B = ItemsUpTo(ss, k) /\ A \cap B = {}
  <2>1. k \in Int
    BY <1>1
  <2>2. \A i : i \in 1..k <=> i \in 1..(k - 1) \/ i = k
    BY <2>1
  <2>3. k \notin 1..(k - 1)
    BY <2>1
  <2> QED
    BY <2>2, <2>3 DEF ItemsUpTo
<1>3. f \in Bijection(j, B)
  <2>1. j \subseteq Versions
    BY <1>1 DEF Journals
  <2>2. f \in [j -> B]
    BY <2>1
  <2>3. \A v, w \in j : f[v] = f[w] => v = w
    OBVIOUS
  <2>4. \A p \in B : \E v \in j : f[v] = p
    OBVIOUS
  <2> HIDE DEF f, B, j
  <2> QED
    BY <2>2, <2>3, <2>4 DEF Bijection, Injection, IsInjective, Surjection
<1>4. IsFiniteSet(B) /\ Cardinality(B) = Cardinality(j)
  <2> HIDE DEF f, B, j
  <2> QED
    BY <1>1, <1>3, FS_Bijection DEF ExistsBijection
<1> HIDE DEF A, B
<1>5. Cardinality(A \cup B) = Cardinality(A) + Cardinality(B) - Cardinality(A \cap B) /\ IsFiniteSet(A \cup B)
  BY <1>4, FS_Union DEF A
<1>6. Cardinality(A \cap B) = 0
  BY <1>2, FS_EmptySet
<1>7. Cardinality(A) \in Nat /\ Cardinality(B) \in Nat
  BY <1>4, FS_CardinalityType DEF A
<1>8. Cardinality(A \cup B) = Cardinality(A) + Cardinality(j)
  BY <1>4, <1>5, <1>6, <1>7
<1> QED
  BY <1>2, <1>5, <1>8 DEF A

RoundsStep(g, ss) ==
  [s \in SUBSET (DOMAIN ss) |->
     IF s = {} THEN 0 ELSE g[s \ {Max(s)}] + Cardinality(ss[Max(s)])]

\* There are as many rounds as there are versions to drop.
LEMMA RoundsOf ==
  ASSUME NEW ss \in Seq(Journals)
  PROVE  /\ IsFiniteSet(Items(ss))
         /\ Rounds(ss) = Cardinality(Items(ss))
         /\ Rounds(ss) \in Nat
<1> DEFINE n == Len(ss)
           step == [k \in 1..n |-> [c \in Nat |-> c + Cardinality(ss[k])]]
           F == CHOOSE g : g = RoundsStep(g, ss)
<1>1. n \in Nat /\ DOMAIN ss = 1..n /\ \A k \in 1..n : ss[k] \in Journals /\ Cardinality(ss[k]) \in Nat
  BY StreamFacts, FiniteJournals
<1>2. step \in [1..n -> [Nat -> Nat]]
  BY <1>1
<1>3. \E f : f = RoundsStep(f, ss)
  <2>1. \E f \in [SUBSET (1..n) -> Nat] : Folds(n, 0, step, f)
    <3> HIDE DEF step, n
    <3> QED
      BY <1>1, <1>2, FoldExists
  <2>2. PICK f \in [SUBSET (1..n) -> Nat] :
          \A s \in SUBSET (1..n) : f[s] = IF s = {} THEN 0 ELSE step[Max(s)][f[s \ {Max(s)}]]
    <3> HIDE DEF step
    <3> QED
      BY <2>1 DEF Folds
  <2>3. ASSUME NEW s \in SUBSET (1..n), s # {}
        PROVE  step[Max(s)][f[s \ {Max(s)}]] = f[s \ {Max(s)}] + Cardinality(ss[Max(s)])
    <3>1. Max(s) \in 1..n /\ s \ {Max(s)} \in SUBSET (1..n)
      BY <1>1, <2>3, MaxInPrefix
    <3>2. f[s \ {Max(s)}] \in Nat
      BY <3>1
    <3> QED
      BY <3>1, <3>2
  <2> HIDE DEF step
  <2>4. f = [s \in SUBSET (1..n) |->
               IF s = {} THEN 0 ELSE f[s \ {Max(s)}] + Cardinality(ss[Max(s)])]
    BY <2>2, <2>3
  <2> QED
    BY <1>1, <2>4 DEF RoundsStep
<1>4. F = RoundsStep(F, ss)
  BY <1>3
<1>5. Rounds(ss) = F[DOMAIN ss]
  BY DEF Rounds, FoldLeft, MapThenFoldSet, RoundsStep
<1> HIDE DEF F
<1>6. \A s \in SUBSET (1..n) :
        F[s] = IF s = {} THEN 0 ELSE F[s \ {Max(s)}] + Cardinality(ss[Max(s)])
  <2> DEFINE G == RoundsStep(F, ss)
  <2>1. \A s \in SUBSET (1..n) :
          G[s] = IF s = {} THEN 0 ELSE F[s \ {Max(s)}] + Cardinality(ss[Max(s)])
    BY <1>1 DEF RoundsStep
  <2>2. F = G
    BY <1>4
  <2> HIDE DEF G
  <2> QED
    BY <2>1, <2>2
<1> DEFINE P == {k \in 0..n : IsFiniteSet(ItemsUpTo(ss, k)) /\ F[1..k] = Cardinality(ItemsUpTo(ss, k))}
<1>7. 0 \in P
  <2>1. 1..0 = {} /\ 0 \in 0..n /\ ItemsUpTo(ss, 0) = {}
    BY <1>1 DEF ItemsUpTo
  <2> QED
    BY <1>6, <2>1, FS_EmptySet
<1>8. ASSUME NEW k \in 1..n, k - 1 \in P PROVE k \in P
  <2>1. k \in Nat /\ k # 0 /\ k <= n
    BY <1>1
  <2>2. 1..k # {} /\ Max(1..k) = k /\ (1..k) \ {k} = 1..(k - 1) /\ 1..k \in SUBSET (1..n)
    BY <1>1, <2>1, PrefixLast
  <2>3. F[1..k] = F[(1..k) \ {Max(1..k)}] + Cardinality(ss[Max(1..k)])
    BY <1>6, <2>2
  <2>4. F[1..k] = F[1..(k - 1)] + Cardinality(ss[k])
    BY <2>2, <2>3
  <2>5. /\ IsFiniteSet(ItemsUpTo(ss, k))
        /\ Cardinality(ItemsUpTo(ss, k)) = Cardinality(ItemsUpTo(ss, k - 1)) + Cardinality(ss[k])
    BY <1>8, ItemsStep
  <2> QED
    BY <1>1, <1>8, <2>4, <2>5
<1>9. n \in P
  <2>1. \A k \in 1..n : k - 1 \in P => k \in P
    BY <1>8
  <2> HIDE DEF P
  <2>2. \A k \in 0..n : k \in P
    BY <1>1, <1>7, <2>1, Climb
  <2> QED
    BY <1>1, <2>2
<1> QED
  BY <1>1, <1>5, <1>9, FS_CardinalityType DEF Items

-----------------------------------------------------------------------------
(* The merge. *)

\* The states of a merge of ss: streams only get thinner.
MergeStates(ss) ==
  {m \in [streams : Seq(Journals), merged : Seq(Versions)] :
     Len(m.streams) = Len(ss) /\ \A i \in 1..Len(ss) : m.streams[i] \subseteq ss[i]}

\* Thinner streams are still such streams.
LEMMA ThinnerPlain ==
  ASSUME NEW ss, Plain(ss), NEW m \in MergeStates(ss)
  PROVE  /\ Plain(m.streams)
         /\ Pool(m.streams) \subseteq Pool(ss)
         /\ \A v : Backing(m.streams, v) \subseteq Backing(ss, v)
         /\ Len(m.streams) = Len(ss)
<1>1. m.streams \in Seq(Journals) /\ Len(m.streams) = Len(ss) /\ \A i \in 1..Len(ss) : m.streams[i] \subseteq ss[i]
  BY DEF MergeStates
<1> QED
  BY <1>1 DEF Plain, Pool, Backing

\* A round only drops.
LEMMA DropThins == \A j, latest, merged : DropFrom(j, latest, merged) \subseteq j
BY DEF DropFrom

\* A round keeps the types.
LEMMA RoundTyped ==
  ASSUME NEW ss, Plain(ss), NEW m \in MergeStates(ss), ListingQuorum \in Nat, ListingQuorum > 0
  PROVE  MergeRound(m) \in MergeStates(ss)
<1> DEFINE tt == m.streams
           r == MergeRound(m)
<1>0. /\ m \in [streams : Seq(Journals), merged : Seq(Versions)] /\ m.merged \in Seq(Versions)
      /\ tt \in Seq(Journals) /\ Len(tt) = Len(ss) /\ \A i \in 1..Len(ss) : tt[i] \subseteq ss[i]
  BY DEF MergeStates
<1>1. Plain(tt) /\ Cardinality(Left(tt)) \in Nat
  <2>1. Left(tt) \in SUBSET (1..Len(tt))
    BY DEF Left
  <2> QED
    BY <1>0, <2>1, ThinnerPlain, StreamFacts
<1>2. CASE Cardinality(Left(tt)) < ListingQuorum
  BY <1>0, <1>2, RoundOver
<1>3. CASE Cardinality(Left(tt)) >= ListingQuorum
  <2>0. PICK x \in Versions, merges \in BOOLEAN :
          \E latest \in {NoVersion, x} : RoundPicks(m, r, x, latest, merges)
    BY <1>1, <1>3, RoundOf
  <2>1. PICK latest \in {NoVersion, x} : RoundPicks(m, r, x, latest, merges)
    BY <2>0
  <2>2. r.merged \in Seq(Versions)
    <3>1. Append(m.merged, x) \in Seq(Versions)
      BY <1>0, AppendProperties
    <3> QED
      BY <1>0, <2>1, <3>1 DEF RoundPicks
  <2>3. r.streams = [i \in 1..Len(tt) |-> DropFrom(tt[i], latest, r.merged)]
    BY <2>1 DEF RoundPicks
  <2>4. Len(tt) \in Nat /\ \A i \in 1..Len(tt) : tt[i] \in Journals
    BY <1>0, StreamFacts
  <2>5. \A i \in 1..Len(tt) : DropFrom(tt[i], latest, r.merged) \in Journals /\ DropFrom(tt[i], latest, r.merged) \subseteq tt[i]
    BY <2>4, DropThins DEF Journals
  <2>6. r = [streams |-> r.streams, merged |-> r.merged]
    <3>1. ~(Len(Tops(tt)) < ListingQuorum)
      BY <1>0, <1>1, <1>3, TopsOf
    <3> QED
      BY <3>1 DEF MergeRound
  <2> DEFINE st == r.streams
             mg == r.merged
  <2> HIDE DEF r, tt
  <2>7. st \in [1..Len(tt) -> Journals] /\ \A i \in 1..Len(tt) : st[i] \subseteq tt[i]
    <3> DEFINE D(i) == DropFrom(tt[i], latest, mg)
    <3>1. st = [i \in 1..Len(tt) |-> D(i)]
      BY <2>3
    <3>2. \A i \in 1..Len(tt) : D(i) \in Journals /\ D(i) \subseteq tt[i]
      BY <2>5
    <3> HIDE DEF D, st
    <3> QED
      BY <3>1, <3>2
  <2>8. st \in Seq(Journals) /\ Len(st) = Len(ss)
    <3> DEFINE q == Len(tt)
    <3>1. q \in Nat /\ st \in [1..q -> Journals] /\ q = Len(ss)
      BY <1>0, <2>4, <2>7
    <3> HIDE DEF q, st
    <3>2. st \in Seq(Journals) /\ Len(st) = q
      BY <3>1
    <3> QED
      BY <3>1, <3>2
  <2>9. \A i \in 1..Len(ss) : st[i] \subseteq ss[i]
    BY <1>0, <2>7
  <2> HIDE DEF st, mg
  <2>10. r = [streams |-> st, merged |-> mg] /\ mg \in Seq(Versions)
    BY <2>2, <2>6 DEF st, mg
  <2>11. r \in MergeStates(ss)
    BY <2>8, <2>9, <2>10 DEF MergeStates
  <2> QED
    BY <2>11 DEF r
<1> QED
  BY <1>1, <1>2, <1>3

MergeStart(ss) == [streams |-> ss, merged |-> <<>>]

MergeStep(g, ss) ==
  [s \in SUBSET (DOMAIN [r \in 1..Rounds(ss) |-> r]) |->
     IF s = {} THEN MergeStart(ss) ELSE MergeRound(g[s \ {Max(s)}])]

\* What every round keeps holds of the result.
LEMMA MergeRule ==
  ASSUME NEW ss, Plain(ss), ListingQuorum \in Nat, ListingQuorum > 0,
         NEW I \in [0..Rounds(ss) -> SUBSET MergeStates(ss)],
         MergeStart(ss) \in I[0],
         \A k \in 1..Rounds(ss) : \A m \in I[k - 1] : MergeRound(m) \in I[k]
  PROVE  \E m \in I[Rounds(ss)] : Merge(ss) = m.merged
<1> DEFINE n == Rounds(ss)
           C == MergeStates(ss)
           step == [k \in 1..n |-> [m \in C |-> MergeRound(m)]]
           F == CHOOSE g : g = MergeStep(g, ss)
<1>1. n \in Nat /\ DOMAIN [r \in 1..n |-> r] = 1..n
  BY RoundsOf DEF Plain
<1>2. MergeStart(ss) \in C
  BY <1>1
<1>3. step \in [1..n -> [C -> C]]
  <2>1. \A m \in C : MergeRound(m) \in C
    BY RoundTyped
  <2> HIDE DEF C
  <2> QED
    BY <2>1
<1> HIDE DEF n
<1>4. \E f : f = MergeStep(f, ss)
  <2> HIDE DEF C
  <2>1. \E f \in [SUBSET (1..n) -> C] : Folds(n, MergeStart(ss), step, f)
    <3> HIDE DEF step
    <3> QED
      BY <1>1, <1>2, <1>3, FoldExists
  <2>2. PICK f \in [SUBSET (1..n) -> C] :
          \A s \in SUBSET (1..n) : f[s] = IF s = {} THEN MergeStart(ss) ELSE step[Max(s)][f[s \ {Max(s)}]]
    <3> HIDE DEF step
    <3> QED
      BY <2>1 DEF Folds
  <2>3. ASSUME NEW s \in SUBSET (1..n), s # {}
        PROVE  step[Max(s)][f[s \ {Max(s)}]] = MergeRound(f[s \ {Max(s)}])
    <3>1. Max(s) \in 1..n /\ s \ {Max(s)} \in SUBSET (1..n)
      BY <1>1, <2>3, MaxInPrefix
    <3>2. f[s \ {Max(s)}] \in C
      BY <3>1
    <3> QED
      BY <3>1, <3>2
  <2> HIDE DEF step
  <2>4. f = [s \in SUBSET (1..n) |-> IF s = {} THEN MergeStart(ss) ELSE MergeRound(f[s \ {Max(s)}])]
    BY <2>2, <2>3
  <2> QED
    BY <1>1, <2>4 DEF MergeStep, n
<1>5. F = MergeStep(F, ss)
  BY <1>4
<1>6. Merge(ss) = F[DOMAIN [r \in 1..n |-> r]].merged
  BY DEF Merge, FoldLeft, MapThenFoldSet, MergeStep, MergeStart, n
<1> HIDE DEF F
<1>7. \A s \in SUBSET (1..n) :
        F[s] = IF s = {} THEN MergeStart(ss) ELSE MergeRound(F[s \ {Max(s)}])
  <2> DEFINE G == MergeStep(F, ss)
  <2>1. \A s \in SUBSET (1..n) :
          G[s] = IF s = {} THEN MergeStart(ss) ELSE MergeRound(F[s \ {Max(s)}])
    BY <1>1 DEF MergeStep, n
  <2>2. F = G
    BY <1>5
  <2> HIDE DEF G
  <2> QED
    BY <2>1, <2>2
<1> DEFINE P == {k \in 0..n : F[1..k] \in I[k]}
<1>8. 0 \in P
  <2>1. 1..0 = {} /\ 0 \in 0..n
    BY <1>1
  <2> QED
    BY <1>7, <2>1
<1>9. ASSUME NEW k \in 1..n, k - 1 \in P PROVE k \in P
  <2>1. k \in Nat /\ k # 0 /\ k <= n
    BY <1>1
  <2>2. 1..k # {} /\ Max(1..k) = k /\ (1..k) \ {k} = 1..(k - 1) /\ 1..k \in SUBSET (1..n)
    BY <1>1, <2>1, PrefixLast
  <2>3. F[1..k] = MergeRound(F[(1..k) \ {Max(1..k)}])
    BY <1>7, <2>2
  <2>4. F[1..k] = MergeRound(F[1..(k - 1)]) /\ F[1..(k - 1)] \in I[k - 1]
    BY <1>9, <2>2, <2>3
  <2>5. F[1..k] \in I[k]
    BY <2>4 DEF n
  <2> QED
    BY <1>1, <2>5
<1>10. n \in P
  <2>1. \A k \in 1..n : k - 1 \in P => k \in P
    BY <1>9
  <2> HIDE DEF P
  <2>2. \A k \in 0..n : k \in P
    BY <1>1, <1>8, <2>1, Climb
  <2> QED
    BY <1>1, <2>2
<1>11. F[1..n] \in I[n] /\ Merge(ss) = F[1..n].merged
  BY <1>1, <1>6, <1>10
<1> QED
  BY <1>11 DEF n

\* Where the merge starts.
LEMMA MergeStarts ==
  ASSUME NEW ss \in Seq(Journals)
  PROVE  MergeStart(ss) \in MergeStates(ss)
<1>1. <<>> \in Seq(Versions)
  BY EmptySeq
<1> QED
  BY <1>1 DEF MergeStart, MergeStates

\* Appending one version.
LEMMA Appended ==
  ASSUME NEW s \in Seq(Versions), NEW x \in Versions
  PROVE  /\ Len(s) \in Nat
         /\ Append(s, x) \in Seq(Versions)
         /\ Len(Append(s, x)) = Len(s) + 1
         /\ \A i \in 1..Len(s) : Append(s, x)[i] = s[i]
         /\ Append(s, x)[Len(s) + 1] = x
         /\ \A i \in 1..(Len(s) + 1) : i \in 1..Len(s) \/ i = Len(s) + 1
BY LenProperties, AppendProperties

\* Each merged version has a copy on a quorum of the streams.
LEMMA MergedBacked ==
  ASSUME NEW ss, Plain(ss), ListingQuorum \in Nat, ListingQuorum > 0
  PROVE  /\ Merge(ss) \in Seq(Versions)
         /\ \A i \in 1..Len(Merge(ss)) :
              Merge(ss)[i] \in Pool(ss) /\ Cardinality(Backing(ss, Merge(ss)[i])) >= ListingQuorum
<1> DEFINE Ok(m) == \A i \in 1..Len(m.merged) :
                      m.merged[i] \in Pool(ss) /\ Cardinality(Backing(ss, m.merged[i])) >= ListingQuorum
           J == {m \in MergeStates(ss) : Ok(m)}
           I == [k \in 0..Rounds(ss) |-> J]
<1>1. Rounds(ss) \in Nat /\ ss \in Seq(Journals)
  BY RoundsOf DEF Plain
<1>2. MergeStart(ss) \in J
  <2>1. MergeStart(ss).merged = <<>> /\ Len(<<>>) = 0
    BY EmptySeq DEF MergeStart
  <2>2. Ok(MergeStart(ss))
    BY <2>1
  <2> HIDE DEF Ok
  <2> QED
    BY <1>1, <2>2, MergeStarts
<1>3. ASSUME NEW m \in J PROVE MergeRound(m) \in J
  <2> DEFINE r == MergeRound(m)
             tt == m.streams
  <2>1. r \in MergeStates(ss)
    BY RoundTyped
  <2>2. m \in MergeStates(ss) /\ Ok(m) /\ m.merged \in Seq(Versions) /\ tt \in Seq(Journals)
    BY DEF MergeStates
  <2>3. Plain(tt) /\ Pool(tt) \subseteq Pool(ss) /\ (\A v : Backing(tt, v) \subseteq Backing(ss, v))
    BY <2>2, ThinnerPlain
  <2>4. Cardinality(Left(tt)) \in Nat
    <3>1. Left(tt) \in SUBSET (1..Len(tt))
      BY DEF Left
    <3> QED
      BY <2>2, <3>1, StreamFacts
  <2>5. CASE Cardinality(Left(tt)) < ListingQuorum
    BY <2>2, <2>5, RoundOver
  <2>6. CASE Cardinality(Left(tt)) >= ListingQuorum
    <3>1. PICK x \in Versions, merges \in BOOLEAN :
            \E latest \in {NoVersion, x} : RoundPicks(m, r, x, latest, merges)
      BY <2>3, <2>6, RoundOf
    <3>2. /\ r.merged = IF merges THEN Append(m.merged, x) ELSE m.merged
          /\ x \in Pool(tt)
          /\ merges => Cardinality(Backing(tt, x)) >= ListingQuorum
      BY <3>1 DEF RoundPicks
    <3>3. merges => Cardinality(Backing(ss, x)) >= ListingQuorum
      <4>1. Backing(ss, x) \in SUBSET (1..Len(ss))
        BY DEF Backing
      <4>2. IsFiniteSet(Backing(ss, x)) /\ Cardinality(Backing(ss, x)) \in Nat
        BY <1>1, <4>1, StreamFacts
      <4>3. Cardinality(Backing(tt, x)) <= Cardinality(Backing(ss, x)) /\ Cardinality(Backing(tt, x)) \in Nat
        BY <2>3, <4>2, FS_Subset, FS_CardinalityType
      <4> QED
        BY <3>2, <4>2, <4>3
    <3>4. Ok(r)
      <4>1. CASE ~merges
        BY <2>2, <3>2, <4>1
      <4>2. CASE merges
        BY <2>2, <2>3, <3>2, <3>3, <4>2, Appended
      <4> QED
        BY <4>1, <4>2
    <3> QED
      BY <2>1, <3>4
  <2> QED
    BY <2>4, <2>5, <2>6
<1>4. I \in [0..Rounds(ss) -> SUBSET MergeStates(ss)] /\ \A k \in 0..Rounds(ss) : I[k] = J
  OBVIOUS
<1> HIDE DEF I, J
<1>5. \A k \in 1..Rounds(ss) : \A m \in I[k - 1] : MergeRound(m) \in I[k]
  <2>1. \A k \in 1..Rounds(ss) : k \in 0..Rounds(ss) /\ k - 1 \in 0..Rounds(ss)
    BY <1>1
  <2> QED
    BY <1>3, <1>4, <2>1
<1>6. 0 \in 0..Rounds(ss) /\ Rounds(ss) \in 0..Rounds(ss)
  BY <1>1
<1>7. \E m \in I[Rounds(ss)] : Merge(ss) = m.merged
  BY <1>2, <1>4, <1>5, <1>6, MergeRule
<1>8. PICK m \in J : Merge(ss) = m.merged
  BY <1>4, <1>6, <1>7
<1> QED
  BY <1>8 DEF J, MergeStates

\* The versions of a journal of which DropFrom takes the newest.
Doomed(j, latest, merged) ==
  {v \in j : \/ v.time > latest.time
             \/ latest # NoVersion /\ v.id = latest.id
             \/ \E m \in Range(merged) : m.id = v.id}

\* DropFrom takes the newest of them.
LEMMA Dropped ==
  ASSUME NEW j \in Journals, NEW latest, NEW merged
  PROVE  LET c == Doomed(j, latest, merged)
             k == DropFrom(j, latest, merged) IN
         /\ c = {} => k = j
         /\ c # {} => Newest(c) \in c /\ k = j \ {Newest(c)} /\ \A w \in c : w.time <= Newest(c).time
<1> DEFINE c == Doomed(j, latest, merged)
<1>1. c \in Journals
  BY DEF Doomed, Journals
<1>2. DropFrom(j, latest, merged) = IF c = {} THEN j ELSE j \ {Newest(c)}
  BY DEF DropFrom, Doomed
<1> HIDE DEF c
<1>3. c # {} => Newest(c) \in c /\ \A w \in c : w.time <= Newest(c).time
  BY <1>1, NewestVersion
<1> QED
  BY <1>2, <1>3 DEF c

\* The versions of a sequence.
LEMMA MergedRange ==
  ASSUME NEW s \in Seq(Versions)
  PROVE  Range(s) = {s[i] : i \in 1..Len(s)} /\ Range(s) \subseteq Versions
<1>1. DOMAIN s = 1..Len(s) /\ \A i \in 1..Len(s) : s[i] \in Versions
  BY LenProperties, ElementOfSeq
<1> QED
  BY <1>1 DEF Range

\* No two versions are rivals of each other.
Unrivalled(ss) == \A id : ~Rivals(Pool(ss), id)

\* A round without rivals takes the newest version there is, and a version that
\* is merged is gone from every stream, with all that have its id.
LEMMA UnrivalledRound ==
  ASSUME NEW m, Plain(m.streams), m.merged \in Seq(Versions), NEW r, NEW x \in Versions,
         NEW merges \in BOOLEAN, NEW latest \in {NoVersion, x},
         RoundPicks(m, r, x, latest, merges), ~Rivals(Pool(m.streams), x.id)
  PROVE  /\ \A v \in Pool(m.streams) : v.time <= x.time
         /\ (/\ merges
             /\ \A v \in Pool(m.streams) : \A i \in 1..Len(m.merged) : m.merged[i].id # v.id)
            => \A i \in 1..Len(m.streams) : \A v \in r.streams[i] : v.id # x.id
<1> DEFINE tt == m.streams
<1>1. /\ tt \in Seq(Journals) /\ \A i \in 1..Len(tt) : tt[i] \in Journals
      /\ \A v, w \in Pool(tt) : v.time = w.time => v = w
      /\ \A i \in 1..Len(tt) : \A v, w \in tt[i] : v.id = w.id => v = w
  BY StreamFacts DEF Plain
<1>2. /\ r.merged = IF merges THEN Append(m.merged, x) ELSE m.merged
      /\ r.streams = [i \in 1..Len(tt) |-> DropFrom(tt[i], latest, r.merged)]
      /\ latest = NoVersion => merges /\ \A i \in Left(tt) : Newest(tt[i]) = x
      /\ \A i \in Left(tt) : Newest(tt[i]).time <= x.time
  BY DEF RoundPicks
<1> HIDE DEF tt
<1>3. \A i \in 1..Len(tt) : \A v \in tt[i] : /\ v \in Pool(tt) /\ v \in Versions
                                             /\ i \in Left(tt) /\ v.time <= Newest(tt[i]).time
  BY <1>1, NewestVersion DEF Pool, Left, Journals
<1>4. \A i \in 1..Len(tt) : \A v \in tt[i] : v.time <= x.time
  <2> SUFFICES ASSUME NEW i \in 1..Len(tt), NEW v \in tt[i] PROVE v.time <= x.time
    OBVIOUS
  <2>1. v.time <= Newest(tt[i]).time /\ Newest(tt[i]).time <= x.time /\ v \in Versions
    BY <1>2, <1>3
  <2>2. Newest(tt[i]) \in Versions
    BY <1>1, NewestVersion DEF Journals
  <2>3. v.time \in Int /\ Newest(tt[i]).time \in Int /\ x.time \in Int
    BY <2>1, <2>2, VersionTypes DEF Times
  <2> QED
    BY <2>1, <2>3
<1>5. ASSUME merges,
             \A v \in Pool(tt) : \A i \in 1..Len(m.merged) : m.merged[i].id # v.id,
             NEW i \in 1..Len(tt), NEW v \in r.streams[i], v.id = x.id
      PROVE  FALSE
  <2> DEFINE c == Doomed(tt[i], latest, r.merged)
             k == DropFrom(tt[i], latest, r.merged)
  <2>1. r.streams[i] = k /\ tt[i] \in Journals
    BY <1>1, <1>2
  <2>2. v \in tt[i]
    BY <2>1, DropThins
  <2>3. r.merged = Append(m.merged, x) /\ r.merged \in Seq(Versions) /\ x \in Range(r.merged)
    <3>1. r.merged = Append(m.merged, x)
      BY <1>2, <1>5
    <3>2. Append(m.merged, x) \in Seq(Versions) /\ Len(m.merged) \in Nat
          /\ Len(Append(m.merged, x)) = Len(m.merged) + 1 /\ Append(m.merged, x)[Len(m.merged) + 1] = x
      BY Appended
    <3>3. Len(m.merged) + 1 \in 1..Len(Append(m.merged, x))
      BY <3>2
    <3> QED
      BY <3>1, <3>2, <3>3, MergedRange
  <2>4. v \in c
    BY <1>5, <2>2, <2>3 DEF Doomed
  <2>5. Newest(c) \in c /\ k = tt[i] \ {Newest(c)} /\ \A w \in c : w.time <= Newest(c).time
    BY <2>1, <2>4, Dropped
  <2>6. Newest(c) \in tt[i]
    BY <2>5 DEF Doomed
  <2>7. v # Newest(c)
    BY <1>5, <2>1, <2>5
  <2>8. CASE latest = NoVersion
    <3>1. c = tt[i]
      <4>1. \A w \in tt[i] : w.time > latest.time
        BY <1>3, <2>8, VersionTypes DEF NoVersion, Times
      <4> QED
        BY <4>1 DEF Doomed
    <3>2. Newest(c) = x
      BY <1>2, <1>3, <2>2, <2>8, <3>1
    <3> QED
      BY <1>1, <1>5, <2>2, <2>6, <2>7, <3>2
  <2>9. CASE latest = x
    <3>1. \A w \in c : w.id = x.id
      <4> SUFFICES ASSUME NEW w \in c PROVE w.id = x.id
        OBVIOUS
      <4>1. w \in tt[i] /\ w \in Versions /\ w \in Pool(tt) /\ w.time <= x.time
        BY <1>3, <1>4 DEF Doomed
      <4>2. ~(w.time > latest.time)
        BY <2>9, <4>1, VersionTypes DEF Times
      <4>3. (latest # NoVersion /\ w.id = latest.id) \/ \E y \in Range(r.merged) : y.id = w.id
        BY <4>2 DEF Doomed
      <4>4. CASE \E y \in Range(r.merged) : y.id = w.id
        <5>0. Range(r.merged) = {r.merged[h] : h \in 1..Len(r.merged)}
          BY <2>3, MergedRange
        <5>1. PICK h \in 1..Len(r.merged) : r.merged[h].id = w.id
          BY <4>4, <5>0
        <5>2. h \in 1..Len(m.merged) \/ r.merged[h] = x
          BY <2>3, Appended
        <5>3. CASE h \in 1..Len(m.merged)
          BY <1>5, <2>3, <4>1, <5>1, <5>3, Appended
        <5> QED
          BY <5>1, <5>2, <5>3
      <4> QED
        BY <2>9, <4>3, <4>4
    <3> QED
      BY <1>1, <1>5, <2>2, <2>5, <2>6, <2>7, <3>1
  <2> QED
    BY <2>8, <2>9
<1>6. \A v \in Pool(tt) : v.time <= x.time
  BY <1>4 DEF Pool
<1>7. (/\ merges
       /\ \A v \in Pool(tt) : \A i \in 1..Len(m.merged) : m.merged[i].id # v.id)
      => \A i \in 1..Len(tt) : \A v \in r.streams[i] : v.id # x.id
  BY <1>5
<1> QED
  BY <1>6, <1>7 DEF tt

\* A journal as a sequence: each id once, newest first.
IsJournal(s) == \A i, k \in 1..Len(s) : i < k => s[i].id # s[k].id /\ s[i].time > s[k].time

\* What is still in the streams is older than what has been merged.
Ordered(m) ==
  /\ IsJournal(m.merged)
  /\ \A i \in 1..Len(m.merged) : \A v \in Pool(m.streams) :
       v.time < m.merged[i].time /\ v.id # m.merged[i].id

\* A round without rivals keeps this.
LEMMA OrderedRound ==
  ASSUME NEW ss, Plain(ss), Unrivalled(ss), ListingQuorum \in Nat, ListingQuorum > 0,
         NEW m \in MergeStates(ss), Ordered(m)
  PROVE  Ordered(MergeRound(m))
<1> DEFINE r == MergeRound(m)
           tt == m.streams
<1>1. m.merged \in Seq(Versions) /\ tt \in Seq(Journals)
  BY DEF MergeStates
<1>2. Plain(tt) /\ Pool(tt) \subseteq Pool(ss)
  BY ThinnerPlain
<1>3. Cardinality(Left(tt)) \in Nat
  <2>1. Left(tt) \in SUBSET (1..Len(tt))
    BY DEF Left
  <2> QED
    BY <1>1, <2>1, StreamFacts
<1>4. CASE Cardinality(Left(tt)) < ListingQuorum
  BY <1>1, <1>4, RoundOver
<1>5. CASE Cardinality(Left(tt)) >= ListingQuorum
  <2>0. PICK x \in Versions, merges \in BOOLEAN :
          \E latest \in {NoVersion, x} : RoundPicks(m, r, x, latest, merges)
    BY <1>2, <1>5, RoundOf
  <2>1. PICK latest \in {NoVersion, x} : RoundPicks(m, r, x, latest, merges)
    BY <2>0
  <2>2. /\ r.merged = IF merges THEN Append(m.merged, x) ELSE m.merged
        /\ r.streams = [i \in 1..Len(tt) |-> DropFrom(tt[i], latest, r.merged)]
        /\ x \in Pool(tt)
    BY <2>1 DEF RoundPicks
  <2>3. ~Rivals(Pool(tt), x.id)
    BY <1>2 DEF Unrivalled, Rivals
  <2>4. \A v \in Pool(tt) : v.time <= x.time
    BY <1>1, <1>2, <2>1, <2>3, UnrivalledRound
  <2>5. \A v \in Pool(tt) : \A i \in 1..Len(m.merged) : m.merged[i].id # v.id
    BY DEF Ordered
  <2>6. merges => \A i \in 1..Len(tt) : \A v \in r.streams[i] : v.id # x.id
    BY <1>1, <1>2, <2>1, <2>3, <2>5, UnrivalledRound
  <2>7. Len(tt) \in Nat
    BY <1>1, StreamFacts
  <2>8. Len(r.streams) = Len(tt)
    <3> DEFINE st == r.streams
    <3> HIDE DEF r
    <3>1. Len([i \in 1..Len(tt) |-> DropFrom(tt[i], latest, r.merged)]) = Len(tt)
      BY <2>7
    <3> QED
      BY <2>2, <3>1
  <2>9. \A i \in 1..Len(tt) : r.streams[i] \subseteq tt[i]
    <3> HIDE DEF r
    <3> QED
      BY <2>2, DropThins
  <2>10. Pool(r.streams) \subseteq Pool(tt)
    BY <2>8, <2>9 DEF Pool
  <2>11. merges => \A v \in Pool(r.streams) : v.id # x.id /\ v.time < x.time
    <3> SUFFICES ASSUME merges, NEW v \in Pool(r.streams) PROVE v.id # x.id /\ v.time < x.time
      OBVIOUS
    <3>1. v.id # x.id
      BY <2>6, <2>8 DEF Pool
    <3>2. v \in Pool(tt) /\ v.time # x.time
      BY <1>2, <2>2, <2>10, <3>1 DEF Plain
    <3>3. v \in Versions
      <4>1. \A i \in 1..Len(tt) : tt[i] \in Journals
        BY <1>1, StreamFacts
      <4> QED
        BY <3>2, <4>1 DEF Pool, Journals
    <3> QED
      BY <2>4, <3>1, <3>2, <3>3, VersionTypes DEF Times
  <2> HIDE DEF r, tt
  <2>12. ASSUME ~merges PROVE Ordered(r)
    BY <2>2, <2>10, <2>12 DEF Ordered, tt
  <2>13. ASSUME merges PROVE Ordered(r)
    <3> DEFINE a == m.merged
               b == r.merged
               n == Len(a)
    <3>1. b = Append(a, x)
      BY <2>2, <2>13
    <3>2. /\ n \in Nat /\ Len(b) = n + 1 /\ b[n + 1] = x
          /\ \A i \in 1..n : b[i] = a[i]
          /\ \A i \in 1..(n + 1) : i \in 1..n \/ i = n + 1
      BY <1>1, <3>1, Appended
    <3>3. /\ IsJournal(a)
          /\ \A i \in 1..n : \A v \in Pool(tt) : v.time < a[i].time /\ v.id # a[i].id
      BY DEF Ordered, tt
    <3>4. \A i \in 1..n : a[i].time \in Int /\ a[i].id # x.id /\ a[i].time > x.time
      <4>1. \A i \in 1..n : a[i] \in Versions
        BY <1>1, ElementOfSeq
      <4>2. \A i \in 1..n : x.time < a[i].time /\ x.id # a[i].id
        BY <2>2, <3>3
      <4>3. \A v \in Versions : v.time \in Int
        BY VersionTypes DEF Times
      <4> HIDE DEF a, n
      <4> QED
        BY <4>1, <4>2, <4>3
    <3> HIDE DEF a, b
    <3>5. IsJournal(b)
      <4> SUFFICES ASSUME NEW i \in 1..(n + 1), NEW k \in 1..(n + 1), i < k
                   PROVE  b[i].id # b[k].id /\ b[i].time > b[k].time
        BY <3>2 DEF IsJournal
      <4> HIDE DEF n
      <4>1. i \in 1..n
        BY <3>2
      <4>2. CASE k \in 1..n
        <5>1. a[i].id # a[k].id /\ a[i].time > a[k].time
          BY <3>3, <4>1, <4>2 DEF IsJournal, n
        <5> QED
          BY <3>2, <4>1, <4>2, <5>1
      <4>3. CASE k = n + 1
        BY <3>2, <3>4, <4>1, <4>3
      <4> QED
        BY <3>2, <4>2, <4>3
    <3>6. \A i \in 1..(n + 1) : \A v \in Pool(r.streams) : v.time < b[i].time /\ v.id # b[i].id
      <4> HIDE DEF n
      <4> QED
        BY <2>10, <2>11, <2>13, <3>2, <3>3
    <3> QED
      BY <3>2, <3>5, <3>6 DEF Ordered, b
  <2>14. Ordered(r)
    BY <2>12, <2>13
  <2> QED
    BY <2>14 DEF r
<1> QED
  BY <1>3, <1>4, <1>5

\* Without rivals the merged versions are a journal.
LEMMA MergedOrdered ==
  ASSUME NEW ss, Plain(ss), Unrivalled(ss), ListingQuorum \in Nat, ListingQuorum > 0
  PROVE  IsJournal(Merge(ss))
<1> DEFINE J == {m \in MergeStates(ss) : Ordered(m)}
           I == [k \in 0..Rounds(ss) |-> J]
<1>1. Rounds(ss) \in Nat /\ ss \in Seq(Journals)
  BY RoundsOf DEF Plain
<1>2. MergeStart(ss) \in J
  <2>1. MergeStart(ss).merged = <<>> /\ Len(<<>>) = 0
    BY EmptySeq DEF MergeStart
  <2>2. Ordered(MergeStart(ss))
    BY <2>1 DEF Ordered, IsJournal
  <2> QED
    BY <1>1, <2>2, MergeStarts
<1>3. ASSUME NEW m \in J PROVE MergeRound(m) \in J
  BY RoundTyped, OrderedRound
<1>4. I \in [0..Rounds(ss) -> SUBSET MergeStates(ss)] /\ \A k \in 0..Rounds(ss) : I[k] = J
  OBVIOUS
<1> HIDE DEF I, J
<1>5. \A k \in 1..Rounds(ss) : \A m \in I[k - 1] : MergeRound(m) \in I[k]
  <2>1. \A k \in 1..Rounds(ss) : k \in 0..Rounds(ss) /\ k - 1 \in 0..Rounds(ss)
    BY <1>1
  <2> QED
    BY <1>3, <1>4, <2>1
<1>6. 0 \in 0..Rounds(ss) /\ Rounds(ss) \in 0..Rounds(ss)
  BY <1>1
<1>7. \E m \in I[Rounds(ss)] : Merge(ss) = m.merged
  BY <1>2, <1>4, <1>5, <1>6, MergeRule
<1>8. PICK m \in J : Merge(ss) = m.merged
  BY <1>4, <1>6, <1>7
<1> QED
  BY <1>8 DEF J, Ordered

\* A round that is not over drops something.
LEMMA RoundDrops ==
  ASSUME NEW m, Plain(m.streams), NEW r, NEW x \in Versions,
         NEW merges \in BOOLEAN, NEW latest \in {NoVersion, x},
         RoundPicks(m, r, x, latest, merges)
  PROVE  /\ Len(r.streams) = Len(m.streams)
         /\ Cardinality(Items(r.streams)) \in Nat
         /\ Cardinality(Items(r.streams)) + 1 <= Cardinality(Items(m.streams))
<1> DEFINE tt == m.streams
           D(i) == DropFrom(tt[i], latest, r.merged)
<1>1. /\ tt \in Seq(Journals) /\ Len(tt) \in Nat /\ \A i \in 1..Len(tt) : tt[i] \in Journals
  BY StreamFacts DEF Plain
<1>2. /\ r.streams = [i \in 1..Len(tt) |-> DropFrom(tt[i], latest, r.merged)]
      /\ Topped(tt, x) # {}
  BY DEF RoundPicks
<1> HIDE DEF tt
<1>3. Len(r.streams) = Len(tt) /\ \A i \in 1..Len(tt) : r.streams[i] = D(i) /\ D(i) \subseteq tt[i]
  <2>1. r.streams = [i \in 1..Len(tt) |-> D(i)] /\ \A i \in 1..Len(tt) : D(i) \subseteq tt[i]
    BY <1>2, DropThins
  <2> HIDE DEF D
  <2>2. Len([i \in 1..Len(tt) |-> D(i)]) = Len(tt)
    BY <1>1
  <2> QED
    BY <2>1, <2>2
<1>4. PICK h \in 1..Len(tt) : tt[h] # {} /\ Newest(tt[h]) = x
  BY <1>2 DEF Topped, Left
<1> DEFINE c == Doomed(tt[h], latest, r.merged)
<1>5. x \in tt[h]
  BY <1>1, <1>4, NewestVersion
<1>6. x \in c
  <2>1. latest = NoVersion => x.time > latest.time
    BY VersionTypes DEF NoVersion, Times
  <2>2. latest = x => latest # NoVersion
    BY VersionTypes
  <2> QED
    BY <1>5, <2>1, <2>2 DEF Doomed
<1>7. Newest(c) \in tt[h] /\ Newest(c) \notin r.streams[h]
  <2>1. Newest(c) \in c /\ D(h) = tt[h] \ {Newest(c)}
    BY <1>1, <1>6, Dropped
  <2>2. c \subseteq tt[h]
    BY DEF Doomed
  <2> QED
    BY <1>3, <2>1, <2>2
<1> DEFINE w == Newest(c)
<1> HIDE DEF D, c
<1>8. w \in Versions
  BY <1>1, <1>7 DEF Journals
<1>9. Items(r.streams) \subseteq Items(tt)
  BY <1>3 DEF Items, ItemsUpTo
<1>10. <<h, w>> \in Items(tt) /\ <<h, w>> \notin Items(r.streams)
  BY <1>3, <1>7, <1>8 DEF Items, ItemsUpTo
<1> DEFINE A == Items(r.streams)
           B == Items(tt)
<1>11. IsFiniteSet(B)
  BY <1>1, RoundsOf
<1> HIDE DEF A, B, w
<1>12. IsFiniteSet(A) /\ Cardinality(A) <= Cardinality(B) /\ (Cardinality(A) = Cardinality(B) => A = B)
  BY <1>9, <1>11, FS_Subset DEF A, B
<1>13. Cardinality(A) \in Nat /\ Cardinality(B) \in Nat
  BY <1>11, <1>12, FS_CardinalityType
<1>14. A # B
  BY <1>10 DEF A, B
<1> QED
  BY <1>3, <1>12, <1>13, <1>14 DEF A, B, tt

\* The streams that have v.
Having(ss, v) == {i \in 1..Len(ss) : v \in ss[i]}

\* v is the only version with its id, and a quorum of the streams have it; if
\* there are rivals among other versions, all have it.
Safe(ss, v) ==
  /\ v \in Versions
  /\ \A w \in Pool(ss) : w.id = v.id => w = v
  /\ Cardinality(Having(ss, v)) >= ListingQuorum
  /\ Unrivalled(ss) \/ Having(ss, v) = 1..Len(ss)

\* Such a version leaves the streams only by being merged.
LEMMA SafeRound ==
  ASSUME NEW ss, Plain(ss), NEW v, Safe(ss, v), ListingQuorum \in Nat, ListingQuorum > 0,
         NEW m \in MergeStates(ss), Range(m.merged) \subseteq Pool(ss),
         \A i \in Having(ss, v) : v \in m.streams[i],
         NEW r, NEW x \in Versions, NEW merges \in BOOLEAN, NEW latest \in {NoVersion, x},
         RoundPicks(m, r, x, latest, merges), v \notin Range(r.merged),
         NEW i \in Having(ss, v)
  PROVE  v \in r.streams[i]
<1> DEFINE tt == m.streams
           K == Having(ss, v)
<1>1. m.merged \in Seq(Versions) /\ tt \in Seq(Journals) /\ Len(tt) = Len(ss)
  BY DEF MergeStates
<1>2. Plain(tt) /\ Pool(tt) \subseteq Pool(ss)
  BY ThinnerPlain
<1>3. /\ r.merged = IF merges THEN Append(m.merged, x) ELSE m.merged
      /\ r.streams = [k \in 1..Len(tt) |-> DropFrom(tt[k], latest, r.merged)]
      /\ x \in Pool(tt)
      /\ Topped(tt, x) # {}
      /\ latest = NoVersion => merges /\ \A k \in Left(tt) : Newest(tt[k]) = x
      /\ ~Rivals(Pool(tt), x.id) =>
           /\ \A k \in Left(tt) : Newest(tt[k]).time <= x.time
           /\ Cardinality(Topped(tt, x)) >= ListingQuorum => merges
  BY DEF RoundPicks
<1>4. /\ v \in Versions /\ Cardinality(K) >= ListingQuorum
      /\ \A w \in Pool(ss) : w.id = v.id => w = v
      /\ Unrivalled(ss) \/ K = 1..Len(ss)
  BY DEF Safe
<1>5. K \subseteq 1..Len(tt) /\ \A k \in K : v \in tt[k]
  BY <1>1 DEF Having
<1> HIDE DEF tt, K
<1>6. i \in 1..Len(tt) /\ v \in tt[i] /\ tt[i] \in Journals /\ Len(tt) \in Nat
  BY <1>1, <1>5, StreamFacts DEF K
<1>7. \A k \in 1..Len(tt) : \A w \in tt[k] :
        /\ w \in Pool(tt) /\ w \in Versions /\ k \in Left(tt)
        /\ Newest(tt[k]) \in tt[k] /\ w.time <= Newest(tt[k]).time
  <2>1. \A k \in 1..Len(tt) : tt[k] \in Journals
    BY <1>1, StreamFacts
  <2> QED
    BY <2>1, NewestVersion DEF Pool, Left, Journals
<1>8. r.merged \in Seq(Versions) /\ (merges => x \in Range(r.merged))
      /\ \A w \in Range(r.merged) : w \in Range(m.merged) \/ w = x
  <2>1. CASE ~merges
    BY <1>1, <1>3, <2>1
  <2>2. CASE merges
    <3> DEFINE a == m.merged
               n == Len(a)
               b == Append(a, x)
    <3>1. /\ b \in Seq(Versions) /\ n \in Nat /\ Len(b) = n + 1 /\ b[n + 1] = x
          /\ \A k \in 1..n : b[k] = a[k]
          /\ \A k \in 1..(n + 1) : k \in 1..n \/ k = n + 1
      BY <1>1, Appended
    <3>2. Range(a) = {a[k] : k \in 1..n} /\ Range(b) = {b[k] : k \in 1..Len(b)}
      BY <1>1, <3>1, MergedRange
    <3>3. r.merged = b
      BY <1>3, <2>2
    <3> HIDE DEF a, b, n
    <3>4. n + 1 \in 1..(n + 1)
      BY <3>1
    <3>5. x \in Range(b) /\ \A w \in Range(b) : w \in Range(a) \/ w = x
      BY <3>1, <3>2, <3>4
    <3> QED
      BY <3>1, <3>3, <3>5 DEF a
  <2> QED
    BY <2>1, <2>2
<1>9. \A w \in Range(r.merged) : w.id # v.id
  BY <1>2, <1>3, <1>4, <1>8
<1>10. ~(merges /\ x = v)
  BY <1>8
<1> DEFINE c == Doomed(tt[i], latest, r.merged)
<1>11. ASSUME v \notin r.streams[i] PROVE FALSE
  <2>1. v = Newest(c) /\ v \in c
    <3>1. r.streams[i] = DropFrom(tt[i], latest, r.merged)
      BY <1>3, <1>6
    <3>2. c = {} => r.streams[i] = tt[i]
      BY <1>6, <3>1, Dropped
    <3>3. c # {} => Newest(c) \in c /\ r.streams[i] = tt[i] \ {Newest(c)}
      BY <1>6, <3>1, Dropped
    <3> QED
      BY <1>6, <1>11, <3>2, <3>3
  <2>2. v.time > latest.time \/ (latest # NoVersion /\ v.id = latest.id)
    BY <1>9, <2>1 DEF Doomed
  <2>3. CASE latest = NoVersion
    <3>1. c = tt[i]
      <4>1. \A w \in tt[i] : w.time > latest.time
        BY <1>6, <1>7, <2>3, VersionTypes DEF NoVersion, Times
      <4> QED
        BY <4>1 DEF Doomed
    <3>2. Newest(tt[i]) = x /\ merges
      BY <1>3, <1>6, <1>7, <2>3
    <3> QED
      BY <1>10, <2>1, <3>1, <3>2
  <2>4. CASE latest = x /\ v.time > x.time
    <3>1. v.time \in Int /\ x.time \in Int
      BY <1>4, VersionTypes DEF Times
    <3>2. CASE Unrivalled(ss)
      <4>1. ~Rivals(Pool(tt), x.id)
        BY <1>2, <3>2 DEF Unrivalled, Rivals
      <4>2. Newest(tt[i]).time <= x.time /\ v.time <= Newest(tt[i]).time /\ Newest(tt[i]) \in Versions
        BY <1>3, <1>6, <1>7, <4>1
      <4>3. Newest(tt[i]).time \in Int
        BY <4>2, VersionTypes DEF Times
      <4> QED
        BY <2>4, <3>1, <4>2, <4>3
    <3>3. CASE K = 1..Len(ss)
      <4>1. PICK h \in 1..Len(tt) : Newest(tt[h]) = x
        BY <1>3 DEF Topped, Left
      <4>2. v \in tt[h]
        BY <1>1, <1>5, <3>3 DEF tt
      <4>3. v.time <= x.time
        BY <1>7, <4>1, <4>2
      <4> QED
        BY <2>4, <3>1, <4>3
    <3> QED
      BY <1>4, <3>2, <3>3
  <2>5. CASE latest = x /\ v.id = x.id
    <3>1. x = v
      BY <1>2, <1>3, <1>4, <2>5
    <3>2. ~Rivals(Pool(tt), x.id)
      BY <1>2, <1>4, <3>1 DEF Rivals
    <3>3. ASSUME NEW k \in K PROVE k \in Topped(tt, x)
      <4>1. /\ k \in Left(tt) /\ Newest(tt[k]) \in tt[k] /\ k \in 1..Len(tt)
            /\ v.time <= Newest(tt[k]).time /\ v \in Pool(tt)
        BY <1>5, <1>7
      <4>2. Newest(tt[k]).time <= x.time /\ Newest(tt[k]) \in Versions /\ Newest(tt[k]) \in Pool(tt)
        BY <1>3, <1>7, <3>2, <4>1
      <4>3. Newest(tt[k]).time = v.time
        BY <1>4, <3>1, <4>1, <4>2, VersionTypes DEF Times
      <4>4. Newest(tt[k]) = x
        BY <1>2, <3>1, <4>1, <4>2, <4>3 DEF Plain
      <4> QED
        BY <4>1, <4>4 DEF Topped
    <3>4. Cardinality(Topped(tt, x)) >= ListingQuorum
      <4>1. Topped(tt, x) \in SUBSET (1..Len(tt))
        BY DEF Topped, Left
      <4>2. IsFiniteSet(Topped(tt, x)) /\ Cardinality(Topped(tt, x)) \in Nat
        BY <1>1, <4>1, StreamFacts
      <4>3. K \subseteq Topped(tt, x)
        BY <3>3
      <4>4. Cardinality(K) <= Cardinality(Topped(tt, x)) /\ Cardinality(K) \in Nat
        BY <4>2, <4>3, FS_Subset, FS_CardinalityType
      <4> QED
        BY <1>4, <4>2, <4>4
    <3> QED
      BY <1>3, <1>10, <3>1, <3>2, <3>4
  <2> QED
    BY <2>2, <2>3, <2>4, <2>5
<1> QED
  BY <1>11

\* The merge of streams in which v is safe either has v already, or has not
\* touched it and has as many rounds left as there are versions.
KeepsAt(ss, v, k, m) ==
  /\ Range(m.merged) \subseteq Pool(ss)
  /\ \/ v \in Range(m.merged)
     \/ /\ \A i \in Having(ss, v) : v \in m.streams[i]
        /\ Cardinality(Items(m.streams)) + k <= Rounds(ss)

\* Appending adds one version.
LEMMA RangeAppended ==
  ASSUME NEW s \in Seq(Versions), NEW x \in Versions
  PROVE  Range(Append(s, x)) = Range(s) \cup {x}
<1> DEFINE n == Len(s)
           b == Append(s, x)
<1>1. /\ b \in Seq(Versions) /\ n \in Nat /\ Len(b) = n + 1 /\ b[n + 1] = x
      /\ \A k \in 1..n : b[k] = s[k]
      /\ \A k \in 1..(n + 1) : k \in 1..n \/ k = n + 1
  BY Appended
<1>2. Range(s) = {s[k] : k \in 1..n} /\ Range(b) = {b[k] : k \in 1..Len(b)}
  BY <1>1, MergedRange
<1> HIDE DEF b, n
<1>3. n + 1 \in 1..(n + 1) /\ \A k \in 1..n : k \in 1..(n + 1)
  BY <1>1
<1>4. Range(b) = Range(s) \cup {x}
  BY <1>1, <1>2, <1>3
<1> QED
  BY <1>4 DEF b

\* A round keeps this.
LEMMA KeepsRound ==
  ASSUME NEW ss, Plain(ss), NEW v, Safe(ss, v), ListingQuorum \in Nat, ListingQuorum > 0,
         NEW k \in Nat, k # 0, Rounds(ss) \in Nat,
         NEW m \in MergeStates(ss), KeepsAt(ss, v, k - 1, m)
  PROVE  KeepsAt(ss, v, k, MergeRound(m))
<1> DEFINE r == MergeRound(m)
           tt == m.streams
           K == Having(ss, v)
<1>1. m.merged \in Seq(Versions) /\ tt \in Seq(Journals) /\ Len(tt) = Len(ss)
  BY DEF MergeStates
<1>2. Plain(tt) /\ Pool(tt) \subseteq Pool(ss)
  BY ThinnerPlain
<1>3. Cardinality(Left(tt)) \in Nat /\ IsFiniteSet(Left(tt))
  <2>1. Left(tt) \in SUBSET (1..Len(tt))
    BY DEF Left
  <2> QED
    BY <1>1, <2>1, StreamFacts
<1>4. Range(m.merged) \subseteq Pool(ss)
  BY DEF KeepsAt
<1>5. ASSUME Cardinality(Left(tt)) < ListingQuorum PROVE KeepsAt(ss, v, k, r)
  <2>1. r = m
    BY <1>1, <1>5, RoundOver
  <2>2. v \in Range(m.merged)
    <3> SUFFICES ASSUME \A i \in K : v \in tt[i] PROVE FALSE
      BY DEF KeepsAt
    <3>1. K \subseteq Left(tt)
      BY <1>1 DEF Left, Having
    <3>2. Cardinality(K) <= Cardinality(Left(tt)) /\ Cardinality(K) \in Nat
      BY <1>3, <3>1, FS_Subset, FS_CardinalityType
    <3>3. Cardinality(K) >= ListingQuorum
      BY DEF Safe
    <3> HIDE DEF K, tt
    <3> QED
      BY <1>3, <1>5, <3>2, <3>3
  <2> QED
    BY <1>4, <2>1, <2>2 DEF KeepsAt
<1>6. ASSUME Cardinality(Left(tt)) >= ListingQuorum PROVE KeepsAt(ss, v, k, r)
  <2>0. PICK x \in Versions, merges \in BOOLEAN :
          \E latest \in {NoVersion, x} : RoundPicks(m, r, x, latest, merges)
    BY <1>2, <1>6, RoundOf
  <2>1. PICK latest \in {NoVersion, x} : RoundPicks(m, r, x, latest, merges)
    BY <2>0
  <2>2. r.merged = (IF merges THEN Append(m.merged, x) ELSE m.merged) /\ x \in Pool(tt)
    BY <2>1 DEF RoundPicks
  <2>3. Range(r.merged) \subseteq Pool(ss) /\ Range(m.merged) \subseteq Range(r.merged)
    BY <1>1, <1>2, <1>4, <2>2, RangeAppended
  <2> HIDE DEF r
  <2>4. CASE v \in Range(r.merged)
    BY <2>3, <2>4 DEF KeepsAt
  <2>5. CASE v \notin Range(r.merged)
    <3>1. /\ \A i \in K : v \in tt[i]
          /\ Cardinality(Items(tt)) + (k - 1) <= Rounds(ss)
      BY <2>3, <2>5 DEF KeepsAt
    <3>2. \A i \in K : v \in r.streams[i]
      BY <1>4, <2>1, <2>5, <3>1, SafeRound
    <3>3. /\ Cardinality(Items(r.streams)) \in Nat
          /\ Cardinality(Items(r.streams)) + 1 <= Cardinality(Items(tt))
      BY <1>2, <2>1, RoundDrops
    <3>4. Cardinality(Items(tt)) \in Nat
      BY <1>1, RoundsOf, FS_CardinalityType
    <3>5. Cardinality(Items(r.streams)) + k <= Rounds(ss)
      BY <3>1, <3>3, <3>4
    <3> QED
      BY <2>3, <3>2, <3>5 DEF KeepsAt
  <2> QED
    BY <2>4, <2>5
<1> QED
  BY <1>3, <1>5, <1>6

\* A safe version is merged.
LEMMA MergeKeeps ==
  ASSUME NEW ss, Plain(ss), NEW v, Safe(ss, v), ListingQuorum \in Nat, ListingQuorum > 0
  PROVE  v \in Range(Merge(ss))
<1> DEFINE I == [k \in 0..Rounds(ss) |-> {m \in MergeStates(ss) : KeepsAt(ss, v, k, m)}]
           n == Rounds(ss)
<1>1. Rounds(ss) \in Nat /\ ss \in Seq(Journals) /\ Rounds(ss) = Cardinality(Items(ss))
  BY RoundsOf DEF Plain
<1>2. MergeStart(ss) \in I[0]
  <2>1. MergeStart(ss).merged = <<>> /\ MergeStart(ss).streams = ss
    BY DEF MergeStart
  <2>2. Range(<<>>) = {}
    <3>1. <<>> \in Seq(Versions) /\ Len(<<>>) = 0
      BY EmptySeq
    <3>2. Range(<<>>) = {<<>>[i] : i \in 1..0}
      BY <3>1, MergedRange
    <3> QED
      BY <3>2
  <2>3. KeepsAt(ss, v, 0, MergeStart(ss))
    <3>1. Cardinality(Items(ss)) + 0 <= Rounds(ss)
      BY <1>1
    <3> QED
      BY <2>1, <2>2, <3>1 DEF KeepsAt, Having
  <2>4. MergeStart(ss) \in MergeStates(ss)
    BY <1>1, MergeStarts
  <2> QED
    BY <1>1, <2>3, <2>4
<1>3. ASSUME NEW k \in 1..n, NEW m \in I[k - 1] PROVE MergeRound(m) \in I[k]
  <2>1. k \in Nat /\ k # 0 /\ k \in 0..n /\ k - 1 \in 0..n
    BY <1>1
  <2>2. m \in MergeStates(ss) /\ KeepsAt(ss, v, k - 1, m)
    BY <2>1
  <2>3. MergeRound(m) \in MergeStates(ss)
    BY <2>2, RoundTyped
  <2>4. KeepsAt(ss, v, k, MergeRound(m))
    BY <1>1, <2>1, <2>2, KeepsRound
  <2> QED
    BY <2>1, <2>3, <2>4
<1>4. I \in [0..Rounds(ss) -> SUBSET MergeStates(ss)] /\ n \in 0..n
  BY <1>1
<1>5. \A m \in I[n] : m \in MergeStates(ss) /\ KeepsAt(ss, v, n, m)
  BY <1>4
<1> HIDE DEF I
<1>6. \E m \in I[Rounds(ss)] : Merge(ss) = m.merged
  BY <1>2, <1>3, <1>4, MergeRule
<1>7. PICK m \in MergeStates(ss) : KeepsAt(ss, v, n, m) /\ Merge(ss) = m.merged
  BY <1>5, <1>6
<1>8. ASSUME \A i \in Having(ss, v) : v \in m.streams[i],
             Cardinality(Items(m.streams)) + n <= n
      PROVE  FALSE
  <2>1. m.streams \in Seq(Journals) /\ Len(m.streams) = Len(ss) /\ Len(ss) \in Nat
    BY <1>1, StreamFacts DEF MergeStates
  <2>2. IsFiniteSet(Items(m.streams)) /\ Cardinality(Items(m.streams)) \in Nat
    BY <2>1, RoundsOf, FS_CardinalityType
  <2>3. Cardinality(Items(m.streams)) = 0
    BY <1>1, <1>8, <2>2
  <2>4. Items(m.streams) = {}
    BY <2>2, <2>3, FS_EmptySet
  <2>5. Having(ss, v) # {}
    <3>1. Cardinality(Having(ss, v)) >= ListingQuorum
      BY DEF Safe
    <3> QED
      BY <3>1, FS_EmptySet
  <2>6. PICK i \in 1..Len(ss) : v \in m.streams[i]
    BY <1>8, <2>5 DEF Having
  <2>7. <<i, v>> \in Items(m.streams)
    BY <2>1, <2>6 DEF Items, ItemsUpTo, Safe
  <2> QED
    BY <2>4, <2>7
<1> QED
  BY <1>7, <1>8 DEF KeepsAt

-----------------------------------------------------------------------------
(* The selected journal. *)

\* Journals that agree are an equivalence too.
LEMMA AgreeEquivalence ==
  /\ \A j : Agree(j, j)
  /\ \A j, k : Agree(j, k) => Agree(k, j)
  /\ \A j, k, l : Agree(j, k) /\ Agree(k, l) => Agree(j, l)
BY MatchesEquivalence DEF Agree

\* Prefer gives one of the two.
LEMMA PreferOne == \A j, k : Prefer(j, k) = j \/ Prefer(j, k) = k
BY DEF Prefer

SelectStart(cs) == [selected |-> cs[1], agree |-> 1]

SelectStates(cs) == [selected : {cs[i] : i \in 1..Len(cs)}, agree : Nat]

\* After k journals beside the first: those that count agree with the selected.
Selecting(cs, k, c) ==
  /\ c \in SelectStates(cs)
  /\ c.agree <= k + 1
  /\ c.agree = k + 1 => \A i \in 1..(k + 1) : Agree(cs[i], c.selected)

\* Select keeps its types.
LEMMA SelectTyped ==
  ASSUME NEW cs, NEW i \in 1..Len(cs), NEW c \in SelectStates(cs)
  PROVE  Select(c, cs[i]) \in SelectStates(cs)
BY PreferOne DEF SelectStates, Select

\* One journal more.
LEMMA SelectingStep ==
  ASSUME NEW cs, Len(cs) \in Nat, NEW k \in 1..(Len(cs) - 1), NEW c, Selecting(cs, k - 1, c)
  PROVE  Selecting(cs, k, Select(c, cs[k + 1]))
<1> DEFINE j == cs[k + 1]
           d == Select(c, j)
<1>1. k \in Nat /\ k # 0 /\ k + 1 \in 1..Len(cs)
  OBVIOUS
<1>2. c \in SelectStates(cs) /\ d \in SelectStates(cs)
  BY <1>1, SelectTyped DEF Selecting
<1>3. c.agree \in Nat /\ c.agree <= k /\ (c.agree = k => \A i \in 1..k : Agree(cs[i], c.selected))
  BY <1>1, <1>2 DEF Selecting, SelectStates
<1>4. CASE Agree(j, c.selected)
  <2>1. d.selected = Prefer(j, c.selected) /\ d.agree = c.agree + 1
    BY <1>4 DEF Select
  <2>2. Agree(c.selected, d.selected) /\ Agree(j, d.selected)
    BY <1>4, <2>1, AgreeEquivalence, PreferOne
  <2>3. ASSUME d.agree = k + 1, NEW i \in 1..(k + 1) PROVE Agree(cs[i], d.selected)
    <3>1. c.agree = k
      BY <1>1, <1>3, <2>1, <2>3
    <3>2. CASE i = k + 1
      BY <2>2, <3>2
    <3>3. CASE i # k + 1
      <4>1. i \in 1..k
        BY <1>1, <3>3
      <4>2. Agree(cs[i], c.selected)
        BY <1>3, <3>1, <4>1
      <4> QED
        BY <2>2, <4>2, AgreeEquivalence
    <3> QED
      BY <3>2, <3>3
  <2> QED
    BY <1>1, <1>2, <1>3, <2>1, <2>3 DEF Selecting
<1>5. CASE ~Agree(j, c.selected)
  <2>1. d = c
    BY <1>5 DEF Select
  <2> QED
    BY <1>1, <1>2, <1>3, <2>1 DEF Selecting
<1> QED
  BY <1>4, <1>5

SelectStep(g, cs) ==
  [s \in SUBSET (DOMAIN Tail(cs)) |->
     IF s = {} THEN SelectStart(cs) ELSE Select(g[s \ {Max(s)}], Tail(cs)[Max(s)])]

\* The selected journal is one of the candidates, and the count is honest.
LEMMA SelectedOf ==
  ASSUME NEW cs \in Seq(Journals), Len(cs) > 0
  PROVE  /\ Selected(cs).selected \in {cs[i] : i \in 1..Len(cs)}
         /\ Selected(cs).agree = Len(cs) => \A i \in 1..Len(cs) : Agree(cs[i], Selected(cs).selected)
<1> DEFINE n == Len(cs) - 1
           T == Tail(cs)
           C == SelectStates(cs)
           step == [k \in 1..n |-> [c \in C |-> Select(c, T[k])]]
           F == CHOOSE g : g = SelectStep(g, cs)
<1>0. Len(cs) \in Nat
  BY StreamFacts
<1>1. n \in Nat /\ n + 1 = Len(cs)
  BY <1>0
<1>2. T \in Seq(Journals) /\ Len(T) = n /\ DOMAIN T = 1..n /\ \A k \in 1..n : T[k] = cs[k + 1] /\ k + 1 \in 1..Len(cs)
  <2>1. cs # <<>>
    BY <1>0, EmptySeq
  <2>2. T \in Seq(Journals) /\ Len(T) = n
    BY <2>1, HeadTailProperties
  <2>3. DOMAIN T = 1..n
    BY <2>2, StreamFacts
  <2>4. \A k \in 1..n : T[k] = cs[k + 1]
    BY <1>0, <1>1, <2>1, HeadTailProperties
  <2>5. \A k \in 1..n : k + 1 \in 1..Len(cs)
    BY <1>0
  <2> QED
    BY <2>2, <2>3, <2>4, <2>5
<1>3. SelectStart(cs) \in C
  <2>1. 1 \in 1..Len(cs)
    BY <1>0
  <2> QED
    BY <2>1 DEF SelectStart, SelectStates
<1>4. step \in [1..n -> [C -> C]]
  <2>1. \A k \in 1..n : \A c \in C : Select(c, T[k]) \in C
    BY <1>2, SelectTyped
  <2> HIDE DEF C, n, T
  <2> QED
    BY <2>1
<1> HIDE DEF n, T, C
<1>5. \E f : f = SelectStep(f, cs)
  <2>0. \E f \in [SUBSET (1..n) -> C] : Folds(n, SelectStart(cs), step, f)
    <3> HIDE DEF step
    <3> QED
      BY <1>1, <1>3, <1>4, FoldExists
  <2>1. PICK f \in [SUBSET (1..n) -> C] :
          \A s \in SUBSET (1..n) : f[s] = IF s = {} THEN SelectStart(cs) ELSE step[Max(s)][f[s \ {Max(s)}]]
    <3> HIDE DEF step
    <3> QED
      BY <2>0 DEF Folds
  <2>2. ASSUME NEW s \in SUBSET (1..n), s # {}
        PROVE  step[Max(s)][f[s \ {Max(s)}]] = Select(f[s \ {Max(s)}], T[Max(s)])
    <3>1. Max(s) \in 1..n /\ s \ {Max(s)} \in SUBSET (1..n)
      BY <1>1, <2>2, MaxInPrefix
    <3>2. f[s \ {Max(s)}] \in C
      BY <3>1
    <3> QED
      BY <3>1, <3>2
  <2> HIDE DEF step
  <2>3. f = [s \in SUBSET (1..n) |->
               IF s = {} THEN SelectStart(cs) ELSE Select(f[s \ {Max(s)}], T[Max(s)])]
    BY <2>1, <2>2
  <2> QED
    BY <1>2, <2>3 DEF SelectStep, T
<1>6. F = SelectStep(F, cs)
  BY <1>5
<1>7. Selected(cs) = F[DOMAIN Tail(cs)]
  BY DEF Selected, FoldLeft, MapThenFoldSet, SelectStart, SelectStep
<1> HIDE DEF F
<1>8. \A s \in SUBSET (1..n) :
        F[s] = IF s = {} THEN SelectStart(cs) ELSE Select(F[s \ {Max(s)}], T[Max(s)])
  <2> DEFINE G == SelectStep(F, cs)
  <2>1. \A s \in SUBSET (1..n) :
          G[s] = IF s = {} THEN SelectStart(cs) ELSE Select(F[s \ {Max(s)}], T[Max(s)])
    BY <1>2 DEF SelectStep, T
  <2>2. F = G
    BY <1>6
  <2> HIDE DEF G
  <2> QED
    BY <2>1, <2>2
<1> DEFINE P == {k \in 0..n : Selecting(cs, k, F[1..k])}
<1>9. 0 \in P
  <2>1. 1..0 = {} /\ 0 \in 0..n
    BY <1>1
  <2>2. Selecting(cs, 0, SelectStart(cs))
    <3>1. SelectStart(cs).agree = 1 /\ SelectStart(cs).selected = cs[1]
      BY DEF SelectStart
    <3>2. \A i \in 1..(0 + 1) : i = 1
      OBVIOUS
    <3> QED
      BY <1>3, <3>1, <3>2, AgreeEquivalence DEF Selecting, C
  <2> QED
    BY <1>8, <2>1, <2>2
<1>10. ASSUME NEW k \in 1..n, k - 1 \in P PROVE k \in P
  <2>1. k \in Nat /\ k # 0 /\ k <= n
    BY <1>1
  <2>2. 1..k # {} /\ Max(1..k) = k /\ (1..k) \ {k} = 1..(k - 1) /\ 1..k \in SUBSET (1..n)
    BY <1>1, <2>1, PrefixLast
  <2>3. F[1..k] = Select(F[(1..k) \ {Max(1..k)}], T[Max(1..k)])
    BY <1>8, <2>2
  <2>4. F[1..k] = Select(F[1..(k - 1)], cs[k + 1]) /\ Selecting(cs, k - 1, F[1..(k - 1)])
    BY <1>2, <1>10, <2>2, <2>3
  <2>5. Selecting(cs, k, F[1..k])
    BY <1>0, <2>4, SelectingStep DEF n
  <2> QED
    BY <1>1, <2>5
<1>11. n \in P
  <2>1. \A k \in 1..n : k - 1 \in P => k \in P
    BY <1>10
  <2> HIDE DEF P
  <2>2. \A k \in 0..n : k \in P
    BY <1>1, <1>9, <2>1, Climb
  <2> QED
    BY <1>1, <2>2
<1>12. Selecting(cs, n, Selected(cs))
  BY <1>2, <1>7, <1>11 DEF T
<1> QED
  BY <1>1, <1>12 DEF Selecting, SelectStates

-----------------------------------------------------------------------------
(* The result. *)

\* Journals that agree have copies of the same versions.
LEMMA AgreeHas ==
  ASSUME NEW j, Dated(j), NEW k, Dated(k), Agree(j, k), NEW w \in j
  PROVE  \E u \in k : Matches(w, u)
<1> DEFINE a == Sorted(j)
           b == Sorted(k)
<1>1. a \in Seq(j) /\ Range(a) = j /\ b \in Seq(k)
  BY SortedJournal
<1>2. Len(a) = Len(b) /\ \A i \in 1..Len(a) : Matches(a[i], b[i])
  BY DEF Agree
<1> HIDE DEF a, b
<1>3. DOMAIN a = 1..Len(a) /\ \A i \in 1..Len(b) : b[i] \in k
  BY <1>1, LenProperties, ElementOfSeq
<1>4. PICK i \in 1..Len(a) : a[i] = w
  BY <1>1, <1>3 DEF Range
<1> QED
  BY <1>2, <1>3, <1>4

\* Each stream can be sorted.
LEMMA PlainDated ==
  ASSUME NEW ss, Plain(ss), NEW i \in 1..Len(ss)
  PROVE  Dated(ss[i])
<1>1. ss[i] \in Journals
  BY StreamFacts DEF Plain
<1>2. \A v, w \in ss[i] : v.time = w.time => v = w
  BY DEF Plain, Pool
<1> QED
  BY <1>1, <1>2 DEF Dated

\* The candidates are the streams that have something.
LEMMA PlainCandidates ==
  ASSUME NEW ss, Plain(ss)
  PROVE  LET cs == Candidates(ss) IN
         /\ Plain(cs)
         /\ Len(cs) \in Nat /\ Len(cs) = Cardinality(Left(ss))
         /\ Pool(cs) = Pool(ss)
         /\ \A v : Cardinality(Backing(cs, v)) = Cardinality(Backing(ss, v))
         /\ \A v : Cardinality(Having(cs, v)) = Cardinality(Having(ss, v))
         /\ \A i \in 1..Len(cs) : \E k \in 1..Len(ss) : cs[i] = ss[k]
<1> DEFINE cs == Candidates(ss)
           n == Len(cs)
<1>1. ss \in Seq(Journals)
  BY DEF Plain
<1>2. cs \in Seq(Journals) /\ n = Cardinality(Left(ss))
  BY <1>1, CandidatesOf
<1>3. PICK e \in Bijection(1..n, Left(ss)) : \A i \in 1..n : cs[i] = ss[e[i]]
  BY <1>1, CandidatesOf
<1> HIDE DEF cs
<1>4. Left(ss) \in SUBSET (1..Len(ss)) /\ IsFiniteSet(Left(ss)) /\ n \in Nat
  <2>1. Left(ss) \in SUBSET (1..Len(ss))
    BY DEF Left
  <2> QED
    BY <1>1, <1>2, <2>1, StreamFacts
<1> HIDE DEF n
<1>5. \A i \in 1..n : e[i] \in Left(ss) /\ e[i] \in 1..Len(ss)
  <2>1. e \in [1..n -> Left(ss)]
    BY <1>3 DEF Bijection, Injection
  <2> QED
    BY <1>4, <2>1
<1>6. \A k \in Left(ss) : \E i \in 1..n : e[i] = k
  BY <1>3 DEF Bijection, Surjection
<1>7. \A k \in 1..Len(ss) : \A v \in ss[k] : k \in Left(ss)
  BY DEF Left
<1>8. Pool(cs) = Pool(ss)
  <2>1. \A v \in Pool(cs) : v \in Pool(ss)
    BY <1>3, <1>5 DEF Pool, n
  <2>2. \A v \in Pool(ss) : v \in Pool(cs)
    BY <1>3, <1>6, <1>7 DEF Pool, n
  <2> QED
    BY <2>1, <2>2
<1>9. Plain(cs)
  <2>1. \A v, w \in Pool(cs) : v.time = w.time => v = w
    BY <1>8 DEF Plain
  <2>2. \A i \in 1..Len(cs) : \A v, w \in cs[i] : v.id = w.id => v = w
    BY <1>3, <1>5 DEF Plain, n
  <2> QED
    BY <1>2, <2>1, <2>2 DEF Plain
<1>10. ASSUME NEW v PROVE Cardinality(Backing(cs, v)) = Cardinality(Backing(ss, v))
  <2>1. Backing(cs, v) \in SUBSET (1..n) /\ Backing(ss, v) \in SUBSET Left(ss)
    BY <1>7 DEF Backing, n
  <2>2. \A i \in 1..n : i \in Backing(cs, v) <=> e[i] \in Backing(ss, v)
    BY <1>3, <1>5 DEF Backing, n
  <2> QED
    BY <1>3, <1>4, <2>1, <2>2, CountThrough
<1>11. ASSUME NEW v PROVE Cardinality(Having(cs, v)) = Cardinality(Having(ss, v))
  <2>1. Having(cs, v) \in SUBSET (1..n) /\ Having(ss, v) \in SUBSET Left(ss)
    BY <1>7 DEF Having, n
  <2>2. \A i \in 1..n : i \in Having(cs, v) <=> e[i] \in Having(ss, v)
    BY <1>3, <1>5 DEF Having, n
  <2> QED
    BY <1>3, <1>4, <2>1, <2>2, CountThrough
<1>12. \A i \in 1..n : \E k \in 1..Len(ss) : cs[i] = ss[k]
  BY <1>3, <1>5
<1> QED
  BY <1>2, <1>4, <1>8, <1>9, <1>10, <1>11, <1>12 DEF cs, n

\* The three ways Resolve ends.
LEMMA ResolveCases ==
  ASSUME NEW ss, Plain(ss), ListingQuorum \in Nat, ListingQuorum > 0
  PROVE  LET cs == Candidates(ss)
             j == Selected(cs).selected IN
         /\ Len(cs) < ListingQuorum => Resolve(ss) = <<>>
         /\ Len(cs) >= ListingQuorum =>
              /\ \E i \in 1..Len(cs) : j = cs[i]
              /\ \/ Resolve(ss) = Sorted(j) /\ \A i \in 1..Len(cs) : Agree(cs[i], j)
                 \/ Resolve(ss) = Merge(cs)
<1> DEFINE cs == Candidates(ss)
           j == Selected(cs).selected
<1>1. Plain(cs) /\ Len(cs) \in Nat
  BY PlainCandidates
<1>2. Len(cs) < ListingQuorum => Resolve(ss) = <<>>
  BY DEF Resolve
<1>3. ASSUME Len(cs) >= ListingQuorum
      PROVE  /\ \E i \in 1..Len(cs) : j = cs[i]
             /\ \/ Resolve(ss) = Sorted(j) /\ \A i \in 1..Len(cs) : Agree(cs[i], j)
                \/ Resolve(ss) = Merge(cs)
  <2>1. Len(cs) > 0 /\ ~(Len(cs) < ListingQuorum) /\ cs \in Seq(Journals)
    BY <1>1, <1>3 DEF Plain
  <2>2. /\ j \in {cs[i] : i \in 1..Len(cs)}
        /\ Selected(cs).agree = Len(cs) => \A i \in 1..Len(cs) : Agree(cs[i], j)
    <3> HIDE DEF cs
    <3> QED
      BY <2>1, SelectedOf
  <2>3. CASE Selected(cs).agree = Len(cs)
    <3>1. Resolve(ss) = Sorted(j)
      BY <1>3, <2>1, <2>3 DEF Resolve
    <3> QED
      BY <2>2, <2>3, <3>1
  <2>4. CASE Selected(cs).agree # Len(cs)
    <3>1. Resolve(ss) = Merge(cs)
      BY <2>1, <2>4 DEF Resolve
    <3> QED
      BY <2>2, <3>1
  <2> QED
    BY <2>3, <2>4
<1> QED
  BY <1>2, <1>3

\* The empty result.
LEMMA EmptyRange == Range(<<>>) = {} /\ Len(<<>>) = 0
<1>1. <<>> \in Seq(Versions) /\ Len(<<>>) = 0
  BY EmptySeq
<1>2. Range(<<>>) = {<<>>[i] : i \in 1..0}
  BY <1>1, MergedRange
<1> QED
  BY <1>1, <1>2

\* What is shown has a copy on a quorum of the streams.
LEMMA ResolvedBacked ==
  ASSUME NEW ss, Plain(ss), ListingQuorum \in Nat, ListingQuorum > 0, NEW v \in Range(Resolve(ss))
  PROVE  v \in Versions /\ Cardinality(Backing(ss, v)) >= ListingQuorum
<1> DEFINE cs == Candidates(ss)
           j == Selected(cs).selected
           n == Len(cs)
<1>1. Plain(cs) /\ n \in Nat /\ Cardinality(Backing(cs, v)) = Cardinality(Backing(ss, v))
  BY PlainCandidates
<1>2. n >= ListingQuorum
  <2>1. n < ListingQuorum => Resolve(ss) = <<>>
    BY ResolveCases
  <2> QED
    BY <1>1, <2>1, EmptyRange
<1>3. /\ \E i \in 1..n : j = cs[i]
      /\ \/ Resolve(ss) = Sorted(j) /\ \A i \in 1..n : Agree(cs[i], j)
         \/ Resolve(ss) = Merge(cs)
  BY <1>2, ResolveCases
<1> HIDE DEF cs, j
<1>4. CASE Resolve(ss) = Sorted(j) /\ \A i \in 1..n : Agree(cs[i], j)
  <2>1. PICK h \in 1..n : j = cs[h]
    BY <1>3
  <2>2. Dated(j) /\ j \subseteq Versions
    BY <1>1, <2>1, PlainDated DEF Dated, Journals
  <2>3. v \in j
    BY <1>4, <2>2, SortedJournal
  <2>4. \A i \in 1..n : \E w \in cs[i] : Matches(v, w)
    <3> SUFFICES ASSUME NEW i \in 1..n PROVE \E w \in cs[i] : Matches(v, w)
      OBVIOUS
    <3>1. Dated(cs[i]) /\ Agree(j, cs[i])
      BY <1>1, <1>4, PlainDated, AgreeEquivalence
    <3> QED
      BY <2>2, <2>3, <3>1, AgreeHas
  <2>5. Backing(cs, v) = 1..n
    BY <2>4 DEF Backing
  <2> HIDE DEF n
  <2>6. Cardinality(1..n) = n
    BY <1>1, FS_Interval
  <2> QED
    BY <1>1, <1>2, <2>2, <2>3, <2>5, <2>6
<1>5. CASE Resolve(ss) = Merge(cs)
  <2>1. /\ Merge(cs) \in Seq(Versions)
        /\ \A i \in 1..Len(Merge(cs)) : Cardinality(Backing(cs, Merge(cs)[i])) >= ListingQuorum
    BY <1>1, MergedBacked
  <2>2. v \in Versions /\ \E i \in 1..Len(Merge(cs)) : v = Merge(cs)[i]
    BY <1>5, <2>1, MergedRange
  <2> QED
    BY <1>1, <2>1, <2>2
<1> QED
  BY <1>3, <1>4, <1>5

\* Without rivals the result is a journal.
LEMMA ResolvedOrdered ==
  ASSUME NEW ss, Plain(ss), Unrivalled(ss), ListingQuorum \in Nat, ListingQuorum > 0
  PROVE  IsJournal(Resolve(ss))
<1> DEFINE cs == Candidates(ss)
           j == Selected(cs).selected
           n == Len(cs)
<1>1. Plain(cs) /\ n \in Nat /\ Unrivalled(cs)
  BY PlainCandidates DEF Unrivalled
<1>2. n < ListingQuorum => IsJournal(Resolve(ss))
  BY ResolveCases, EmptyRange DEF IsJournal
<1>3. ASSUME n >= ListingQuorum
      PROVE  /\ \E i \in 1..n : j = cs[i]
             /\ Resolve(ss) = Sorted(j) \/ Resolve(ss) = Merge(cs)
  BY <1>3, ResolveCases
<1> HIDE DEF cs, j
<1>4. CASE n >= ListingQuorum /\ Resolve(ss) = Sorted(j)
  <2>1. PICK h \in 1..n : j = cs[h]
    BY <1>3, <1>4
  <2>2. Dated(j)
    BY <1>1, <2>1, PlainDated
  <2>3. \A v, w \in j : v.id = w.id => v = w
    BY <1>1, <2>1 DEF Plain
  <2> DEFINE s == Sorted(j)
  <2>4. s \in Seq(j) /\ \A i, k \in 1..Len(s) : i < k => s[i].time > s[k].time
    BY <2>2, SortedJournal
  <2> HIDE DEF s
  <2>5. \A i \in 1..Len(s) : s[i] \in j
    BY <2>4, ElementOfSeq
  <2>6. \A v \in j : v.time \in Int
    BY <2>2, VersionTypes DEF Dated, Journals, Times
  <2>7. ASSUME NEW i \in 1..Len(s), NEW k \in 1..Len(s), i < k PROVE s[i].id # s[k].id
    <3>1. s[i].time > s[k].time /\ s[i] \in j /\ s[k] \in j
      BY <2>4, <2>5, <2>7
    <3> QED
      BY <2>3, <2>6, <3>1
  <2> QED
    BY <1>4, <2>4, <2>7 DEF IsJournal, s
<1>5. CASE Resolve(ss) = Merge(cs)
  BY <1>1, <1>5, MergedOrdered
<1> QED
  BY <1>1, <1>2, <1>3, <1>4, <1>5

\* What a quorum of the streams has is shown.
LEMMA ResolvedComplete ==
  ASSUME NEW ss, Plain(ss), ListingQuorum \in Nat, ListingQuorum > 0,
         NEW v, Cardinality(Backing(ss, v)) >= ListingQuorum,
         \A w, x \in Pool(ss) : w.id = v.id /\ x.id = v.id => w = x,
         Unrivalled(ss) \/ Backing(ss, v) = 1..Len(ss)
  PROVE  \E w \in Range(Resolve(ss)) : Matches(v, w)
<1> DEFINE cs == Candidates(ss)
           j == Selected(cs).selected
           n == Len(cs)
<1>0. ss \in Seq(Journals) /\ Len(ss) \in Nat /\ \A i \in 1..Len(ss) : ss[i] \in Journals
  BY StreamFacts DEF Plain
<1>1. /\ Plain(cs) /\ n \in Nat /\ n = Cardinality(Left(ss)) /\ Pool(cs) = Pool(ss)
      /\ Cardinality(Backing(cs, v)) = Cardinality(Backing(ss, v))
      /\ \A x : Cardinality(Having(cs, x)) = Cardinality(Having(ss, x))
      /\ \A i \in 1..Len(cs) : \E k \in 1..Len(ss) : cs[i] = ss[k]
  BY PlainCandidates
<1>2. Backing(ss, v) # {} /\ Backing(ss, v) \subseteq Left(ss)
  <2>1. Backing(ss, v) # {}
    BY FS_EmptySet
  <2> QED
    BY <2>1 DEF Backing, Left
<1>3. n >= ListingQuorum
  <2>1. Left(ss) \in SUBSET (1..Len(ss))
    BY DEF Left
  <2>2. IsFiniteSet(Left(ss))
    BY <1>0, <2>1, StreamFacts
  <2>3. Cardinality(Backing(ss, v)) <= Cardinality(Left(ss)) /\ Cardinality(Backing(ss, v)) \in Nat
    BY <1>2, <2>2, FS_Subset, FS_CardinalityType
  <2> HIDE DEF cs
  <2> QED
    BY <1>1, <2>3
<1>4. PICK k \in 1..Len(ss) : \E x \in ss[k] : Matches(v, x)
  BY <1>2 DEF Backing
<1>5. PICK w \in ss[k] : Matches(v, w)
  BY <1>4
<1>6. w.id = v.id /\ w \in Versions /\ w \in Pool(ss)
  BY <1>0, <1>5 DEF Matches, Journals, Pool
<1>7. \A x \in Pool(ss) : x.id = w.id => x = w
  BY <1>6
<1>8. Having(ss, w) = Backing(ss, v)
  <2>1. \A i \in 1..Len(ss) : w \in ss[i] => \E x \in ss[i] : Matches(v, x)
    BY <1>5
  <2>2. ASSUME NEW i \in 1..Len(ss), NEW x \in ss[i], Matches(v, x) PROVE w \in ss[i]
    <3>1. x \in Pool(ss) /\ x.id = w.id
      BY <1>6, <2>2 DEF Pool, Matches
    <3> QED
      BY <1>7, <3>1
  <2> QED
    BY <2>1, <2>2 DEF Having, Backing
<1>9. /\ \E i \in 1..n : j = cs[i]
      /\ \/ Resolve(ss) = Sorted(j) /\ \A i \in 1..n : Agree(cs[i], j)
         \/ Resolve(ss) = Merge(cs)
  BY <1>3, ResolveCases
<1> HIDE DEF cs, j
<1>10. CASE Resolve(ss) = Sorted(j) /\ \A i \in 1..n : Agree(cs[i], j)
  <2>1. PICK h \in 1..n : j = cs[h]
    BY <1>9
  <2>2. Dated(j)
    BY <1>1, <2>1, PlainDated
  <2>3. PICK i \in 1..n : w \in cs[i]
    BY <1>1, <1>6 DEF Pool
  <2>4. Dated(cs[i]) /\ Agree(cs[i], j)
    BY <1>1, <1>10, PlainDated
  <2>5. PICK u \in j : Matches(w, u)
    BY <2>2, <2>3, <2>4, AgreeHas
  <2>6. u \in Range(Resolve(ss))
    BY <1>10, <2>2, SortedJournal
  <2> QED
    BY <1>5, <2>5, <2>6, MatchesEquivalence
<1>11. CASE Resolve(ss) = Merge(cs)
  <2>1. Cardinality(Having(cs, w)) >= ListingQuorum
    BY <1>1, <1>8
  <2>2. Unrivalled(cs) \/ Having(cs, w) = 1..n
    <3>1. CASE Unrivalled(ss)
      BY <1>1, <3>1 DEF Unrivalled
    <3>2. CASE Backing(ss, v) = 1..Len(ss)
      <4>1. \A i \in 1..Len(ss) : w \in ss[i]
        BY <1>8, <3>2 DEF Having
      <4>2. \A i \in 1..n : w \in cs[i]
        BY <1>1, <4>1
      <4> QED
        BY <4>2 DEF Having
    <3> QED
      BY <3>1, <3>2
  <2>3. \A x \in Pool(cs) : x.id = w.id => x = w
    BY <1>1, <1>7
  <2>4. Safe(cs, w)
    BY <1>6, <2>1, <2>2, <2>3 DEF Safe
  <2>5. w \in Range(Merge(cs))
    BY <1>1, <2>4, MergeKeeps
  <2> QED
    BY <1>5, <1>11, <2>5
<1> QED
  BY <1>9, <1>10, <1>11

-----------------------------------------------------------------------------
(* What the streams are. *)

\* Every version there is, put or not, read or not.
Known == puts \cup (UNION {journal[d] : d \in Disks}) \cup Pool(streams)

\* No two versions have the same mod_time, which is that of an operation begun.
Dates ==
  /\ \A v, w \in Known : v.time = w.time => v = w
  /\ \A v \in Known : v.time <= clock
  /\ \A i \in 1..Len(streams) : Proper(streams[i])

\* They are versions.
LEMMA KnownVersions == ASSUME Typed PROVE clock \in Int /\ Known \subseteq Versions
<1>1. \A i \in 1..Len(streams) : streams[i] \in Journals
  BY StreamFacts DEF Typed, Streamed
<1>2. clock \in Int /\ puts \subseteq Versions /\ \A d \in Disks : journal[d] \subseteq Versions
  BY DEF Typed, TypeOK
<1>3. Pool(streams) \subseteq Versions
  BY <1>1 DEF Pool, Journals
<1>4. (UNION {journal[d] : d \in Disks}) \subseteq Versions
  BY <1>2
<1> QED
  BY <1>2, <1>3, <1>4 DEF Known

\* A new operation has a new mod_time.
LEMMA DatesGrow ==
  ASSUME Typed, Dates, NEW v \in Versions, v.time = clock + 1, clock' = clock + 1,
         Known' \subseteq Known \cup {v}, streams' = streams
  PROVE  Dates'
<1>1. clock \in Int /\ Known \subseteq Versions
  BY KnownVersions
<1>2. \A w \in Known : w.time <= clock /\ w.time \in Int
  BY <1>1, VersionTypes DEF Dates, Times
<1>3. \A w, x \in Known' : w.time = x.time => w = x
  BY <1>1, <1>2 DEF Dates
<1>4. \A w \in Known' : w.time <= clock'
  BY <1>1, <1>2
<1>5. \A i \in 1..Len(streams') : Proper(streams'[i])
  BY DEF Dates
<1> QED
  BY <1>3, <1>4, <1>5 DEF Dates, Proper, Journals

\* Nothing new, nothing to check.
LEMMA DatesKept ==
  ASSUME Typed, Dates, clock' = clock, Known' \subseteq Known,
         \A i \in 1..Len(streams') : Proper(streams'[i])
  PROVE  Dates'
BY DEF Dates, Proper, Journals

\* An operation brings no version into the journals but its own.
LEMMA KnownAfter ==
  ASSUME Typed, Typed', NEW v, \A d \in Disks : journal'[d] \subseteq journal[d] \cup {v},
         puts' \subseteq puts, streams' = streams
  PROVE  /\ v \in Known => Known' \subseteq Known
         /\ v \in Versions => Known' \subseteq Known \cup {v}
         /\ v \notin Versions => Known' \subseteq Known
<1>1. \A d \in Disks : journal'[d] \subseteq Versions
  BY DEF Typed, TypeOK
<1> QED
  BY <1>1 DEF Known, Pool

\* delete_version adds nothing but its marker.
LEMMA DeleteVersionAdds ==
  ASSUME NEW j, NEW id, NEW v, NEW b
  PROVE  DeleteVersion(j, id, v, b) \subseteq j \cup {v}
BY DEF DeleteVersion, AddVersion

\* A delete keeps the mod_times apart.
LEMMA DeleteDates ==
  ASSUME Typed, Typed', Dates, NEW id, NEW v, NEW b, DeleteAt(id, v, b),
         v \in Versions => v.time = clock + 1,
         clock' = clock + 1, UNCHANGED <<puts, walkVars>>
  PROVE  Dates'
<1>1. \A d \in Disks : journal'[d] \subseteq journal[d] \cup {v}
  <2>1. PICK M \in SUBSET Disks :
          LET D == {d \in Disks \ M : ~Undeletable(journal[d], id, v)} IN
          journal' = [d \in Disks |-> IF d \in D THEN DeleteVersion(journal[d], id, v, b)
                                      ELSE journal[d]]
    BY DEF DeleteAt
  <2> QED
    BY <2>1, DeleteVersionAdds
<1>2. streams' = streams /\ puts' \subseteq puts
  BY DEF walkVars
<1>3. CASE v \in Versions
  BY <1>1, <1>2, <1>3, KnownAfter, DatesGrow
<1>4. CASE v \notin Versions
  <2>1. Known' \subseteq Known
    BY <1>1, <1>2, <1>4, KnownAfter
  <2>2. clock \in Int /\ Known \subseteq Versions
    BY KnownVersions
  <2>3. \A w \in Known : w.time <= clock /\ w.time \in Int
    BY <2>2, VersionTypes DEF Dates, Times
  <2>4. \A w \in Known' : w.time <= clock'
    BY <2>1, <2>2, <2>3
  <2>5. /\ \A w, x \in Known' : w.time = x.time => w = x
        /\ \A i \in 1..Len(streams') : Proper(streams'[i])
    BY <1>2, <2>1 DEF Dates
  <2> QED
    BY <2>4, <2>5 DEF Dates, Proper, Journals
<1> QED
  BY <1>3, <1>4

\* A read adds the disk's journal and no other.
LEMMA InsertedFrom ==
  ASSUME NEW s, Len(s) \in Nat, NEW k \in 1..(Len(s) + 1), NEW e, NEW t, IsInserted(t, s, k, e)
  PROVE  \A i \in 1..Len(t) : t[i] = e \/ \E h \in 1..Len(s) : t[i] = s[h]
<1> SUFFICES ASSUME NEW i \in 1..Len(t)
             PROVE  t[i] = e \/ \E h \in 1..Len(s) : t[i] = s[h]
  OBVIOUS
<1>1. i \in 1..(Len(s) + 1)
  BY DEF IsInserted
<1>2. t[i] = IF i < k THEN s[i] ELSE IF i = k THEN e ELSE s[i - 1]
  BY <1>1 DEF IsInserted
<1>3. CASE i < k
  <2>1. i \in 1..Len(s)
    BY <1>1, <1>3
  <2> QED
    BY <1>2, <1>3, <2>1
<1>4. CASE i = k
  BY <1>2, <1>4
<1>5. CASE i > k
  <2>1. i - 1 \in 1..Len(s) /\ ~(i < k) /\ i # k
    BY <1>1, <1>5
  <2> QED
    BY <1>2, <2>1
<1>6. i < k \/ i = k \/ i > k
  BY <1>1
<1> QED
  BY <1>3, <1>4, <1>5, <1>6

\* The mod_times stay apart.
LEMMA DatesStep == ASSUME Typed, Dates, [Next]_vars PROVE Dates'
<1>0. Typed'
  BY TypedStep
<1>s. \A i \in 1..Len(streams) : Proper(streams[i])
  BY DEF Dates
<1>1. ASSUME NEW id \in {Null, clock + 1}, BeginPut(id) PROVE Dates'
  <2> DEFINE v == [id |-> id, time |-> clock + 1, type |-> "Object"]
  <2>0. id \in Ids /\ clock + 1 \in Times
    BY <1>1 DEF BeginPut, Ids, Times, Null, Typed, TypeOK
  <2>1. v \in Versions /\ v.time = clock + 1
    BY <2>0, VersionTypes
  <2>2. puts' = puts \cup {v} /\ clock' = clock + 1 /\ journal' = journal /\ streams' = streams
    BY <1>1 DEF BeginPut, listVars, walkVars
  <2> HIDE DEF v
  <2>3. Known' \subseteq Known \cup {v}
    BY <2>2 DEF Known, Pool
  <2> QED
    BY <2>1, <2>2, <2>3, DatesGrow
<1>2. ASSUME NEW id \in {Null, clock + 1}, DeleteLatest(id) PROVE Dates'
  <2> DEFINE v == [id |-> id, time |-> clock + 1, type |-> "Delete"]
  <2>1. v.time = clock + 1 /\ DeleteAt(id, v, TRUE) /\ clock' = clock + 1 /\ UNCHANGED <<puts, walkVars>>
    BY <1>2 DEF DeleteLatest
  <2> HIDE DEF v
  <2> QED
    BY <1>0, <2>1, DeleteDates
<1>3. ASSUME NEW v \in puts, CommitPut(v) PROVE Dates'
  <2>1. PICK M \in SUBSET Disks :
          LET D == {d \in Disks \ M : ~Refuses(journal[d], v)} IN
          /\ puts' = puts \ {v}
          /\ journal' = [d \in Disks |-> IF d \in D THEN AddVersion(journal[d], v) ELSE journal[d]]
          /\ UNCHANGED <<clock, walkVars>>
    BY <1>3 DEF CommitPut
  <2>2. \A d \in Disks : journal'[d] \subseteq journal[d] \cup {v}
    BY <2>1 DEF AddVersion
  <2>3. puts' \subseteq puts /\ streams' = streams /\ clock' = clock
    BY <2>1 DEF walkVars
  <2>4. v \in Known
    BY DEF Known
  <2>5. Known' \subseteq Known
    BY <1>0, <2>2, <2>3, <2>4, KnownAfter
  <2> QED
    BY <1>s, <2>3, <2>5, DatesKept
<1>4. ASSUME NEW v \in UNION {journal[d] : d \in Disks}, NEW b \in BOOLEAN, DeleteOne(v, b)
      PROVE  Dates'
  <2> DEFINE again == IF b /\ v.type = "Delete"
                      THEN [id |-> v.id, time |-> clock + 1, type |-> "Delete"]
                      ELSE NoVersion
  <2>1. again \in Versions => again.time = clock + 1
    BY VersionTypes
  <2>2. DeleteAt(v.id, again, FALSE) /\ clock' = clock + 1 /\ UNCHANGED <<puts, walkVars>>
    BY <1>4 DEF DeleteOne
  <2> HIDE DEF again
  <2> QED
    BY <1>0, <2>1, <2>2, DeleteDates
<1>5. ASSUME NEW A \in SUBSET Disks \ {{}}, BeginListing(A) PROVE Dates'
  <2>1. UNCHANGED <<journal, puts, streams, clock>>
    BY <1>5 DEF BeginListing, opVars
  <2> QED
    BY <1>s, <2>1, DatesKept DEF Known, Pool
<1>6. ASSUME NEW d \in Disks, ReadDisk(d) PROVE Dates'
  <2>1. PICK k \in 1..(Len(streams) + 1) : streams' = InsertAt(streams, k, journal[d])
    BY <1>6 DEF ReadDisk
  <2>2. journal[d] \in Journals /\ streams \in Seq(Journals) /\ Len(streams) \in Nat
    BY StreamFacts DEF Typed, TypeOK, Journals, Streamed
  <2>3. IsInserted(streams', streams, k, journal[d])
    BY <2>1, <2>2, Inserted
  <2>4. \A i \in 1..Len(streams') :
          streams'[i] = journal[d] \/ \E h \in 1..Len(streams) : streams'[i] = streams[h]
    BY <2>2, <2>3, InsertedFrom
  <2>5. UNCHANGED <<journal, puts, clock>>
    BY <1>6 DEF ReadDisk, opVars
  <2>6. \A i \in 1..Len(streams') : Proper(streams'[i])
    BY <1>s, <2>4, JournalsProper
  <2>7. Known' \subseteq Known
    <3>1. ASSUME NEW w \in Pool(streams)' PROVE w \in Known
      <4>1. PICK i \in 1..Len(streams') : w \in streams'[i]
        BY <3>1 DEF Pool
      <4>2. CASE streams'[i] = journal[d]
        BY <4>1, <4>2 DEF Known
      <4>3. CASE \E h \in 1..Len(streams) : streams'[i] = streams[h]
        <5>1. w \in Pool(streams)
          BY <4>1, <4>3 DEF Pool
        <5> QED
          BY <5>1 DEF Known
      <4> QED
        BY <2>4, <4>2, <4>3
    <3>2. puts \subseteq Known /\ (UNION {journal[e] : e \in Disks}) \subseteq Known
      BY DEF Known
    <3> QED
      BY <2>5, <3>1, <3>2 DEF Known
  <2> QED
    BY <2>5, <2>6, <2>7, DatesKept
<1>7. ASSUME NEW d \in Disks, WalkFails(d) PROVE Dates'
  <2>1. UNCHANGED <<journal, puts, streams, clock>>
    BY <1>7 DEF WalkFails
  <2> QED
    BY <1>s, <2>1, DatesKept DEF Known, Pool
<1>8. ASSUME EndListing PROVE Dates'
  <2>1. UNCHANGED <<journal, puts, clock>> /\ streams' = <<>>
    BY <1>8 DEF EndListing, opVars
  <2>2. Len(streams') = 0
    BY <2>1, EmptyRange
  <2>3. Known' \subseteq Known /\ \A i \in 1..Len(streams') : Proper(streams'[i])
    BY <2>1, <2>2 DEF Known, Pool
  <2> QED
    BY <2>1, <2>3, DatesKept
<1>9. ASSUME UNCHANGED vars PROVE Dates'
  <2>1. UNCHANGED <<journal, puts, streams, clock>>
    BY <1>9 DEF vars, opVars, listVars, walkVars
  <2> QED
    BY <1>s, <2>1, DatesKept DEF Known, Pool
<1> QED
  BY <1>1, <1>2, <1>3, <1>4, <1>5, <1>6, <1>7, <1>8, <1>9 DEF Next

LEMMA DatesInit == ASSUME Init PROVE Dates
<1>1. Known = {} /\ 1..Len(streams) = {}
  <2>1. Len(streams) = 0
    BY EmptyRange DEF Init
  <2>2. Pool(streams) = {}
    BY <2>1 DEF Pool
  <2>3. puts = {} /\ \A d \in Disks : journal[d] = {}
    BY DEF Init
  <2> QED
    BY <2>1, <2>2, <2>3 DEF Known
<1> QED
  BY <1>1 DEF Dates

LEMMA DatesAlways == Spec => []Dates
<1>1. Init => Dates
  BY DatesInit
<1>2. Typed /\ Dates /\ [Next]_vars => Dates'
  BY DatesStep
<1> QED
  BY <1>1, <1>2, TypedAlways, PTL DEF Spec

\* The streams of a listing are what the merge is proved for.
LEMMA StreamsPlain ==
  ASSUME Typed, Dates, Complete
  PROVE  /\ Plain(streams)
         /\ ListingQuorum \in Nat /\ ListingQuorum > 0
         /\ Seen = Pool(streams)
<1>1. streams \in Seq(Journals)
  BY DEF Typed, Streamed
<1>2. Plain(streams)
  <2>1. Pool(streams) \subseteq Known
    BY DEF Known
  <2>2. \A v, w \in Pool(streams) : v.time = w.time => v = w
    BY <2>1 DEF Dates
  <2>3. \A i \in 1..Len(streams) : \A v, w \in streams[i] : v.id = w.id => v = w
    BY DEF Dates, Proper
  <2> QED
    BY <1>1, <2>2, <2>3 DEF Plain
<1>3. ListingQuorum \in Nat /\ ListingQuorum > 0
  <2>1. asked # {} /\ IsFiniteSet(asked) /\ Cardinality(asked) \in Nat
    BY FiniteDisks DEF Typed, TypeOK, Complete
  <2>2. Cardinality(asked) # 0
    BY <2>1, FS_EmptySet
  <2> QED
    BY <2>1, <2>2 DEF ListingQuorum
<1>4. Seen = Pool(streams)
  <2>1. DOMAIN streams = 1..Len(streams)
    BY <1>1, StreamFacts
  <2> QED
    BY <2>1 DEF Seen, Pool, Range
<1> QED
  BY <1>2, <1>3, <1>4

-----------------------------------------------------------------------------
(* The listing. *)

\* Undisputed streams have no rivals.
LEMMA UndisputedStreams ==
  ASSUME Seen = Pool(streams), ~Disputed
  PROVE  Unrivalled(streams)
BY DEF Unrivalled, Rivals, Disputed

\* The properties follow from the invariants.
LEMMA ShownByQuorumHolds == ASSUME Typed, Dates PROVE ShownByQuorum
<1> SUFFICES ASSUME Complete, NEW v \in Shown
             PROVE  Cardinality({i \in 1..Len(streams) : \E w \in streams[i] : Matches(v, w)}) >= ListingQuorum
  BY DEF ShownByQuorum
<1>1. Plain(streams) /\ ListingQuorum \in Nat /\ ListingQuorum > 0
  BY StreamsPlain
<1>2. Cardinality(Backing(streams, v)) >= ListingQuorum
  BY <1>1, ResolvedBacked DEF Shown
<1> QED
  BY <1>2 DEF Backing

LEMMA DeletedNotShownHolds == ASSUME Typed, Dates, StreamsTell PROVE DeletedNotShown
<1> SUFFICES ASSUME Complete, N - DeleteQuorum < ListingQuorum, NEW id \in gone, NEW w \in Shown, w.id = id
             PROVE  FALSE
  BY DEF DeletedNotShown
<1> DEFINE C == {n \in 1..Len(streams) : WithId(streams[n], id) # {}}
<1>1. Plain(streams) /\ ListingQuorum \in Nat /\ ListingQuorum > 0 /\ streams \in Seq(Journals)
  BY StreamsPlain DEF Plain
<1>2. Cardinality(Backing(streams, w)) >= ListingQuorum
  BY <1>1, ResolvedBacked DEF Shown
<1>3. Cardinality(C) <= N - DeleteQuorum
  BY DEF StreamsTell
<1>4. C \in SUBSET (1..Len(streams)) /\ Backing(streams, w) \subseteq C
  BY DEF Backing, WithId, Matches
<1>5. IsFiniteSet(C) /\ Cardinality(C) \in Nat
  BY <1>1, <1>4, StreamFacts
<1> HIDE DEF C
<1>6. Cardinality(Backing(streams, w)) <= Cardinality(C) /\ Cardinality(Backing(streams, w)) \in Nat
  BY <1>4, <1>5, FS_Subset, FS_CardinalityType
<1> QED
  BY <1>1, <1>2, <1>3, <1>5, <1>6, Quorums

LEMMA MergedIsJournalHolds == ASSUME Typed, Dates PROVE MergedIsJournal
<1> SUFFICES ASSUME Complete, ~Disputed PROVE IsJournal(Resolve(streams))
  BY DEF MergedIsJournal, IsJournal
<1>1. Plain(streams) /\ ListingQuorum \in Nat /\ ListingQuorum > 0 /\ Seen = Pool(streams)
  BY StreamsPlain
<1> QED
  BY <1>1, UndisputedStreams, ResolvedOrdered

LEMMA ListingCompleteHolds == ASSUME Typed, Dates, StreamsTell PROVE ListingComplete
<1> SUFFICES ASSUME Complete, NEW v \in due,
                    Len(streams) >= ListingQuorum + (N - QuorumFor(v)),
                    Disputed => \A j \in Range(streams) : \E w \in j : Matches(v, w),
                    ~Contested(v)
             PROVE  \E w \in Shown : Matches(v, w)
  BY DEF ListingComplete
<1>1. Plain(streams) /\ ListingQuorum \in Nat /\ ListingQuorum > 0 /\ Seen = Pool(streams)
  BY StreamsPlain
<1>2. Cardinality(Backing(streams, v)) >= ListingQuorum
  BY DEF StreamsTell, Backing
<1>3. \A w, x \in Pool(streams) : w.id = v.id /\ x.id = v.id => w = x
  BY <1>1 DEF Contested
<1>4. Unrivalled(streams) \/ Backing(streams, v) = 1..Len(streams)
  <2>1. CASE ~Disputed
    BY <1>1, <2>1, UndisputedStreams
  <2>2. CASE Disputed
    <3>1. DOMAIN streams = 1..Len(streams)
      BY StreamFacts DEF Typed, Streamed
    <3>2. \A i \in 1..Len(streams) : \E w \in streams[i] : Matches(v, w)
      BY <2>2, <3>1 DEF Range
    <3> QED
      BY <3>2 DEF Backing
  <2> QED
    BY <2>1, <2>2
<1> QED
  BY <1>1, <1>2, <1>3, <1>4, ResolvedComplete DEF Shown

\* The counting of merge_file_meta_versions, which restarts for newer versions,
\* falls back to a majority among rivals and drops versions round by round,
\* never takes fewer than a quorum for one: each version a listing shows has a
\* copy on a quorum of the disks asked.
THEOREM QuorumShown == Spec => []ShownByQuorum
<1>1. Typed /\ Dates => ShownByQuorum
  BY ShownByQuorumHolds
<1> QED
  BY <1>1, TypedAlways, DatesAlways, PTL

\* A version whose delete was acknowledged before the listing began is not shown,
\* though disks that missed the delete still have it, if they are too few for a
\* quorum of the disks asked.
THEOREM DeletesHold == Spec => []DeletedNotShown
<1>1. Typed /\ Dates /\ StreamsTell => DeletedNotShown
  BY DeletedNotShownHolds
<1> QED
  BY <1>1, TypedAlways, DatesAlways, ListingHears, PTL

\* Without rivals what resolve returns is a journal: each id once, newest first.
THEOREM JournalShown == Spec => []MergedIsJournal
<1>1. Typed /\ Dates => MergedIsJournal
  BY MergedIsJournalHolds
<1> QED
  BY <1>1, TypedAlways, DatesAlways, PTL

\* Every version acknowledged before the listing began and not touched since is
\* shown, whatever changes between the reads, if enough disks answer; with the
\* exceptions that ListingComplete names.
THEOREM ListingIsComplete == Spec => []ListingComplete
<1>1. Typed /\ Dates /\ StreamsTell => ListingComplete
  BY ListingCompleteHolds
<1> QED
  BY <1>1, TypedAlways, DatesAlways, ListingHears, PTL

-----------------------------------------------------------------------------
(* The listing of versions. *)

\* All that a listing has read and may still read have the same copy of v.
HeardAlike(v) ==
  \E w \in Versions :
    /\ Matches(v, w)
    /\ \A i \in 1..Len(streams) : WithId(streams[i], v.id) = {w}
    /\ \A d \in unread : WithId(journal[d], v.id) = {w}

\* While no disk has missed a call, all have the same journal and every disk
\* asked answers.
Alike ==
  /\ \A d, e \in Disks : journal[d] = journal[e]
  /\ Len(streams) + Cardinality(unread) = Cardinality(asked)
  /\ \A v \in due : HeardAlike(v)

Even == misses = 0 => Alike

\* A call that no disk missed.
LEMMA NoMiss ==
  ASSUME Typed, NEW M \in SUBSET Disks, Miss(M), misses' = 0
  PROVE  M = {} /\ misses = 0
<1>1. misses \in Nat /\ Cardinality(M) \in Nat /\ IsFiniteSet(M)
  BY FiniteDisks DEF Typed, TypeOK
<1>2. Cardinality(M) = 0 /\ misses = 0
  BY <1>1 DEF Miss
<1> QED
  BY <1>1, <1>2, FS_EmptySet

\* Other ids are not touched.
LEMMA ElsewhereSame ==
  ASSUME NEW id, NEW j \in Journals, NEW k \in Journals, Elsewhere(id, j, k), NEW i, i # id
  PROVE  WithId(k, i) = WithId(j, i)
BY DEF Elsewhere, WithId, Journals

\* An operation that every disk carries out keeps the disks alike.
LEMMA OperationAlike ==
  ASSUME Typed, Typed', Alike, NEW id, NEW v, NEW D \in SUBSET Disks, NEW a, Record(id, v, D, a),
         \A d \in D : Elsewhere(id, journal[d], journal'[d]),
         \A d \in Disks \ D : journal'[d] = journal[d],
         \A d, e \in Disks : journal'[d] = journal'[e],
         UNCHANGED walkVars
  PROVE  Alike'
<1>0. /\ \A d \in Disks : journal[d] \in Journals /\ journal'[d] \in Journals
      /\ unread \subseteq Disks
  BY DEF Typed, TypeOK, Journals
<1>1. streams' = streams /\ unread' = unread /\ asked' = asked
  BY DEF walkVars
<1>2. ASSUME NEW w \in due' PROVE w \in due /\ \A d \in Disks : WithId(journal'[d], w.id) = WithId(journal[d], w.id)
  <2>1. CASE D = {}
    BY <1>2, <2>1 DEF Record
  <2>2. CASE D # {}
    <3>1. w \in due /\ w.id # id
      BY <1>2, <2>2 DEF Record
    <3>2. \A d \in D : WithId(journal'[d], w.id) = WithId(journal[d], w.id)
      BY <1>0, <3>1, ElsewhereSame
    <3> QED
      BY <3>1, <3>2
  <2> QED
    BY <2>1, <2>2
<1>3. ASSUME NEW w \in due' PROVE HeardAlike(w)'
  <2>1. PICK u \in Versions :
          /\ Matches(w, u)
          /\ \A i \in 1..Len(streams) : WithId(streams[i], w.id) = {u}
          /\ \A d \in unread : WithId(journal[d], w.id) = {u}
    BY <1>2 DEF Alike, HeardAlike
  <2>2. \A d \in unread : WithId(journal'[d], w.id) = {u}
    BY <1>0, <1>2, <2>1
  <2> QED
    BY <1>1, <2>1, <2>2 DEF HeardAlike, WithId, Matches, Versions, Ids, Times
<1> QED
  BY <1>1, <1>3 DEF Alike

\* So does a delete.
LEMMA DeleteEven ==
  ASSUME Typed, Typed', Even, NEW id \in Ids, NEW v \in Versions \cup {NoVersion}, NEW b \in BOOLEAN,
         v # NoVersion => v.id = id /\ v.type = "Delete",
         DeleteAt(id, v, b), UNCHANGED walkVars
  PROVE  Even'
<1> SUFFICES ASSUME misses' = 0 PROVE Alike'
  BY DEF Even
<1>1. PICK M \in SUBSET Disks :
        LET D == {d \in Disks \ M : ~Undeletable(journal[d], id, v)} IN
        /\ Miss(M)
        /\ journal' = [d \in Disks |-> IF d \in D THEN DeleteVersion(journal[d], id, v, b)
                                       ELSE journal[d]]
        /\ Record(id, v, D, Cardinality(D) >= DeleteQuorum /\ (b \/ v = NoVersion))
  BY DEF DeleteAt
<1> DEFINE D == {d \in Disks \ M : ~Undeletable(journal[d], id, v)}
           a == Cardinality(D) >= DeleteQuorum /\ (b \/ v = NoVersion)
<1>2. M = {} /\ misses = 0
  BY <1>1, NoMiss
<1>3. Alike /\ \A d, e \in Disks : journal[d] = journal[e]
  BY <1>2 DEF Even, Alike
<1>4. \A d \in D : Elsewhere(id, journal[d], journal'[d])
  <2> TAKE d \in D
  <2>1. Proper(journal[d]) /\ ~Undeletable(journal[d], id, v) /\ d \in Disks
    BY JournalsProper
  <2>2. journal'[d] = DeleteVersion(journal[d], id, v, b)
    BY <1>1
  <2> QED
    BY <2>1, <2>2, DeleteElsewhere
<1>5. \A d \in Disks \ D : journal'[d] = journal[d]
  BY <1>1
<1>6. \A d, e \in Disks : journal'[d] = journal'[e]
  <2> SUFFICES ASSUME NEW d \in Disks, NEW e \in Disks PROVE journal'[d] = journal'[e]
    OBVIOUS
  <2>1. journal[d] = journal[e] /\ (d \in D <=> e \in D)
    BY <1>2, <1>3
  <2>2. /\ journal'[d] = IF d \in D THEN DeleteVersion(journal[d], id, v, b) ELSE journal[d]
        /\ journal'[e] = IF e \in D THEN DeleteVersion(journal[e], id, v, b) ELSE journal[e]
    BY <1>1
  <2> HIDE DEF D
  <2> QED
    BY <2>1, <2>2
<1>7. D \in SUBSET Disks /\ Record(id, v, D, a)
  BY <1>1
<1> HIDE DEF D, a
<1> QED
  BY <1>3, <1>4, <1>5, <1>6, <1>7, OperationAlike

\* No operation succeeds on no disk.
LEMMA QuorumPositive == \A v : QuorumFor(v) >= 1 /\ QuorumFor(v) \in Int
<1>1. N \in Nat /\ N > 1 /\ Parity \in Nat /\ Parity < N
  <2>1. Cardinality(Disks) \in Nat
    BY FS_CardinalityType
  <2> QED
    BY <2>1 DEF N
<1>2. DataBlocks \in Int /\ DataBlocks >= 1
  BY <1>1 DEF DataBlocks
<1>3. WriteQuorum \in Int /\ WriteQuorum >= 1
  BY <1>2 DEF WriteQuorum
<1>4. DeleteQuorum \in Int /\ DeleteQuorum >= 1
  BY <1>1 DEF DeleteQuorum
<1> QED
  BY <1>3, <1>4 DEF QuorumFor

\* The disks stay alike until one misses a call.
LEMMA EvenStep == ASSUME Settled, Even, [Next]_vars PROVE Even'
<1>0. Typed' /\ Typed
  BY TypedStep DEF Settled
<1>1. ASSUME NEW id \in {Null, clock + 1}, BeginPut(id) PROVE Even'
  <2>1. UNCHANGED <<journal, misses, streams, unread, asked, due>>
    BY <1>1 DEF BeginPut, listVars, walkVars
  <2> QED
    BY <2>1 DEF Even, Alike, HeardAlike
<1>2. ASSUME NEW id \in {Null, clock + 1}, DeleteLatest(id) PROVE Even'
  <2> DEFINE v == [id |-> id, time |-> clock + 1, type |-> "Delete"]
  <2>0. id \in Ids /\ clock + 1 \in Times
    BY <1>0, <1>2 DEF DeleteLatest, Ids, Times, Null, Typed, TypeOK
  <2>1. v \in Versions /\ v.id = id /\ v.type = "Delete"
    BY <2>0, VersionTypes
  <2>2. DeleteAt(id, v, TRUE) /\ UNCHANGED walkVars
    BY <1>2 DEF DeleteLatest
  <2> HIDE DEF v
  <2> QED
    BY <1>0, <2>0, <2>1, <2>2, DeleteEven
<1>3. ASSUME NEW v \in puts, CommitPut(v) PROVE Even'
  <2> SUFFICES ASSUME misses' = 0 PROVE Alike'
    BY DEF Even
  <2>0. v \in Versions
    BY <1>0 DEF Typed, TypeOK
  <2>1. PICK M \in SUBSET Disks :
          LET D == {d \in Disks \ M : ~Refuses(journal[d], v)} IN
          /\ Miss(M)
          /\ journal' = [d \in Disks |-> IF d \in D THEN AddVersion(journal[d], v) ELSE journal[d]]
          /\ Record(v.id, v, D, Cardinality(D) >= WriteQuorum)
          /\ UNCHANGED walkVars
    BY <1>3 DEF CommitPut
  <2> DEFINE D == {d \in Disks \ M : ~Refuses(journal[d], v)}
             a == Cardinality(D) >= WriteQuorum
  <2>2. M = {} /\ misses = 0
    BY <1>0, <2>1, NoMiss
  <2>3. Alike /\ \A d, e \in Disks : journal[d] = journal[e]
    BY <2>2 DEF Even, Alike
  <2>4. \A d \in D : Elsewhere(v.id, journal[d], journal'[d])
    <3> TAKE d \in D
    <3>1. journal[d] \in Journals /\ journal'[d] = AddVersion(journal[d], v)
      BY <1>0, <2>1 DEF Typed, TypeOK, Journals
    <3> QED
      BY <2>0, <3>1, AddElsewhere
  <2>5. \A d \in Disks \ D : journal'[d] = journal[d]
    BY <2>1
  <2>6. \A d, e \in Disks : journal'[d] = journal'[e]
    <3> SUFFICES ASSUME NEW d \in Disks, NEW e \in Disks PROVE journal'[d] = journal'[e]
      OBVIOUS
    <3>1. journal[d] = journal[e] /\ (d \in D <=> e \in D)
      BY <2>2, <2>3
    <3>2. /\ journal'[d] = IF d \in D THEN AddVersion(journal[d], v) ELSE journal[d]
          /\ journal'[e] = IF e \in D THEN AddVersion(journal[e], v) ELSE journal[e]
      BY <2>1
    <3> HIDE DEF D
    <3> QED
      BY <3>1, <3>2
  <2>7. D \in SUBSET Disks /\ Record(v.id, v, D, a) /\ UNCHANGED walkVars
    BY <2>1
  <2> HIDE DEF D, a
  <2> QED
    BY <1>0, <2>3, <2>4, <2>5, <2>6, <2>7, OperationAlike
<1>4. ASSUME NEW v \in UNION {journal[d] : d \in Disks}, NEW b \in BOOLEAN, DeleteOne(v, b)
      PROVE  Even'
  <2> DEFINE again == IF b /\ v.type = "Delete"
                      THEN [id |-> v.id, time |-> clock + 1, type |-> "Delete"]
                      ELSE NoVersion
  <2>1. v \in Versions /\ v.id \in Ids
    BY <1>0, VersionTypes DEF Typed, TypeOK
  <2>2. clock + 1 \in Times
    BY <1>0, <1>4 DEF DeleteOne, Times, Typed, TypeOK
  <2>3. [id |-> v.id, time |-> clock + 1, type |-> "Delete"] \in Versions
    BY <2>1, <2>2, VersionTypes
  <2>4. again \in Versions \cup {NoVersion} /\ (again # NoVersion => again.id = v.id /\ again.type = "Delete")
    BY <2>3
  <2>5. DeleteAt(v.id, again, FALSE) /\ UNCHANGED walkVars
    BY <1>4 DEF DeleteOne
  <2> HIDE DEF again
  <2> QED
    BY <1>0, <2>1, <2>4, <2>5, DeleteEven
<1>5. ASSUME NEW A \in SUBSET Disks \ {{}}, BeginListing(A) PROVE Even'
  <2> SUFFICES ASSUME misses' = 0 PROVE Alike'
    BY DEF Even
  <2>1. streams = <<>> /\ Len(streams) = 0
    <3>1. asked = {} /\ unread = {}
      BY <1>0, <1>5 DEF BeginListing, Typed, TypeOK
    <3> QED
      BY <1>0, <3>1, FS_EmptySet DEF Typed, TypeOK, Streamed
  <2>2. UNCHANGED <<journal, last, streams, misses>> /\ unread' = A /\ asked' = A /\ A \subseteq Disks
    BY <1>5 DEF BeginListing, opVars
  <2>3. \A d, e \in Disks : journal[d] = journal[e]
    BY <2>2 DEF Even, Alike
  <2>4. Len(streams') + Cardinality(unread') = Cardinality(asked')
    BY <2>1, <2>2, FiniteDisks
  <2>5. ASSUME NEW v \in due' PROVE HeardAlike(v)'
    <3>1. PICK i \in Ids : last[i].acked /\ last[i].version # NoVersion /\ v = last[i].version
      BY <1>5 DEF BeginListing
    <3>2. OnDisks(Lacking(v)) <= N - QuorumFor(v)
      BY <3>1 DEF Settled, DisksSettled
    <3>3. PICK d \in Disks : journal[d] \notin Lacking(v)
      <4> SUFFICES ASSUME \A d \in Disks : journal[d] \in Lacking(v) PROVE FALSE
        OBVIOUS
      <4>1. {d \in Disks : journal[d] \in Lacking(v)} = Disks
        OBVIOUS
      <4>2. OnDisks(Lacking(v)) = N
        BY <4>1 DEF OnDisks, N
      <4> QED
        BY <3>2, <4>2, QuorumPositive, Quorums
    <3>4. journal[d] \in Journals /\ Proper(journal[d])
      BY <1>0, JournalsProper DEF Proper
    <3>5. PICK w \in journal[d] : Matches(v, w)
      BY <3>3, <3>4 DEF Lacking
    <3>6. w \in Versions /\ WithId(journal[d], v.id) = {w}
      BY <3>4, <3>5 DEF WithId, Proper, Matches, Journals
    <3>7. \A e \in unread' : WithId(journal'[e], v.id) = {w}
      BY <2>2, <2>3, <3>6
    <3>8. \A i1 \in 1..Len(streams') : WithId(streams'[i1], v.id) = {w}
      BY <2>1, <2>2
    <3> QED
      BY <3>5, <3>6, <3>7, <3>8 DEF HeardAlike, WithId, Matches, Versions, Ids, Times
  <2> QED
    BY <2>2, <2>3, <2>4, <2>5 DEF Alike
<1>6. ASSUME NEW d \in Disks, ReadDisk(d) PROVE Even'
  <2> SUFFICES ASSUME misses' = 0 PROVE Alike'
    BY DEF Even
  <2>1. PICK k \in 1..(Len(streams) + 1) : streams' = InsertAt(streams, k, journal[d])
    BY <1>6 DEF ReadDisk
  <2>2. journal[d] \in Journals /\ streams \in Seq(Journals) /\ Len(streams) \in Nat
    BY <1>0, StreamFacts DEF Typed, TypeOK, Journals, Streamed
  <2>3. IsInserted(streams', streams, k, journal[d])
    BY <2>1, <2>2, Inserted
  <2>4. \A i \in 1..Len(streams') :
          streams'[i] = journal[d] \/ \E h \in 1..Len(streams) : streams'[i] = streams[h]
    BY <2>2, <2>3, InsertedFrom
  <2>5. UNCHANGED <<journal, misses, asked, due>> /\ d \in unread /\ unread' = unread \ {d}
    BY <1>6 DEF ReadDisk, opVars
  <2>6. Alike
    BY <2>5 DEF Even
  <2>7. Len(streams') + Cardinality(unread') = Cardinality(asked')
    <3>1. IsFiniteSet(unread) /\ Cardinality(unread) \in Nat
      BY <1>0, FiniteDisks DEF Typed, TypeOK
    <3>2. Cardinality(unread \ {d}) = Cardinality(unread) - 1
      BY <2>5, <3>1, FS_RemoveElement
    <3>3. Len(streams') = Len(streams) + 1
      BY <2>3 DEF IsInserted
    <3>4. Len(streams) + Cardinality(unread) = Cardinality(asked)
      BY <2>6 DEF Alike
    <3> QED
      BY <2>2, <2>5, <3>1, <3>2, <3>3, <3>4
  <2>8. ASSUME NEW v \in due' PROVE HeardAlike(v)'
    <3>1. PICK u \in Versions :
            /\ Matches(v, u)
            /\ \A i \in 1..Len(streams) : WithId(streams[i], v.id) = {u}
            /\ \A e \in unread : WithId(journal[e], v.id) = {u}
      BY <2>5, <2>6 DEF Alike, HeardAlike
    <3>2. \A i \in 1..Len(streams') : WithId(streams'[i], v.id) = {u}
      BY <2>4, <2>5, <3>1
    <3>3. \A e \in unread' : WithId(journal'[e], v.id) = {u}
      BY <2>5, <3>1
    <3> QED
      BY <3>1, <3>2, <3>3 DEF HeardAlike, WithId, Matches, Versions, Ids, Times
  <2> QED
    BY <2>5, <2>6, <2>7, <2>8 DEF Alike
<1>7. ASSUME NEW d \in Disks, WalkFails(d) PROVE Even'
  <2> SUFFICES ASSUME misses' = 0 PROVE FALSE
    BY DEF Even
  <2>1. {d} = {}
    BY <1>0, <1>7, NoMiss DEF WalkFails
  <2> QED
    BY <2>1
<1>8. ASSUME EndListing PROVE Even'
  <2>1. UNCHANGED <<journal, misses>> /\ due' = {} /\ streams' = <<>> /\ asked' = {} /\ unread' = {}
    BY <1>8 DEF EndListing, opVars
  <2>2. Len(streams') + Cardinality(unread') = Cardinality(asked')
    BY <2>1, EmptyRange, FS_EmptySet
  <2> QED
    BY <2>1, <2>2 DEF Even, Alike
<1>9. ASSUME UNCHANGED vars PROVE Even'
  <2>1. UNCHANGED <<journal, misses, streams, unread, asked, due>>
    BY <1>9 DEF vars, opVars, listVars, walkVars
  <2> QED
    BY <2>1 DEF Even, Alike, HeardAlike
<1> QED
  BY <1>1, <1>2, <1>3, <1>4, <1>5, <1>6, <1>7, <1>8, <1>9 DEF Next

LEMMA EvenAlways == Spec => []Even
<1>1. Init => Even
  <2> SUFFICES ASSUME Init PROVE Alike
    BY DEF Even
  <2>1. \A d, e \in Disks : journal[d] = journal[e]
    BY DEF Init
  <2>2. Len(streams) + Cardinality(unread) = Cardinality(asked)
    BY EmptyRange, FS_EmptySet DEF Init
  <2>3. due = {}
    BY DEF Init
  <2> QED
    BY <2>1, <2>2, <2>3 DEF Alike
<1>2. Settled /\ Even /\ [Next]_vars => Even'
  BY EvenStep
<1> QED
  BY <1>1, <1>2, SettledAlways, PTL DEF Spec

\* Then any one journal has what is due.
LEMMA VersionsListedHolds == ASSUME Typed, Dates, Even PROVE VersionsListed
<1> SUFFICES ASSUME Complete, misses = 0, NEW v \in due
             PROVE  \E w \in Range(ListedVersions(streams)) : Matches(v, w)
  BY DEF VersionsListed
<1> DEFINE ss == streams
           cs == Candidates(ss)
           j == Selected(cs).selected
<1>1. Plain(ss) /\ ListingQuorum \in Nat /\ ListingQuorum > 0 /\ Seen = Pool(ss) /\ Len(ss) \in Nat
  BY StreamsPlain, StreamFacts DEF Plain
<1>2. PICK u \in Versions : Matches(v, u) /\ \A i \in 1..Len(ss) : WithId(ss[i], v.id) = {u}
  BY DEF Even, Alike, HeardAlike
<1>3. Len(ss) >= ListingQuorum
  <2>1. unread = {} /\ Cardinality(unread) = 0 /\ Cardinality(asked) \in Nat
    BY FiniteDisks, FS_EmptySet DEF Complete, Typed, TypeOK
  <2>2. Len(ss) + Cardinality(unread) = Cardinality(asked)
    BY DEF Even, Alike
  <2>3. Len(ss) = Cardinality(asked)
    BY <1>1, <2>1, <2>2
  <2> QED
    BY <2>1, <2>3 DEF ListingQuorum
<1>4. \A i \in 1..Len(ss) : u \in ss[i] /\ ss[i] # {}
  BY <1>2 DEF WithId
<1>5. Backing(ss, v) = 1..Len(ss) /\ Left(ss) = 1..Len(ss)
  BY <1>2, <1>4 DEF Backing, Left
<1>6. \A w, x \in Pool(ss) : w.id = v.id /\ x.id = v.id => w = x
  <2> SUFFICES ASSUME NEW w \in Pool(ss), w.id = v.id PROVE w = u
    OBVIOUS
  <2>1. PICK i \in 1..Len(ss) : w \in ss[i]
    BY DEF Pool
  <2>2. w \in WithId(ss[i], v.id)
    BY <2>1 DEF WithId
  <2>3. WithId(ss[i], v.id) = {u}
    BY <1>2
  <2> HIDE DEF ss
  <2> QED
    BY <2>2, <2>3
<1>7. Cardinality(1..Len(ss)) = Len(ss)
  <2> DEFINE n == Len(ss)
  <2> HIDE DEF n
  <2>1. n \in Nat => Cardinality(1..n) = n
    BY FS_Interval
  <2> QED
    BY <1>1, <2>1 DEF n
<1>8. \E w \in Range(Resolve(ss)) : Matches(v, w)
  BY <1>1, <1>3, <1>5, <1>6, <1>7, ResolvedComplete
<1>9. Resolve(ss) # <<>>
  BY <1>8, EmptyRange
<1>10. ListedVersions(ss) = Sorted(j)
  BY <1>9 DEF ListedVersions
<1>11. /\ Len(cs) = Len(ss)
       /\ \A i \in 1..Len(cs) : \E k \in 1..Len(ss) : cs[i] = ss[k]
  BY <1>1, <1>5, <1>7, PlainCandidates
<1>12. \E i \in 1..Len(cs) : j = cs[i]
  BY <1>1, <1>3, <1>11, ResolveCases
<1> HIDE DEF cs, j
<1>13. PICK k \in 1..Len(ss) : j = ss[k]
  BY <1>11, <1>12
<1>14. Dated(j) /\ u \in j
  BY <1>1, <1>4, <1>13, PlainDated
<1>15. u \in Range(Sorted(j))
  BY <1>14, SortedJournal
<1> QED
  BY <1>2, <1>10, <1>15

\* As long as no disk has missed a change, the one journal that list_object_versions
\* works from has every acknowledged version.
THEOREM VersionsAreListed == Spec => []VersionsListed
<1>1. Typed /\ Dates /\ Even => VersionsListed
  BY VersionsListedHolds
<1> QED
  BY <1>1, TypedAlways, DatesAlways, EvenAlways, PTL

=============================================================================
