-------------------------- MODULE ErasureSetProofs --------------------------
(***************************************************************************)
(* Theorems about ErasureSet, for any number of disks, puts and deletes,   *)
(* any parity that a storage class may have, and any bounds on failures.   *)
(*                                                                         *)
(* The argument counts disks.  After a completed put or delete the disks   *)
(* with another put's version are a minority, and each call carried out    *)
(* late adds at most one (FewStale); so as long as the state is Settled,   *)
(* what enough disks have in common is legal, and only that is healed.     *)
(* While the object may not be missing, few disks lack it and each legal   *)
(* put keeps its shards (Kept), so a heal never takes it for dangling.     *)
(***************************************************************************)
EXTENDS ErasureSet, FiniteSetTheorems, TLAPS

-----------------------------------------------------------------------------
(* The inductive invariant. *)

\* Before rename_data.
Early == {"idle", "checked", "staged", "locked"}

\* A put that has not renamed its data has left no trace.
Untraced ==
  \A w \in Writes : op[w] \in Early =>
    w \notin legal /\ \A d \in Disks : xl[d] # w /\ <<d, w>> \notin lates

\* Between rename_data and commit_rename_data_dir a put is the object.
Locked == \A w \in Writes : op[w] = "renamed" => legal = {w} /\ oldDir # w

\* A put with a condition never waits for the lock with its body encoded.
NeverStaged == \A w \in Conditional : op[w] # "staged"

\* Disks with a version that is not legal.
Stale == {d \in Disks : xl[d] \notin legal \cup {Gone}}

\* The late calls that were carried out, and the deletes.
Spent == {c \in lates : c \notin late \/ c[2] = Deletion}

\* A quorum misses a minority of the disks, and each late rename that was
\* carried out made at most one disk stale.
FewStale ==
  Settled => Cardinality(Stale) <= Drives - (Drives \div 2 + 1) + Cardinality(Spent)

\* The object exists, and whole.
Present == Gone \notin legal /\ legal \cap short = {} /\ NoLateDelete /\ Settled

\* Disks with metadata and a shard of w, cut or not.
Carriers(w) == {d \in Disks : xl[d] # Gone /\ parts[d][w] # "none"}

\* An object that exists is missing on few disks and has its shards.
Kept ==
  Present =>
    /\ Cardinality(Missing(Disks)) <= Drives - WriteQuorum
    /\ \A w \in legal : Cardinality(Carriers(w)) >= DataBlocks

\* The last completed put, when nothing happened since.
Readable ==
  \A w \in Writes : legal = {w} /\ lates = {} /\ w \notin short =>
    /\ Cardinality(Holding(Disks, w)) >= WriteQuorum
    /\ Cardinality(WholeOn(w)) >= DataBlocks

Inv ==
  /\ TypeOK /\ Untraced /\ Locked /\ NeverStaged
  /\ FewStale /\ Kept /\ Readable /\ PreconditionKept

-----------------------------------------------------------------------------
(* Counting disks and calls. *)

USE DEF StateType

\* How the quorums relate, whatever the parity.
LEMMA Quorums ==
  ASSUME TypeOK
  PROVE  /\ Drives \in Nat /\ Drives >= 1 /\ parity \in Nat /\ parity + parity <= Drives
         /\ DataBlocks \in Nat /\ DataBlocks = Drives - parity /\ DataBlocks >= 1
         /\ WriteQuorum \in Nat /\ DataBlocks <= WriteQuorum /\ WriteQuorum <= Drives
         /\ Drives \div 2 \in Nat /\ WriteQuorum >= Drives \div 2 + 1
         /\ WriteQuorum + WriteQuorum > Drives
         /\ parity <= Drives \div 2
<1>1. Drives \in Nat /\ Drives # 0
  BY ErasureAssumption, FS_CardinalityType, FS_EmptySet DEF Drives
<1>2. Drives \div 2 \in Nat /\ 2 * (Drives \div 2) <= Drives /\ Drives <= 2 * (Drives \div 2) + 1
  BY <1>1
<1>3. parity \in 0 .. (Drives \div 2)
  BY ErasureAssumption DEF TypeOK, parity
<1> DEFINE h == Drives \div 2
<1>4. h \in Nat /\ 2 * h <= Drives /\ Drives <= 2 * h + 1 /\ parity \in 0 .. h
  BY <1>2, <1>3
<1> HIDE DEF h
<1>5. /\ DataBlocks \in Nat /\ DataBlocks = Drives - parity /\ DataBlocks >= 1
      /\ parity \in Nat /\ parity + parity <= Drives /\ parity <= h
  BY <1>1, <1>4 DEF DataBlocks
<1>6. /\ WriteQuorum \in Nat /\ DataBlocks <= WriteQuorum /\ WriteQuorum <= Drives
      /\ WriteQuorum >= h + 1 /\ WriteQuorum + WriteQuorum > Drives
  BY <1>1, <1>4, <1>5 DEF WriteQuorum
<1> QED
  BY <1>1, <1>2, <1>5, <1>6 DEF h

LEMMA SomeDisks ==
  ASSUME NEW S \in SUBSET Disks
  PROVE  /\ IsFiniteSet(S) /\ Cardinality(S) \in Nat /\ Drives \in Nat
         /\ Cardinality(S) <= Drives
         /\ Cardinality(Disks \ S) \in Nat
         /\ Cardinality(Disks \ S) = Drives - Cardinality(S)
<1>1. IsFiniteSet(Disks)
  BY ErasureAssumption
<1>2. IsFiniteSet(S) /\ IsFiniteSet(Disks \ S) /\ Cardinality(S) <= Drives
  BY <1>1, FS_Subset DEF Drives
<1>3. Cardinality(S) \in Nat /\ Drives \in Nat /\ Cardinality(Disks \ S) \in Nat
  BY <1>1, <1>2, FS_CardinalityType DEF Drives
<1>4. Disks \cap S = S
  OBVIOUS
<1>5. Cardinality(Disks \ S) = Drives - Cardinality(S)
  BY <1>1, <1>4, FS_Difference DEF Drives
<1> QED
  BY <1>2, <1>3, <1>5

\* A larger set of disks has no fewer members.
LEMMA MoreDisks ==
  ASSUME NEW S, NEW T \in SUBSET Disks, S \subseteq T
  PROVE  Cardinality(S) <= Cardinality(T) /\ Cardinality(S) \in Nat /\ Cardinality(T) \in Nat
<1>1. IsFiniteSet(T) /\ Cardinality(T) \in Nat /\ S \in SUBSET Disks
  BY SomeDisks
<1>2. Cardinality(S) \in Nat
  BY <1>1, SomeDisks
<1> QED
  BY <1>1, <1>2, FS_Subset

\* Two disjoint sets of disks are together no more than the disks.
LEMMA DisjointDisks ==
  ASSUME NEW S \in SUBSET Disks, NEW T \in SUBSET Disks, S \cap T = {}
  PROVE  Cardinality(S) + Cardinality(T) <= Drives
<1>1. T \subseteq Disks \ S /\ Disks \ S \in SUBSET Disks
  OBVIOUS
<1>2. Cardinality(T) <= Cardinality(Disks \ S)
  BY <1>1, MoreDisks
<1>3. /\ Cardinality(S) \in Nat /\ Cardinality(T) \in Nat /\ Drives \in Nat
      /\ Cardinality(Disks \ S) = Drives - Cardinality(S)
  BY SomeDisks
<1> QED
  BY <1>2, <1>3

LEMMA SomeCalls ==
  ASSUME NEW C \in SUBSET Calls
  PROVE  IsFiniteSet(C) /\ Cardinality(C) \in Nat
<1>1. 1 \in Int /\ Deletion \in Int
  BY ErasureAssumption DEF Deletion
<1>2. IsFiniteSet(1 .. Deletion)
  BY <1>1, FS_Interval
<1>3. IsFiniteSet(Calls)
  BY <1>2, ErasureAssumption, FS_Product DEF Calls
<1> QED
  BY <1>3, FS_Subset, FS_CardinalityType

LEMMA MoreCalls ==
  ASSUME NEW C, NEW D \in SUBSET Calls, C \subseteq D
  PROVE  Cardinality(C) <= Cardinality(D) /\ Cardinality(C) \in Nat /\ Cardinality(D) \in Nat
<1>1. C \in SUBSET Calls
  OBVIOUS
<1> QED
  BY <1>1, SomeCalls, FS_Subset

\* Puts are neither Gone nor a deletion.
LEMMA Names ==
  /\ Gone \notin Writes /\ Deletion \notin Writes
  /\ \A w \in Writes : w \in 1 .. Deletion /\ w # Deletion /\ w # Gone
  /\ Deletion \in 1 .. Deletion /\ Writes \subseteq Nat
BY ErasureAssumption DEF Writes, Deletion, Gone

\* The quorums are fixed by the setting.
LEMMA Fixed ==
  ASSUME setting' = setting
  PROVE  /\ parity' = parity /\ DataBlocks' = DataBlocks /\ WriteQuorum' = WriteQuorum
         /\ NotFoundQuorum' = NotFoundQuorum /\ Conditional' = Conditional /\ Outvoting' = Outvoting
BY DEF parity, DataBlocks, WriteQuorum, NotFoundQuorum, Conditional, Outvoting

-----------------------------------------------------------------------------
(* The types. *)

\* What the outcomes of an operation's calls say about the disks.
LEMMA OutcomeSets ==
  ASSUME NEW out \in Outcomes
  PROVE  /\ out \in [Disks -> {"ok", "err", "lost", "half", "late"}] /\ DOMAIN out = Disks
         /\ Ok(out) \subseteq Done(out) /\ Done(out) \subseteq DirDone(out)
         /\ DirDone(out) \subseteq Tried(out) /\ Tried(out) \subseteq Disks
BY DEF Outcomes, Ok, Done, DirDone, Tried

LEMMA NoteLateType ==
  ASSUME TypeOK, NEW out \in Outcomes, NEW c \in 1 .. Deletion, NoteLate(out, c)
  PROVE  /\ lates' \subseteq Calls /\ late' \subseteq lates' /\ lates \subseteq lates'
         /\ late \subseteq late' /\ lates \subseteq Calls /\ late \subseteq lates
         /\ \A x \in lates' : x \in lates \/ x[2] = c
         /\ \A x \in late' : x \in late \/ x[2] = c
<1> DEFINE new == {<<d, c>> : d \in {e \in Disks : out[e] = "late"}}
<1>1. new \subseteq Calls /\ \A x \in new : x[2] = c
  BY DEF Calls
<1>2. late' = late \cup new /\ lates' = lates \cup new
  BY DEF NoteLate
<1>3. lates \subseteq Calls /\ late \subseteq lates
  BY DEF TypeOK
<1> HIDE DEF new
<1> QED
  BY <1>1, <1>2, <1>3

LEMMA TypeRename ==
  ASSUME TypeOK, NEW w \in Writes, RenameData(w)
  PROVE  StateType'
<1>1. PICK out \in Outcomes :
       /\ NoteLate(out, w)
       /\ xl' = [d \in Disks |-> IF d \in Done(out) THEN w ELSE xl[d]]
       /\ parts' = [d \in Disks |->
                     IF d \in DirDone(out) THEN [parts[d] EXCEPT ![w] = tmp[w][d]] ELSE parts[d]]
       /\ tmp' = [tmp EXCEPT ![w] =
                   [d \in Disks |-> IF d \in DirDone(out) THEN "none" ELSE tmp[w][d]]]
       /\ short' = IF Cardinality({d \in Done(out) : tmp[w][d] = "whole"}) < DataBlocks
                   THEN short \cup {w} ELSE short
       /\ \/ /\ Cardinality(Ok(out)) >= WriteQuorum
             /\ op' = [op EXCEPT ![w] = "renamed"]
             /\ oldDir' = CommonDataDir(out)
             /\ legal' = {w}
             /\ UNCHANGED lock
          \/ /\ Cardinality(Ok(out)) < WriteQuorum
             /\ op' = [op EXCEPT ![w] = "failed"]
             /\ legal' = IF Tried(out) = {} THEN legal ELSE legal \cup {w}
             /\ lock' = Gone
             /\ UNCHANGED oldDir
  BY DEF RenameData
<1>2. UNCHANGED <<setting, deletes, heals>>
  BY DEF RenameData
<1>3. lates' \subseteq Calls /\ late' \subseteq lates'
  BY <1>1, Names, NoteLateType
<1>4. CommonDataDir(out) \in Writes \cup {Gone}
  BY DEF CommonDataDir
<1>5. tmp[w] \in [Disks -> Shard] /\ "none" \in Shard
  BY DEF TypeOK, Shard
<1>6. xl' \in [Disks -> Writes \cup {Gone}]
  BY <1>1 DEF TypeOK
<1>7. parts' \in [Disks -> [Writes -> Shard]]
  <2>1. ASSUME NEW d \in Disks
        PROVE  [parts[d] EXCEPT ![w] = tmp[w][d]] \in [Writes -> Shard] /\ parts[d] \in [Writes -> Shard]
    BY <1>5 DEF TypeOK
  <2> QED
    BY <1>1, <2>1
<1>8. tmp' \in [Writes -> [Disks -> Shard]]
  <2>1. [d \in Disks |-> IF d \in DirDone(out) THEN "none" ELSE tmp[w][d]] \in [Disks -> Shard]
    BY <1>5
  <2> QED
    BY <1>1, <2>1 DEF TypeOK
<1>9. op' \in [Writes -> {"idle", "checked", "staged", "locked", "renamed", "acked", "failed"}]
  BY <1>1 DEF TypeOK
<1>10. lock' \in Writes \cup {Gone} /\ oldDir' \in Writes \cup {Gone} /\ short' \subseteq Writes
  BY <1>1, <1>4 DEF TypeOK
<1>11. legal' \subseteq Writes \cup {Gone} /\ legal' # {}
  BY <1>1 DEF TypeOK
<1> QED
  BY <1>2, <1>3, <1>6, <1>7, <1>8, <1>9, <1>10, <1>11 DEF TypeOK

LEMMA TypeCommit ==
  ASSUME TypeOK, NEW w \in Writes, CommitDataDir(w)
  PROVE  StateType'
<1>1. PICK gone \in SUBSET Disks :
       /\ oldDir = Gone => gone = {}
       /\ parts' = [d \in Disks |->
                     IF d \in gone THEN [parts[d] EXCEPT ![oldDir] = "none"] ELSE parts[d]]
       /\ \/ /\ op' = [op EXCEPT ![w] = "acked"]
             /\ \E clean \in SUBSET {d \in Disks : tmp[w][d] # "none"} :
                  tmp' = [tmp EXCEPT ![w] =
                           [d \in Disks |-> IF d \in clean THEN "none" ELSE tmp[w][d]]]
          \/ /\ op' = [op EXCEPT ![w] = "failed"]
             /\ UNCHANGED tmp
  BY DEF CommitDataDir
<1>2. tmp[w] \in [Disks -> Shard] /\ "none" \in Shard
  BY DEF TypeOK, Shard
<1>3. parts' \in [Disks -> [Writes -> Shard]]
  <2>1. ASSUME NEW d \in Disks
        PROVE  (IF d \in gone THEN [parts[d] EXCEPT ![oldDir] = "none"] ELSE parts[d])
                 \in [Writes -> Shard]
    BY <1>2 DEF TypeOK
  <2> QED
    BY <1>1, <2>1
<1>4. tmp' \in [Writes -> [Disks -> Shard]]
  <2>1. CASE UNCHANGED tmp
    BY <2>1 DEF TypeOK
  <2>2. ASSUME NEW clean,
               tmp' = [tmp EXCEPT ![w] =
                        [d \in Disks |-> IF d \in clean THEN "none" ELSE tmp[w][d]]]
        PROVE  tmp' \in [Writes -> [Disks -> Shard]]
    <3>1. [d \in Disks |-> IF d \in clean THEN "none" ELSE tmp[w][d]] \in [Disks -> Shard]
      BY <1>2
    <3> QED
      BY <2>2, <3>1 DEF TypeOK
  <2> QED
    BY <1>1, <2>1, <2>2
<1>5. op' \in [Writes -> {"idle", "checked", "staged", "locked", "renamed", "acked", "failed"}]
  BY <1>1 DEF TypeOK
<1> QED
  BY <1>3, <1>4, <1>5 DEF TypeOK, CommitDataDir

LEMMA TypeEncode ==
  ASSUME TypeOK, NEW w \in Writes, Encode(w)
  PROVE  StateType'
<1>1. PICK open \in SUBSET Disks, whole \in SUBSET Disks :
       \/ /\ op' = [op EXCEPT ![w] = IF w \in Conditional THEN "locked" ELSE "staged"]
          /\ tmp' = [tmp EXCEPT ![w] =
                      [d \in Disks |-> IF d \in whole THEN "whole"
                                       ELSE IF d \in open THEN "cut" ELSE "none"]]
          /\ UNCHANGED lock
       \/ /\ op' = [op EXCEPT ![w] = "failed"]
          /\ lock' = IF lock = w THEN Gone ELSE lock
          /\ UNCHANGED tmp
  BY DEF Encode
<1>2. tmp' \in [Writes -> [Disks -> Shard]]
  <2>1. [d \in Disks |-> IF d \in whole THEN "whole" ELSE IF d \in open THEN "cut" ELSE "none"]
          \in [Disks -> Shard]
    BY DEF Shard
  <2> QED
    BY <1>1, <2>1 DEF TypeOK
<1>3. op' \in [Writes -> {"idle", "checked", "staged", "locked", "renamed", "acked", "failed"}]
  BY <1>1 DEF TypeOK
<1>4. lock' \in Writes \cup {Gone}
  BY <1>1 DEF TypeOK
<1> QED
  BY <1>2, <1>3, <1>4 DEF TypeOK, Encode

\* delete_object_version and delete_if_dangling.
LEMMA TypeDelete ==
  ASSUME TypeOK, NEW out \in Outcomes, DeleteVersion(out)
  PROVE  /\ xl' \in [Disks -> Writes \cup {Gone}] /\ parts' \in [Disks -> [Writes -> Shard]]
         /\ lates' \subseteq Calls /\ late' \subseteq lates'
<1>1. lates' \subseteq Calls /\ late' \subseteq lates'
  BY Names, NoteLateType DEF DeleteVersion
<1>2. xl' \in [Disks -> Writes \cup {Gone}]
  BY DEF DeleteVersion, TypeOK
<1>3. ASSUME NEW d \in Disks
      PROVE  (IF d \in DirDone(out) THEN [parts[d] EXCEPT ![xl[d]] = "none"] ELSE parts[d])
               \in [Writes -> Shard]
  BY DEF TypeOK, Shard
<1>4. parts' \in [Disks -> [Writes -> Shard]]
  BY <1>3 DEF DeleteVersion
<1> QED
  BY <1>1, <1>2, <1>4

\* What a heal that rebuilds shards changes.
LEMMA HealEffect ==
  ASSUME TypeOK, NEW v \in Writes, HealShards(v)
  PROVE  \E M \in SUBSET Disks, done \in SUBSET Disks, moved \in SUBSET Disks :
           /\ CanHeal(M, v)
           /\ xl' = [d \in Disks |-> IF d \in done THEN v ELSE xl[d]]
           /\ parts' = [d \in Disks |->
                         IF d \in moved THEN [parts[d] EXCEPT ![v] = "whole"] ELSE parts[d]]
<1>1. PICK M \in SUBSET Disks :
       /\ CanHeal(M, v)
       /\ \E S \in SUBSET Shardless(M, v) :
          \E fresh \in (SUBSET Outdated(M, v, S)) \ {{}},
             out \in [Outdated(M, v, S) -> {"ok", "err", "lost", "half"}] :
            /\ Cardinality({d \in Outdated(M, v, S) : out[d] \in {"lost", "half"}}) <= setting.lost
            /\ \A d \in fresh : parts[d][v] # "none" => out[d] = "err"
            /\ xl' = [d \in Disks |-> IF d \in Done(out) THEN v ELSE xl[d]]
            /\ parts' = [d \in Disks |->
                          IF d \in fresh \cap DirDone(out) THEN [parts[d] EXCEPT ![v] = "whole"]
                          ELSE parts[d]]
  BY DEF HealShards
<1>2. PICK S \in SUBSET Shardless(M, v) :
          \E fresh \in (SUBSET Outdated(M, v, S)) \ {{}},
             out \in [Outdated(M, v, S) -> {"ok", "err", "lost", "half"}] :
            /\ Cardinality({d \in Outdated(M, v, S) : out[d] \in {"lost", "half"}}) <= setting.lost
            /\ \A d \in fresh : parts[d][v] # "none" => out[d] = "err"
            /\ xl' = [d \in Disks |-> IF d \in Done(out) THEN v ELSE xl[d]]
            /\ parts' = [d \in Disks |->
                          IF d \in fresh \cap DirDone(out) THEN [parts[d] EXCEPT ![v] = "whole"]
                          ELSE parts[d]]
  BY <1>1
<1>3. PICK fresh \in (SUBSET Outdated(M, v, S)) \ {{}},
             out \in [Outdated(M, v, S) -> {"ok", "err", "lost", "half"}] :
            /\ Cardinality({d \in Outdated(M, v, S) : out[d] \in {"lost", "half"}}) <= setting.lost
            /\ \A d \in fresh : parts[d][v] # "none" => out[d] = "err"
            /\ xl' = [d \in Disks |-> IF d \in Done(out) THEN v ELSE xl[d]]
            /\ parts' = [d \in Disks |->
                          IF d \in fresh \cap DirDone(out) THEN [parts[d] EXCEPT ![v] = "whole"]
                          ELSE parts[d]]
  BY <1>2
<1>4. Outdated(M, v, S) \subseteq Disks
  BY DEF Outdated, Shardless
<1>5. Done(out) \in SUBSET Disks /\ fresh \cap DirDone(out) \in SUBSET Disks
  BY <1>4 DEF Done, DirDone
<1> USE <1>5
<1> WITNESS M \in SUBSET Disks, Done(out) \in SUBSET Disks, fresh \cap DirDone(out) \in SUBSET Disks
<1> QED
  BY <1>1, <1>3

LEMMA StateTypeStep == TypeOK /\ [Next]_vars => StateType'
<1> SUFFICES ASSUME TypeOK, [Next]_vars PROVE StateType'
  OBVIOUS
<1>1. ASSUME NEW w \in Writes,
             CheckPrecondition(w) \/ Encode(w) \/ Lock(w) \/ LockTimeout(w)
             \/ RenameData(w) \/ CommitDataDir(w)
      PROVE  StateType'
  <2>1. CASE CheckPrecondition(w)
    <3>1. PICK r \in {"checked", "failed"} : op' = [op EXCEPT ![w] = r]
      BY <2>1 DEF CheckPrecondition
    <3>2. lock' \in {w, lock}
      BY <2>1 DEF CheckPrecondition
    <3> QED
      BY <2>1, <3>1, <3>2 DEF CheckPrecondition, TypeOK
  <2>2. CASE Lock(w)
    BY <2>2 DEF Lock, TypeOK
  <2>3. CASE LockTimeout(w)
    BY <2>3 DEF LockTimeout, TypeOK
  <2> QED
    BY <1>1, <2>1, <2>2, <2>3, TypeEncode, TypeRename, TypeCommit
<1>2. ASSUME NEW w \in Writes, HealShards(w)
      PROVE  StateType'
  <2>1. PICK M \in SUBSET Disks, done \in SUBSET Disks, moved \in SUBSET Disks :
           /\ CanHeal(M, w)
           /\ xl' = [d \in Disks |-> IF d \in done THEN w ELSE xl[d]]
           /\ parts' = [d \in Disks |->
                         IF d \in moved THEN [parts[d] EXCEPT ![w] = "whole"] ELSE parts[d]]
    BY <1>2, HealEffect
  <2>2. xl' \in [Disks -> Writes \cup {Gone}]
    BY <2>1 DEF TypeOK
  <2>3. ASSUME NEW d \in Disks
        PROVE  (IF d \in moved THEN [parts[d] EXCEPT ![w] = "whole"] ELSE parts[d]) \in [Writes -> Shard]
    BY DEF TypeOK, Shard
  <2>4. parts' \in [Disks -> [Writes -> Shard]]
    BY <2>1, <2>3
  <2>5. heals' \in 0 .. setting.heals
    <3>1. setting.heals \in Nat /\ heals \in 0 .. setting.heals /\ heals' = heals + 1 /\ heals < setting.heals
      BY <1>2, ErasureAssumption DEF HealShards, TypeOK
    <3> QED
      BY <3>1
  <2> QED
    BY <1>2, <2>2, <2>4, <2>5 DEF HealShards, TypeOK
<1>3. ASSUME NEW w \in Writes, NEW d \in Disks, LateRename(d, w)
      PROVE  StateType'
  <2>1. tmp' \in [Writes -> [Disks -> Shard]]
    BY <1>3 DEF LateRename, TypeOK, Shard
  <2>2. parts' \in [Disks -> [Writes -> Shard]]
    BY <1>3 DEF LateRename, TypeOK
  <2> QED
    BY <1>3, <2>1, <2>2 DEF LateRename, TypeOK
<1>4. CASE DeleteObject
  <2>1. PICK out \in Outcomes :
       /\ DeleteVersion(out)
       /\ legal' = IF Cardinality(Ok(out)) >= DeleteQuorum THEN {Gone}
                   ELSE IF Tried(out) = {} THEN legal ELSE legal \cup {Gone}
    BY <1>4 DEF DeleteObject
  <2>2. legal' \subseteq Writes \cup {Gone} /\ legal' # {}
    BY <2>1 DEF TypeOK
  <2>3. deletes' \in 0 .. MaxDeletes
    BY <1>4, ErasureAssumption DEF DeleteObject, TypeOK
  <2>4. /\ xl' \in [Disks -> Writes \cup {Gone}] /\ parts' \in [Disks -> [Writes -> Shard]]
        /\ lates' \subseteq Calls /\ late' \subseteq lates'
    BY <2>1, TypeDelete
  <2> QED
    BY <1>4, <2>2, <2>3, <2>4 DEF DeleteObject, TypeOK
<1>5. CASE HealDangling
  <2>1. /\ xl' \in [Disks -> Writes \cup {Gone}] /\ parts' \in [Disks -> [Writes -> Shard]]
        /\ lates' \subseteq Calls /\ late' \subseteq lates'
    BY <1>5, TypeDelete DEF HealDangling
  <2>2. heals' \in 0 .. setting.heals
    <3>1. setting.heals \in Nat /\ heals \in 0 .. setting.heals /\ heals' = heals + 1 /\ heals < setting.heals
      BY <1>5, ErasureAssumption DEF HealDangling, TypeOK
    <3> QED
      BY <3>1
  <2> QED
    BY <1>5, <2>1, <2>2 DEF HealDangling, TypeOK
<1>6. ASSUME NEW d \in Disks, LateDelete(d)
      PROVE  StateType'
  <2>1. parts' \in [Disks -> [Writes -> Shard]]
    <3>1. parts' = parts \/ parts' = [parts EXCEPT ![d][xl[d]] = "none"]
      BY <1>6 DEF LateDelete
    <3>2. [parts[d] EXCEPT ![xl[d]] = "none"] \in [Writes -> Shard]
      BY DEF TypeOK, Shard
    <3> QED
      BY <3>1, <3>2 DEF TypeOK
  <2> QED
    BY <1>6, <2>1 DEF LateDelete, TypeOK
<1>7. CASE UNCHANGED vars
  BY <1>7 DEF vars, TypeOK
<1> QED
  BY <1>1, <1>2, <1>3, <1>4, <1>5, <1>6, <1>7 DEF Next

-----------------------------------------------------------------------------
(* Traces and the lock. *)

\* The steps of a put that leave the disks and the object alone.
Quiet(w) == CheckPrecondition(w) \/ Encode(w) \/ Lock(w) \/ LockTimeout(w)

LEMMA QuietEffect ==
  ASSUME TypeOK, NEW w \in Writes, Quiet(w)
  PROVE  /\ UNCHANGED <<setting, xl, parts, oldDir, deletes, heals, late, lates, legal, short>>
         /\ op[w] \in {"idle", "checked", "staged"}
         /\ op'[w] \in {"checked", "staged", "locked", "failed"}
         /\ \A v \in Writes \ {w} : op'[v] = op[v]
         /\ op'[w] \in {"checked", "locked"} => lock' = w \/ (op[w] = "checked" /\ lock' = lock)
         /\ lock' = lock \/ lock = Gone \/ lock = w
<1>1. CASE CheckPrecondition(w)
  BY <1>1 DEF CheckPrecondition, TypeOK
<1>2. CASE Encode(w)
  <2>1. \/ /\ op' = [op EXCEPT ![w] = IF w \in Conditional THEN "locked" ELSE "staged"]
           /\ UNCHANGED lock
        \/ /\ op' = [op EXCEPT ![w] = "failed"]
           /\ lock' = IF lock = w THEN Gone ELSE lock
    BY <1>2 DEF Encode
  <2>2. op[w] = IF w \in Conditional THEN "checked" ELSE "idle"
    BY <1>2 DEF Encode
  <2> QED
    BY <1>2, <2>1, <2>2 DEF Encode, TypeOK
<1>3. CASE Lock(w)
  BY <1>3 DEF Lock, TypeOK
<1>4. CASE LockTimeout(w)
  BY <1>4 DEF LockTimeout, TypeOK
<1> QED
  BY <1>1, <1>2, <1>3, <1>4 DEF Quiet

\* rename_data, without the shards.
LEMMA RenameEffect ==
  ASSUME TypeOK, NEW w \in Writes, RenameData(w)
  PROVE  \E out \in Outcomes :
           /\ NoteLate(out, w)
           /\ xl' = [d \in Disks |-> IF d \in Done(out) THEN w ELSE xl[d]]
           /\ parts' = [d \in Disks |->
                     IF d \in DirDone(out) THEN [parts[d] EXCEPT ![w] = tmp[w][d]] ELSE parts[d]]
           /\ short \subseteq short'
           /\ w \notin short' => Cardinality({d \in Done(out) : tmp[w][d] = "whole"}) >= DataBlocks
           /\ op[w] = "locked" /\ UNCHANGED setting
           /\ \A v \in Writes \ {w} : op'[v] = op[v]
           /\ \/ /\ Cardinality(Ok(out)) >= WriteQuorum
                 /\ op'[w] = "renamed" /\ legal' = {w} /\ lock' = lock
                 /\ oldDir' = CommonDataDir(out)
              \/ /\ op'[w] = "failed" /\ lock' = Gone /\ oldDir' = oldDir
                 /\ legal' = IF Tried(out) = {} THEN legal ELSE legal \cup {w}
<1>1. PICK out \in Outcomes :
       /\ NoteLate(out, w)
       /\ xl' = [d \in Disks |-> IF d \in Done(out) THEN w ELSE xl[d]]
       /\ parts' = [d \in Disks |->
                     IF d \in DirDone(out) THEN [parts[d] EXCEPT ![w] = tmp[w][d]] ELSE parts[d]]
       /\ short' = IF Cardinality({d \in Done(out) : tmp[w][d] = "whole"}) < DataBlocks
                   THEN short \cup {w} ELSE short
       /\ \/ /\ Cardinality(Ok(out)) >= WriteQuorum
             /\ op' = [op EXCEPT ![w] = "renamed"]
             /\ oldDir' = CommonDataDir(out)
             /\ legal' = {w}
             /\ UNCHANGED lock
          \/ /\ op' = [op EXCEPT ![w] = "failed"]
             /\ legal' = IF Tried(out) = {} THEN legal ELSE legal \cup {w}
             /\ lock' = Gone
             /\ UNCHANGED oldDir
  BY DEF RenameData
<1> DEFINE W == {d \in Done(out) : tmp[w][d] = "whole"}
<1>2. W \in SUBSET Disks
  BY OutcomeSets
<1>3. Cardinality(W) \in Nat /\ DataBlocks \in Nat
  BY <1>2, SomeDisks, Quorums
<1>4. ~(Cardinality(W) < DataBlocks) => Cardinality(W) >= DataBlocks
  BY <1>3
<1>5. w \notin short' => Cardinality(W) >= DataBlocks
  BY <1>1, <1>4
<1>6. op[w] = "locked" /\ UNCHANGED setting
  BY DEF RenameData
<1> QED
  BY <1>1, <1>5, <1>6 DEF TypeOK

\* delete_object and delete_if_dangling, without the shards.
LEMMA DeleteEffect ==
  ASSUME TypeOK, DeleteObject \/ HealDangling
  PROVE  \E out \in Outcomes :
           /\ DeleteVersion(out)
           /\ UNCHANGED <<setting, op, lock, oldDir, short>> /\ lock = Gone
           /\ \/ UNCHANGED legal /\ HealDangling
              \/ Cardinality(Ok(out)) >= DeleteQuorum /\ legal' = {Gone}
              \/ legal' = legal \cup {Gone}
              \/ UNCHANGED legal /\ Tried(out) = {}
BY DEF DeleteObject, HealDangling

\* What a get finds, some disk has.
LEMMA SomeDiskHas ==
  ASSUME TypeOK, NEW M \in SUBSET Disks, NEW w \in Writes, FileInfo(M, w)
  PROVE  \E d \in Disks : xl[d] = w
<1>1. Cardinality(Holding(M, w)) >= DataBlocks /\ DataBlocks >= 1 /\ DataBlocks \in Nat
  BY Quorums DEF FileInfo
<1>2. Holding(M, w) # {}
  <2>1. Cardinality({}) = 0
    BY FS_EmptySet
  <2> QED
    BY <1>1, <2>1
<1> QED
  BY <1>2 DEF Holding

LEMMA UntracedStep == TypeOK /\ Untraced /\ [Next]_vars => Untraced'
<1> SUFFICES ASSUME TypeOK, Untraced, [Next]_vars,
                    NEW v \in Writes, op'[v] \in Early
             PROVE  v \notin legal' /\ \A d \in Disks : xl'[d] # v /\ <<d, v>> \notin lates'
  BY DEF Untraced
<1>1. ASSUME NEW w \in Writes, Quiet(w)
      PROVE  v \notin legal' /\ \A d \in Disks : xl'[d] # v /\ <<d, v>> \notin lates'
  <2>1. op[v] \in Early /\ UNCHANGED <<xl, legal, lates>>
    BY <1>1, QuietEffect DEF Early
  <2> QED
    BY <2>1 DEF Untraced
<1>2. ASSUME NEW w \in Writes, RenameData(w)
      PROVE  v \notin legal' /\ \A d \in Disks : xl'[d] # v /\ <<d, v>> \notin lates'
  <2>1. PICK out \in Outcomes :
           /\ NoteLate(out, w)
           /\ xl' = [d \in Disks |-> IF d \in Done(out) THEN w ELSE xl[d]]
           /\ \A u \in Writes \ {w} : op'[u] = op[u]
           /\ \/ op'[w] = "renamed" /\ legal' = {w}
              \/ /\ op'[w] = "failed"
                 /\ legal' = IF Tried(out) = {} THEN legal ELSE legal \cup {w}
    BY <1>2, RenameEffect
  <2>2. v # w /\ op[v] \in Early
    BY <2>1 DEF Early
  <2>3. \A x \in lates' : x \in lates \/ x[2] = w
    BY <2>1, NoteLateType, Names
  <2>4. \A d \in Disks : xl[d] # v /\ <<d, v>> \notin lates /\ <<d, v>>[2] = v
    BY <2>2 DEF Untraced
  <2>5. v \notin legal
    BY <2>2 DEF Untraced
  <2>6. \A d \in Disks : <<d, v>> \notin lates'
    BY <2>2, <2>3, <2>4
  <2>7. \A d \in Disks : xl'[d] # v
    BY <2>1, <2>2, <2>4
  <2> QED
    BY <2>1, <2>2, <2>5, <2>6, <2>7
<1>3. ASSUME NEW w \in Writes, CommitDataDir(w)
      PROVE  v \notin legal' /\ \A d \in Disks : xl'[d] # v /\ <<d, v>> \notin lates'
  <2>1. op' = [op EXCEPT ![w] = "acked"] \/ op' = [op EXCEPT ![w] = "failed"]
    BY <1>3 DEF CommitDataDir
  <2>2. op[v] \in Early /\ UNCHANGED <<xl, legal, lates>>
    BY <1>3, <2>1 DEF CommitDataDir, Early, TypeOK
  <2> QED
    BY <2>2 DEF Untraced
<1>4. ASSUME NEW w \in Writes, HealShards(w)
      PROVE  v \notin legal' /\ \A d \in Disks : xl'[d] # v /\ <<d, v>> \notin lates'
  <2>1. PICK M \in SUBSET Disks, done \in SUBSET Disks :
           CanHeal(M, w) /\ xl' = [d \in Disks |-> IF d \in done THEN w ELSE xl[d]]
    BY <1>4, HealEffect
  <2>2. op[v] \in Early /\ UNCHANGED <<legal, lates>>
    BY <1>4 DEF HealShards
  <2>3. \E d \in Disks : xl[d] = w
    BY <2>1, SomeDiskHas DEF CanHeal
  <2>4. w # v
    BY <2>2, <2>3 DEF Untraced
  <2> QED
    BY <2>1, <2>2, <2>4 DEF Untraced
<1>5. CASE DeleteObject \/ HealDangling
  <2>1. PICK out \in Outcomes :
           /\ DeleteVersion(out) /\ UNCHANGED op
           /\ legal' \subseteq legal \cup {Gone}
    BY <1>5, DeleteEffect
  <2>2. op[v] \in Early
    BY <2>1
  <2>3. \A x \in lates' : x \in lates \/ x[2] = Deletion
    BY <2>1, NoteLateType, Names DEF DeleteVersion
  <2>4. \A d \in Disks : xl[d] # v /\ <<d, v>> \notin lates /\ <<d, v>>[2] = v
    BY <2>2 DEF Untraced
  <2>5. v \notin legal /\ v # Gone /\ v # Deletion
    BY <2>2, Names DEF Untraced
  <2>6. \A d \in Disks : <<d, v>> \notin lates'
    BY <2>3, <2>4, <2>5
  <2>7. \A d \in Disks : xl'[d] # v
    BY <2>1, <2>4, <2>5 DEF DeleteVersion
  <2> QED
    BY <2>1, <2>5, <2>6, <2>7
<1>6. ASSUME NEW w \in Writes, NEW e \in Disks, LateRename(e, w)
      PROVE  v \notin legal' /\ \A d \in Disks : xl'[d] # v /\ <<d, v>> \notin lates'
  <2>1. op[v] \in Early /\ UNCHANGED <<legal, lates>>
    BY <1>6 DEF LateRename
  <2>2. <<e, w>> \in lates /\ xl' = [xl EXCEPT ![e] = w]
    BY <1>6 DEF LateRename, TypeOK
  <2>3. w # v
    BY <2>1, <2>2 DEF Untraced
  <2> QED
    BY <2>1, <2>2, <2>3 DEF Untraced, TypeOK
<1>7. ASSUME NEW e \in Disks, LateDelete(e)
      PROVE  v \notin legal' /\ \A d \in Disks : xl'[d] # v /\ <<d, v>> \notin lates'
  <2>1. op[v] \in Early /\ UNCHANGED <<legal, lates>>
    BY <1>7 DEF LateDelete
  <2>2. xl' = xl \/ xl' = [xl EXCEPT ![e] = Gone]
    BY <1>7 DEF LateDelete
  <2> QED
    BY <2>1, <2>2, Names DEF Untraced, TypeOK
<1>8. CASE UNCHANGED vars
  BY <1>8 DEF vars, Untraced
<1> QED
  BY <1>1, <1>2, <1>3, <1>4, <1>5, <1>6, <1>7, <1>8 DEF Next, Quiet

\* reduce_common_data_dir names a version that some disk has.
LEMMA CommonDirHeld ==
  ASSUME TypeOK, NEW out \in Outcomes, CommonDataDir(out) # Gone
  PROVE  \E d \in Disks : xl[d] = CommonDataDir(out)
<1> DEFINE Old(d) == IF out[d] = "ok" THEN xl[d] ELSE Gone
           Voters(v) == {d \in Disks : Old(d) = v}
           Common == {v \in Writes : Cardinality(Voters(v)) >= WriteQuorum}
           c == CommonDataDir(out)
<1>1. c \in Common
  BY DEF CommonDataDir
<1>2. Cardinality(Voters(c)) >= WriteQuorum /\ WriteQuorum >= 1 /\ WriteQuorum \in Nat /\ c # Gone
  <2>1. WriteQuorum >= 1 /\ WriteQuorum \in Nat
    BY Quorums
  <2> QED
    BY <1>1, <2>1
<1>3. Voters(c) # {}
  <2>1. Cardinality({}) = 0
    BY FS_EmptySet
  <2> QED
    BY <1>2, <2>1
<1>4. PICK d \in Disks : Old(d) = c
  BY <1>3
<1> QED
  BY <1>2, <1>4

\* One put at a time has the lock.
LEMMA OneWriterStep == TypeOK /\ [Next]_vars => OneWriter'
<1> DEFINE Busy == {"checked", "locked", "renamed"}
<1> SUFFICES ASSUME TypeOK, [Next]_vars, NEW v \in Writes
             PROVE  lock' = v <=> op'[v] \in Busy
  BY DEF OneWriter
<1>0. \A u \in Writes : (lock = u <=> op[u] \in Busy) /\ u # Gone
  BY Names DEF TypeOK, OneWriter
<1>1. ASSUME NEW w \in Writes, Quiet(w)
      PROVE  lock' = v <=> op'[v] \in Busy
  <2>1. CASE CheckPrecondition(w)
    BY <1>0, <2>1 DEF CheckPrecondition, TypeOK
  <2>2. CASE Encode(w)
    <3>1. \/ /\ op' = [op EXCEPT ![w] = IF w \in Conditional THEN "locked" ELSE "staged"]
             /\ UNCHANGED lock
          \/ /\ op' = [op EXCEPT ![w] = "failed"]
             /\ lock' = IF lock = w THEN Gone ELSE lock
      BY <2>2 DEF Encode
    <3>2. op[w] = IF w \in Conditional THEN "checked" ELSE "idle"
      BY <2>2 DEF Encode
    <3> QED
      BY <1>0, <3>1, <3>2 DEF TypeOK
  <2>3. CASE Lock(w)
    BY <1>0, <2>3 DEF Lock, TypeOK
  <2>4. CASE LockTimeout(w)
    BY <1>0, <2>4 DEF LockTimeout, TypeOK
  <2> QED
    BY <1>1, <2>1, <2>2, <2>3, <2>4 DEF Quiet
<1>2. ASSUME NEW w \in Writes, RenameData(w)
      PROVE  lock' = v <=> op'[v] \in Busy
  <2>1. /\ op[w] = "locked" /\ \A u \in Writes \ {w} : op'[u] = op[u]
        /\ (op'[w] = "renamed" /\ lock' = lock) \/ (op'[w] = "failed" /\ lock' = Gone)
    BY <1>2, RenameEffect
  <2> QED
    BY <1>0, <2>1
<1>3. ASSUME NEW w \in Writes, CommitDataDir(w)
      PROVE  lock' = v <=> op'[v] \in Busy
  <2>1. /\ op[w] = "renamed" /\ lock' = Gone
        /\ op' = [op EXCEPT ![w] = "acked"] \/ op' = [op EXCEPT ![w] = "failed"]
    BY <1>3 DEF CommitDataDir
  <2> QED
    BY <1>0, <2>1 DEF TypeOK
<1>4. CASE UNCHANGED <<op, lock>>
  BY <1>0, <1>4
<1> QED
  BY <1>1, <1>2, <1>3, <1>4 DEF Next, Quiet, HealShards, LateRename, DeleteObject, HealDangling,
     LateDelete, vars

LEMMA TypeStep == TypeOK /\ [Next]_vars => TypeOK'
BY StateTypeStep, OneWriterStep DEF TypeOK

LEMMA LockedStep == TypeOK /\ Untraced /\ Locked /\ [Next]_vars => Locked'
<1> SUFFICES ASSUME TypeOK, Untraced, Locked, [Next]_vars, NEW v \in Writes, op'[v] = "renamed"
             PROVE  legal' = {v} /\ oldDir' # v
  BY DEF Locked
<1>0. /\ op[v] = "renamed" => legal = {v} /\ oldDir # v /\ lock = v
      /\ v # Gone
  BY Names DEF Locked, TypeOK, OneWriter
<1>1. ASSUME NEW w \in Writes, Quiet(w)
      PROVE  legal' = {v} /\ oldDir' # v
  <2>1. v # w
    BY <1>1, QuietEffect
  <2>2. op'[v] = op[v] /\ UNCHANGED <<legal, oldDir>>
    BY <1>1, <2>1, QuietEffect
  <2> QED
    BY <1>0, <2>2
<1>2. ASSUME NEW w \in Writes, RenameData(w)
      PROVE  legal' = {v} /\ oldDir' # v
  <2>1. PICK out \in Outcomes :
           /\ op[w] = "locked" /\ \A u \in Writes \ {w} : op'[u] = op[u]
           /\ \/ /\ op'[w] = "renamed" /\ legal' = {w} /\ lock' = lock
                 /\ oldDir' = CommonDataDir(out)
              \/ op'[w] = "failed"
    BY <1>2, RenameEffect
  <2>2. lock = w
    BY <2>1 DEF TypeOK, OneWriter
  <2>3. v = w
    BY <1>0, <2>1, <2>2
  <2>4. \A d \in Disks : xl[d] # w
    BY <2>1 DEF Untraced, Early
  <2>5. CommonDataDir(out) # w
    BY <2>4, CommonDirHeld, Names
  <2> QED
    BY <2>1, <2>3, <2>5
<1>3. ASSUME NEW w \in Writes, CommitDataDir(w)
      PROVE  FALSE
  <2>1. op' = [op EXCEPT ![w] = "acked"] \/ op' = [op EXCEPT ![w] = "failed"]
    BY <1>3 DEF CommitDataDir
  <2>2. lock = w
    BY <1>3 DEF CommitDataDir, TypeOK, OneWriter
  <2> QED
    BY <1>0, <2>1, <2>2 DEF TypeOK
<1>4. CASE DeleteObject \/ HealDangling \/ \E w \in Writes : HealShards(w)
  <2>1. UNCHANGED op /\ lock = Gone
    BY <1>4 DEF DeleteObject, HealDangling, HealShards
  <2> QED
    BY <1>0, <2>1
<1>5. CASE UNCHANGED vars \/ (\E w \in Writes, d \in Disks : LateRename(d, w)) \/ \E d \in Disks : LateDelete(d)
  <2>1. UNCHANGED <<op, lock, legal, oldDir>>
    BY <1>5 DEF vars, LateRename, LateDelete
  <2> QED
    BY <1>0, <2>1
<1> QED
  BY <1>1, <1>2, <1>3, <1>4, <1>5 DEF Next, Quiet

-----------------------------------------------------------------------------
(* Stale disks. *)

\* More late calls do not settle anything.
LEMMA SettledBefore ==
  ASSUME TypeOK, TypeOK', setting' = setting, lates \subseteq lates', Settled'
  PROVE  Settled
<1>1. Cardinality(lates) <= Cardinality(lates') /\ Cardinality(lates) \in Nat /\ Cardinality(lates') \in Nat
  BY MoreCalls DEF TypeOK
<1>2. DataBlocks' = DataBlocks /\ DataBlocks \in Nat /\ Drives \in Nat /\ Drives \div 2 \in Nat
  BY Fixed, Quorums
<1> DEFINE h == Drives \div 2
<1>3. Drives - (h + 1) + Cardinality(lates') < DataBlocks
  BY <1>2 DEF Settled
<1>4. h \in Nat
  BY <1>2
<1> HIDE DEF h
<1>5. Drives - (h + 1) + Cardinality(lates) < DataBlocks
  BY <1>1, <1>2, <1>3, <1>4
<1> QED
  BY <1>5 DEF Settled, h

\* In a settled state a version that enough disks have is legal.
LEMMA CommonIsLegal ==
  ASSUME TypeOK, FewStale, Settled, NEW w \in Writes, NEW S \in SUBSET Disks,
         \A d \in S : xl[d] = w, Cardinality(S) >= DataBlocks
  PROVE  w \in legal
<1> SUFFICES ASSUME w \notin legal PROVE FALSE
  OBVIOUS
<1>1. S \subseteq Stale /\ Stale \in SUBSET Disks
  BY Names DEF Stale
<1>2. Cardinality(S) <= Cardinality(Stale) /\ Cardinality(S) \in Nat /\ Cardinality(Stale) \in Nat
  BY <1>1, MoreDisks
<1>3. Cardinality(Spent) <= Cardinality(lates) /\ Cardinality(Spent) \in Nat /\ Cardinality(lates) \in Nat
  <2>1. Spent \subseteq lates /\ lates \in SUBSET Calls
    BY DEF Spent, TypeOK
  <2> QED
    BY <2>1, MoreCalls
<1>4. DataBlocks \in Nat /\ Drives \in Nat /\ Drives \div 2 \in Nat
  BY Quorums
<1> DEFINE h == Drives \div 2
<1>5. Cardinality(Stale) <= Drives - (h + 1) + Cardinality(Spent)
  BY DEF FewStale
<1>6. Drives - (h + 1) + Cardinality(lates) < DataBlocks
  BY DEF Settled
<1>7. h \in Nat
  BY <1>4
<1> HIDE DEF h
<1> QED
  BY <1>2, <1>3, <1>4, <1>5, <1>6, <1>7

\* So is what a get, a heal or a precondition finds.
LEMMA FoundIsLegal ==
  ASSUME TypeOK, FewStale, Settled, NEW w \in Writes, NEW M \in SUBSET Disks, FileInfo(M, w)
  PROVE  w \in legal
BY CommonIsLegal DEF FileInfo, Holding

\* After a completed operation the disks that missed it are a minority.
LEMMA MinorityStale ==
  ASSUME TypeOK, TypeOK', NEW S \in SUBSET Disks, Cardinality(S) >= Drives \div 2 + 1,
         \A d \in S : xl'[d] \in legal' \cup {Gone}
  PROVE  FewStale'
<1>1. Stale' \subseteq Disks \ S /\ Disks \ S \in SUBSET Disks
  BY DEF Stale
<1>2. Cardinality(Stale') <= Cardinality(Disks \ S) /\ Cardinality(Stale') \in Nat
  BY <1>1, MoreDisks
<1>3. Cardinality(Disks \ S) = Drives - Cardinality(S) /\ Cardinality(S) \in Nat
  BY SomeDisks
<1>4. Drives \in Nat /\ Drives \div 2 \in Nat
  BY Quorums
<1>5. Cardinality(Spent') \in Nat
  <2>1. Spent' \in SUBSET Calls
    BY DEF Spent, TypeOK
  <2> QED
    BY <2>1, SomeCalls
<1> DEFINE h == Drives \div 2
<1>6. h \in Nat /\ Cardinality(S) >= h + 1
  BY <1>4
<1> HIDE DEF h
<1>7. Cardinality(Stale') <= Drives - (h + 1) + Cardinality(Spent')
  BY <1>2, <1>3, <1>4, <1>5, <1>6
<1> QED
  BY <1>7 DEF FewStale, h

\* A step that makes no disk stale and takes back no late call.
LEMMA NoneStale ==
  ASSUME TypeOK, TypeOK', FewStale, setting' = setting, lates \subseteq lates',
         Settled => Stale' \subseteq Stale /\ Spent \subseteq Spent'
  PROVE  FewStale'
<1> SUFFICES ASSUME Settled'
             PROVE  Cardinality(Stale') <= Drives - (Drives \div 2 + 1) + Cardinality(Spent')
  BY DEF FewStale
<1>1. Settled
  BY SettledBefore
<1>2. Stale' \subseteq Stale /\ Spent \subseteq Spent' /\ Stale \in SUBSET Disks /\ Spent' \in SUBSET Calls
  BY <1>1 DEF Stale, Spent, TypeOK
<1>3. /\ Cardinality(Stale') <= Cardinality(Stale) /\ Cardinality(Stale') \in Nat
      /\ Cardinality(Stale) \in Nat
  BY <1>2, MoreDisks
<1>4. /\ Cardinality(Spent) <= Cardinality(Spent') /\ Cardinality(Spent) \in Nat
      /\ Cardinality(Spent') \in Nat
  BY <1>2, MoreCalls
<1> DEFINE h == Drives \div 2
<1>5. Cardinality(Stale) <= Drives - (h + 1) + Cardinality(Spent)
  BY <1>1 DEF FewStale
<1>6. Drives \in Nat /\ h \in Nat
  BY Quorums
<1> HIDE DEF h
<1>7. Cardinality(Stale') <= Drives - (h + 1) + Cardinality(Spent')
  BY <1>3, <1>4, <1>5, <1>6
<1> QED
  BY <1>7 DEF h

\* A rename carried out late makes one disk stale at most.
LEMMA LateStale ==
  ASSUME TypeOK, TypeOK', FewStale, NEW d \in Disks, NEW w \in Writes, LateRename(d, w)
  PROVE  FewStale'
<1> SUFFICES ASSUME Settled'
             PROVE  Cardinality(Stale') <= Drives - (Drives \div 2 + 1) + Cardinality(Spent')
  BY DEF FewStale
<1>1. UNCHANGED <<setting, lates, legal>> /\ late' = late \ {<<d, w>>} /\ <<d, w>> \in late
      /\ xl' = [xl EXCEPT ![d] = w]
  BY DEF LateRename
<1>2. Settled
  BY <1>1, SettledBefore
<1>3. Stale' \subseteq Stale \cup {d} /\ Stale \in SUBSET Disks
  BY <1>1 DEF Stale, TypeOK
<1>4. IsFiniteSet(Stale) /\ Cardinality(Stale) \in Nat
  BY <1>3, SomeDisks
<1>5. Cardinality(Stale \cup {d}) <= Cardinality(Stale) + 1
  <2>1. CASE d \in Stale
    <3>1. Stale \cup {d} = Stale
      BY <2>1
    <3>2. Cardinality(Stale \cup {d}) = Cardinality(Stale)
      BY <3>1
    <3> QED
      BY <3>2, <1>4
  <2>2. CASE d \notin Stale
    <3>1. Cardinality(Stale \cup {d}) = Cardinality(Stale) + 1
      BY <1>4, <2>2, FS_AddElement
    <3> QED
      BY <3>1, <1>4
  <2> QED
    BY <2>1, <2>2
<1>6. Stale \cup {d} \in SUBSET Disks
  BY <1>3
<1>7. /\ Cardinality(Stale') <= Cardinality(Stale \cup {d}) /\ Cardinality(Stale') \in Nat
      /\ Cardinality(Stale \cup {d}) \in Nat
  BY <1>3, <1>6, MoreDisks
<1>8. <<d, w>> \notin Spent /\ Spent' = Spent \cup {<<d, w>>}
  <2>1. <<d, w>>[2] # Deletion /\ <<d, w>> \in lates
    BY <1>1, Names DEF TypeOK
  <2> QED
    BY <1>1, <2>1 DEF Spent
<1>9. Spent \in SUBSET Calls
  BY DEF Spent, TypeOK
<1>10. IsFiniteSet(Spent) /\ Cardinality(Spent) \in Nat
  BY <1>9, SomeCalls
<1>11. Cardinality(Spent') = Cardinality(Spent) + 1
  BY <1>8, <1>10, FS_AddElement
<1> DEFINE h == Drives \div 2
<1>12. Cardinality(Stale) <= Drives - (h + 1) + Cardinality(Spent)
  BY <1>2 DEF FewStale
<1>13. Drives \in Nat /\ h \in Nat
  BY Quorums
<1> HIDE DEF h
<1>14. Cardinality(Stale') <= Drives - (h + 1) + Cardinality(Spent')
  BY <1>4, <1>5, <1>7, <1>10, <1>11, <1>12, <1>13
<1> QED
  BY <1>14 DEF h

LEMMA StaleStep ==
  TypeOK /\ TypeOK' /\ Untraced /\ FewStale /\ [Next]_vars => FewStale'
<1> SUFFICES ASSUME TypeOK, TypeOK', Untraced, FewStale, [Next]_vars PROVE FewStale'
  OBVIOUS
<1>1. CASE UNCHANGED <<setting, xl, late, lates, legal>>
  <2>1. Stale' = Stale /\ Spent' = Spent
    BY <1>1 DEF Stale, Spent
  <2> QED
    BY <1>1, <2>1, NoneStale
<1>2. ASSUME NEW w \in Writes, RenameData(w)
      PROVE  FewStale'
  <2>1. PICK out \in Outcomes :
           /\ NoteLate(out, w) /\ UNCHANGED setting /\ op[w] = "locked"
           /\ xl' = [d \in Disks |-> IF d \in Done(out) THEN w ELSE xl[d]]
           /\ \/ Cardinality(Ok(out)) >= WriteQuorum /\ legal' = {w}
              \/ legal' = IF Tried(out) = {} THEN legal ELSE legal \cup {w}
    BY <1>2, RenameEffect
  <2>2. CASE Cardinality(Ok(out)) >= WriteQuorum /\ legal' = {w}
    <3>1. Ok(out) \in SUBSET Disks /\ \A d \in Ok(out) : xl'[d] \in legal' \cup {Gone}
      BY <2>1, <2>2, OutcomeSets
    <3>2. Cardinality(Ok(out)) >= Drives \div 2 + 1
      <4>1. WriteQuorum \in Nat /\ Drives \div 2 \in Nat /\ WriteQuorum >= Drives \div 2 + 1
        BY Quorums
      <4>2. Cardinality(Ok(out)) \in Nat
        BY <3>1, SomeDisks
      <4> QED
        BY <2>2, <4>1, <4>2
    <3> QED
      BY <3>1, <3>2, MinorityStale
  <2>3. CASE legal' = IF Tried(out) = {} THEN legal ELSE legal \cup {w}
    <3>1. legal \subseteq legal' /\ (Done(out) # {} => w \in legal')
      BY <2>3, OutcomeSets
    <3>2. Stale' \subseteq Stale
      BY <2>1, <3>1 DEF Stale
    <3>3. /\ lates \subseteq lates' /\ late' \subseteq lates'
          /\ \A x \in late' : x \in late \/ x \notin lates
      <4> DEFINE new == {<<d, w>> : d \in {e \in Disks : out[e] = "late"}}
      <4>1. \A d \in Disks : <<d, w>> \notin lates
        BY <2>1 DEF Untraced, Early
      <4>2. \A x \in new : x \notin lates
        BY <4>1
      <4>3. late' = late \cup new
        BY <2>1 DEF NoteLate
      <4>4. lates \subseteq lates' /\ late' \subseteq lates'
        BY <2>1, Names, NoteLateType
      <4> HIDE DEF new
      <4> QED
        BY <4>2, <4>3, <4>4
    <3>4. Spent \subseteq Spent'
      BY <3>3 DEF Spent
    <3> QED
      BY <2>1, <3>2, <3>3, <3>4, NoneStale
  <2> QED
    BY <2>1, <2>2, <2>3
<1>3. CASE DeleteObject \/ HealDangling
  <2>1. PICK out \in Outcomes :
           /\ DeleteVersion(out) /\ UNCHANGED setting
           /\ \/ Cardinality(Ok(out)) >= DeleteQuorum /\ legal' = {Gone}
              \/ legal' \in {legal, legal \cup {Gone}}
    BY <1>3, DeleteEffect
  <2>2. CASE Cardinality(Ok(out)) >= DeleteQuorum /\ legal' = {Gone}
    <3>1. Ok(out) \in SUBSET Disks /\ \A d \in Ok(out) : xl'[d] \in legal' \cup {Gone}
      BY <2>1, OutcomeSets DEF DeleteVersion
    <3> QED
      BY <2>2, <3>1, MinorityStale DEF DeleteQuorum
  <2>3. CASE legal' \in {legal, legal \cup {Gone}}
    <3>1. Stale' \subseteq Stale
      BY <2>1, <2>3 DEF DeleteVersion, Stale
    <3>2. /\ lates \subseteq lates'
          /\ \A x \in late' : x \in late \/ x[2] = Deletion
      BY <2>1, Names, NoteLateType DEF DeleteVersion
    <3>3. Spent \subseteq Spent'
      BY <3>2 DEF Spent
    <3> QED
      BY <2>1, <3>1, <3>2, <3>3, NoneStale
  <2> QED
    BY <2>1, <2>2, <2>3
<1>4. ASSUME NEW w \in Writes, HealShards(w)
      PROVE  FewStale'
  <2>1. PICK M \in SUBSET Disks, done \in SUBSET Disks :
           CanHeal(M, w) /\ xl' = [d \in Disks |-> IF d \in done THEN w ELSE xl[d]]
    BY <1>4, HealEffect
  <2>2. UNCHANGED <<setting, late, lates, legal>>
    BY <1>4 DEF HealShards
  <2>3. Settled => w \in legal
    BY <2>1, FoundIsLegal DEF CanHeal
  <2>4. Settled => Stale' \subseteq Stale
    BY <2>1, <2>2, <2>3 DEF Stale
  <2>5. Spent' = Spent
    BY <2>2 DEF Spent
  <2> QED
    BY <2>2, <2>4, <2>5, NoneStale
<1>5. ASSUME NEW d \in Disks, LateDelete(d)
      PROVE  FewStale'
  <2>1. UNCHANGED <<setting, lates, legal>> /\ late' = late \ {<<d, Deletion>>}
    BY <1>5 DEF LateDelete
  <2>2. xl' = xl \/ xl' = [xl EXCEPT ![d] = Gone]
    BY <1>5 DEF LateDelete
  <2>3. Stale' \subseteq Stale
    BY <2>1, <2>2 DEF Stale, TypeOK
  <2>4. Spent \subseteq Spent'
    BY <2>1 DEF Spent
  <2> QED
    BY <2>1, <2>3, <2>4, NoneStale
<1>6. ASSUME NEW w \in Writes, Quiet(w)
      PROVE  UNCHANGED <<setting, xl, late, lates, legal>>
  BY <1>6, QuietEffect
<1>7. ASSUME NEW w \in Writes, CommitDataDir(w)
      PROVE  UNCHANGED <<setting, xl, late, lates, legal>>
  BY <1>7 DEF CommitDataDir
<1>8. CASE UNCHANGED vars
  BY <1>1, <1>8 DEF vars
<1> QED
  BY <1>1, <1>2, <1>3, <1>4, <1>5, <1>6, <1>7, <1>8, LateStale DEF Next, Quiet

-----------------------------------------------------------------------------
(* The object and its shards. *)

LEMMA PresentBefore ==
  ASSUME TypeOK, TypeOK', setting' = setting, lates \subseteq lates', legal \subseteq legal',
         short \subseteq short', Present'
  PROVE  Present
<1>1. Settled
  BY SettledBefore DEF Present
<1>2. NoLateDelete
  BY DEF Present, NoLateDelete
<1> QED
  BY <1>1, <1>2 DEF Present

\* Without late calls the state is settled.
LEMMA SettledAtRest ==
  ASSUME TypeOK, lates = {}
  PROVE  Settled
<1>1. Cardinality(lates) = 0
  BY FS_EmptySet
<1>2. /\ Drives \in Nat /\ parity \in Nat /\ DataBlocks = Drives - parity
      /\ Drives \div 2 \in Nat /\ parity <= Drives \div 2
  BY Quorums
<1> DEFINE h == Drives \div 2
<1>3. h \in Nat /\ parity <= h
  BY <1>2
<1> HIDE DEF h
<1>4. Drives - (h + 1) + 0 < DataBlocks
  BY <1>2, <1>3
<1> QED
  BY <1>1, <1>4 DEF Settled, h

\* heal_object takes no object that exists for dangling.
LEMMA NotDangling ==
  ASSUME TypeOK, FewStale, Kept, Present
  PROVE  ~Dangling
<1>1. /\ Drives \in Nat /\ parity \in Nat /\ DataBlocks \in Nat /\ DataBlocks = Drives - parity
      /\ WriteQuorum \in Nat /\ DataBlocks <= WriteQuorum
  BY Quorums
<1>2. ~(Cardinality(Missing(Disks)) > parity)
  <2>1. Missing(Disks) \in SUBSET Disks
    BY DEF Missing
  <2>2. Cardinality(Missing(Disks)) \in Nat
    BY <2>1, SomeDisks
  <2>3. Cardinality(Missing(Disks)) <= Drives - WriteQuorum
    BY DEF Kept
  <2> QED
    BY <1>1, <2>2, <2>3
<1>3. ASSUME NEW w \in Writes, FileInfo(Disks, w), \A d \in Disks : xl[d] \in {w, Gone},
             Cardinality({d \in Disks : xl[d] # w \/ parts[d][w] = "none"}) > parity
      PROVE  FALSE
  <2> DEFINE B == {d \in Disks : xl[d] # w \/ parts[d][w] = "none"}
  <2>1. w \in legal
    BY <1>3, FoundIsLegal DEF Present
  <2>2. Cardinality(Carriers(w)) >= DataBlocks
    BY <2>1 DEF Kept
  <2>3. Carriers(w) \in SUBSET Disks /\ B \in SUBSET Disks /\ Carriers(w) \cap B = {}
    BY <1>3 DEF Carriers
  <2>4. Cardinality(Carriers(w)) \in Nat /\ Cardinality(B) \in Nat
    BY <2>3, SomeDisks
  <2>5. Cardinality(Carriers(w)) + Cardinality(B) <= Drives
    BY <2>3, DisjointDisks
  <2>6. Cardinality(B) > parity
    BY <1>3
  <2> HIDE DEF B
  <2> QED
    BY <1>1, <2>2, <2>4, <2>5, <2>6
<1> QED
  BY <1>2, <1>3 DEF Dangling

\* Steps that take no metadata and no shard of a legal put away.
LEMMA NoneLost ==
  ASSUME TypeOK, TypeOK', Kept, setting' = setting, legal' = legal,
         lates \subseteq lates', short \subseteq short',
         Present => \A d \in Disks :
           /\ xl[d] # Gone => xl'[d] # Gone
           /\ \A w \in legal : parts[d][w] # "none" => parts'[d][w] # "none"
  PROVE  Kept'
<1> SUFFICES ASSUME Present'
             PROVE  /\ Cardinality(Missing(Disks)') <= Drives - WriteQuorum'
                    /\ \A w \in legal' : Cardinality(Carriers(w)') >= DataBlocks'
  BY DEF Kept
<1>1. Present
  BY PresentBefore
<1>2. /\ WriteQuorum' = WriteQuorum /\ DataBlocks' = DataBlocks /\ WriteQuorum \in Nat
      /\ DataBlocks \in Nat /\ Drives \in Nat
  BY Fixed, Quorums
<1>3. Cardinality(Missing(Disks)') <= Drives - WriteQuorum'
  <2>1. Missing(Disks)' \subseteq Missing(Disks) /\ Missing(Disks) \in SUBSET Disks
    BY <1>1 DEF Missing
  <2>2. /\ Cardinality(Missing(Disks)') <= Cardinality(Missing(Disks))
        /\ Cardinality(Missing(Disks)') \in Nat /\ Cardinality(Missing(Disks)) \in Nat
    BY <2>1, MoreDisks
  <2>3. Cardinality(Missing(Disks)) <= Drives - WriteQuorum
    BY <1>1 DEF Kept
  <2> QED
    BY <1>2, <2>2, <2>3
<1>4. ASSUME NEW w \in legal
      PROVE  Cardinality(Carriers(w)') >= DataBlocks'
  <2>1. Carriers(w) \subseteq Carriers(w)' /\ Carriers(w)' \in SUBSET Disks
    BY <1>1 DEF Carriers
  <2>2. /\ Cardinality(Carriers(w)) <= Cardinality(Carriers(w)')
        /\ Cardinality(Carriers(w)') \in Nat /\ Cardinality(Carriers(w)) \in Nat
    BY <2>1, MoreDisks
  <2>3. Cardinality(Carriers(w)) >= DataBlocks
    BY <1>1 DEF Kept
  <2> QED
    BY <1>2, <2>2, <2>3
<1> QED
  BY <1>3, <1>4

\* A rename_data keeps the shards that are there, and brings those of the put.
LEMMA KeptRename ==
  ASSUME TypeOK, TypeOK', Kept, NEW w \in Writes, RenameData(w)
  PROVE  Kept'
<1> SUFFICES ASSUME Present'
             PROVE  /\ Cardinality(Missing(Disks)') <= Drives - WriteQuorum'
                    /\ \A v \in legal' : Cardinality(Carriers(v)') >= DataBlocks'
  BY DEF Kept
<1>1. PICK out \in Outcomes :
           /\ NoteLate(out, w)
           /\ xl' = [d \in Disks |-> IF d \in Done(out) THEN w ELSE xl[d]]
           /\ parts' = [d \in Disks |->
                     IF d \in DirDone(out) THEN [parts[d] EXCEPT ![w] = tmp[w][d]] ELSE parts[d]]
           /\ short \subseteq short'
           /\ w \notin short' => Cardinality({d \in Done(out) : tmp[w][d] = "whole"}) >= DataBlocks
           /\ UNCHANGED setting
           /\ \/ Cardinality(Ok(out)) >= WriteQuorum /\ legal' = {w}
              \/ legal' = IF Tried(out) = {} THEN legal ELSE legal \cup {w}
  BY RenameEffect
<1>2. /\ WriteQuorum' = WriteQuorum /\ DataBlocks' = DataBlocks /\ WriteQuorum \in Nat
      /\ DataBlocks \in Nat /\ Drives \in Nat
  BY <1>1, Fixed, Quorums
<1>3. w \in legal' => Cardinality(Carriers(w)') >= DataBlocks'
  <2> SUFFICES ASSUME w \in legal' PROVE Cardinality(Carriers(w)') >= DataBlocks'
    OBVIOUS
  <2> DEFINE W == {d \in Done(out) : tmp[w][d] = "whole"}
  <2>1. Cardinality(W) >= DataBlocks
    BY <1>1 DEF Present
  <2>2. ASSUME NEW d \in W
        PROVE  d \in Carriers(w)'
    <3>1. d \in Done(out) /\ d \in DirDone(out) /\ d \in Disks /\ tmp[w][d] = "whole"
      BY OutcomeSets
    <3>2. xl'[d] = w /\ parts'[d] = [parts[d] EXCEPT ![w] = tmp[w][d]] /\ parts[d] \in [Writes -> Shard]
      BY <1>1, <3>1 DEF TypeOK
    <3>3. parts'[d][w] = "whole" /\ w # Gone
      BY <3>1, <3>2, Names
    <3> QED
      BY <3>1, <3>2, <3>3 DEF Carriers
  <2>3. Carriers(w)' \in SUBSET Disks
    BY DEF Carriers
  <2>4. /\ Cardinality(W) <= Cardinality(Carriers(w)') /\ Cardinality(W) \in Nat
        /\ Cardinality(Carriers(w)') \in Nat
    BY <2>2, <2>3, MoreDisks
  <2> HIDE DEF W
  <2> QED
    BY <1>2, <2>1, <2>4
<1>4. CASE Cardinality(Ok(out)) >= WriteQuorum /\ legal' = {w}
  <2>1. Ok(out) \in SUBSET Disks /\ Missing(Disks)' \in SUBSET Disks
    BY OutcomeSets DEF Missing
  <2>2. \A d \in Ok(out) : xl'[d] = w /\ w # Gone
    BY <1>1, OutcomeSets, Names
  <2>3. Ok(out) \cap Missing(Disks)' = {}
    BY <2>2 DEF Missing
  <2>4. /\ Cardinality(Ok(out)) + Cardinality(Missing(Disks)') <= Drives
        /\ Cardinality(Ok(out)) \in Nat /\ Cardinality(Missing(Disks)') \in Nat
    BY <2>1, <2>3, DisjointDisks, SomeDisks
  <2>5. Cardinality(Missing(Disks)') <= Drives - WriteQuorum'
    BY <1>2, <1>4, <2>4
  <2> QED
    BY <1>3, <1>4, <2>5
<1>5. CASE legal' = IF Tried(out) = {} THEN legal ELSE legal \cup {w}
  <2>1. legal \subseteq legal' /\ legal' \subseteq legal \cup {w}
    BY <1>5
  <2>2. lates \subseteq lates'
    BY <1>1, NoteLateType, Names
  <2>3. Present
    BY <1>1, <2>1, <2>2, PresentBefore
  <2>4. Missing(Disks)' \subseteq Missing(Disks) /\ Missing(Disks) \in SUBSET Disks
    BY <1>1, Names DEF Missing
  <2>5. /\ Cardinality(Missing(Disks)') <= Cardinality(Missing(Disks))
        /\ Cardinality(Missing(Disks)') \in Nat /\ Cardinality(Missing(Disks)) \in Nat
    BY <2>4, MoreDisks
  <2>6. Cardinality(Missing(Disks)) <= Drives - WriteQuorum
    BY <2>3 DEF Kept
  <2>7. Cardinality(Missing(Disks)') <= Drives - WriteQuorum'
    BY <1>2, <2>5, <2>6
  <2>8. ASSUME NEW v \in legal', v # w
        PROVE  Cardinality(Carriers(v)') >= DataBlocks'
    <3>1. v \in legal /\ v \in Writes
      BY <2>1, <2>3, <2>8 DEF TypeOK, Present
    <3>2. ASSUME NEW d \in Disks PROVE parts'[d][v] = parts[d][v] /\ (xl[d] # Gone => xl'[d] # Gone)
      BY <1>1, <2>8, <3>1, Names DEF TypeOK
    <3>3. Carriers(v) \subseteq Carriers(v)' /\ Carriers(v)' \in SUBSET Disks
      BY <3>2 DEF Carriers
    <3>4. /\ Cardinality(Carriers(v)) <= Cardinality(Carriers(v)')
          /\ Cardinality(Carriers(v)') \in Nat /\ Cardinality(Carriers(v)) \in Nat
      BY <3>3, MoreDisks
    <3>5. Cardinality(Carriers(v)) >= DataBlocks
      BY <2>3, <3>1 DEF Kept
    <3> QED
      BY <1>2, <3>4, <3>5
  <2> QED
    BY <1>3, <2>7, <2>8
<1> QED
  BY <1>1, <1>4, <1>5

\* A delete that no disk was asked for changes nothing.
LEMMA NothingDone ==
  ASSUME TypeOK, NEW out \in Outcomes, DeleteVersion(out), Tried(out) = {}
  PROVE  xl' = xl /\ parts' = parts
<1>1. Done(out) = {} /\ DirDone(out) = {}
  BY OutcomeSets
<1>2. xl' = [d \in Disks |-> xl[d]] /\ parts' = [d \in Disks |-> parts[d]]
  BY <1>1 DEF DeleteVersion
<1> QED
  BY <1>2 DEF TypeOK

LEMMA KeptStep ==
  TypeOK /\ TypeOK' /\ Locked /\ FewStale /\ Kept /\ [Next]_vars => Kept'
<1> SUFFICES ASSUME TypeOK, TypeOK', Locked, FewStale, Kept, [Next]_vars PROVE Kept'
  OBVIOUS
<1>1. CASE UNCHANGED <<setting, xl, parts, lates, legal, short>>
  BY <1>1, NoneLost
<1>2. ASSUME NEW w \in Writes, CommitDataDir(w)
      PROVE  Kept'
  <2>1. legal = {w} /\ oldDir # w
    BY <1>2 DEF CommitDataDir, Locked
  <2>2. PICK gone \in SUBSET Disks :
          parts' = [d \in Disks |->
                     IF d \in gone THEN [parts[d] EXCEPT ![oldDir] = "none"] ELSE parts[d]]
    BY <1>2 DEF CommitDataDir
  <2>3. UNCHANGED <<setting, xl, lates, legal, short>>
    BY <1>2 DEF CommitDataDir
  <2>4. ASSUME NEW d \in Disks PROVE parts'[d][w] = parts[d][w]
    BY <2>1, <2>2 DEF TypeOK
  <2> QED
    BY <2>1, <2>3, <2>4, NoneLost
<1>3. CASE DeleteObject \/ HealDangling
  <2>1. PICK out \in Outcomes :
           /\ DeleteVersion(out) /\ UNCHANGED <<setting, short>>
           /\ \/ UNCHANGED legal /\ HealDangling
              \/ Gone \in legal'
              \/ UNCHANGED legal /\ Tried(out) = {}
    BY <1>3, DeleteEffect
  <2>2. CASE Gone \in legal'
    BY <2>2 DEF Kept, Present
  <2>3. lates \subseteq lates'
    BY <2>1, NoteLateType, Names DEF DeleteVersion
  <2>4. CASE UNCHANGED legal /\ Tried(out) = {}
    <3>1. xl' = xl /\ parts' = parts
      BY <2>1, <2>4, NothingDone
    <3> QED
      BY <2>1, <2>3, <2>4, <3>1, NoneLost
  <2>5. CASE UNCHANGED legal /\ HealDangling
    <3>1. ~Present
      BY <2>5, NotDangling DEF HealDangling
    <3> QED
      BY <2>1, <2>3, <2>5, <3>1, NoneLost
  <2> QED
    BY <2>1, <2>2, <2>4, <2>5
<1>4. ASSUME NEW w \in Writes, HealShards(w)
      PROVE  Kept'
  <2>1. PICK done \in SUBSET Disks, moved \in SUBSET Disks :
           /\ xl' = [d \in Disks |-> IF d \in done THEN w ELSE xl[d]]
           /\ parts' = [d \in Disks |->
                         IF d \in moved THEN [parts[d] EXCEPT ![w] = "whole"] ELSE parts[d]]
    BY <1>4, HealEffect
  <2>2. UNCHANGED <<setting, lates, legal, short>>
    BY <1>4 DEF HealShards
  <2>3. ASSUME NEW d \in Disks
        PROVE  /\ xl[d] # Gone => xl'[d] # Gone
               /\ \A v \in Writes : parts[d][v] # "none" => parts'[d][v] # "none"
    BY <2>1, Names DEF TypeOK
  <2>4. Present => legal \subseteq Writes
    BY DEF Present, TypeOK
  <2> QED
    BY <2>2, <2>3, <2>4, NoneLost
<1>5. ASSUME NEW w \in Writes, NEW e \in Disks, LateRename(e, w)
      PROVE  Kept'
  <2>1. /\ UNCHANGED <<setting, lates, legal, short>> /\ xl' = [xl EXCEPT ![e] = w]
        /\ parts' = [parts EXCEPT ![e][w] = IF tmp[w][e] = "none" THEN @ ELSE tmp[w][e]]
    BY <1>5 DEF LateRename
  <2>2. ASSUME NEW d \in Disks
        PROVE  xl[d] # Gone => xl'[d] # Gone
    BY <2>1, Names DEF TypeOK
  <2>3. ASSUME NEW d \in Disks, NEW v \in Writes, parts[d][v] # "none"
        PROVE  parts'[d][v] # "none"
    BY <2>1, <2>3 DEF TypeOK
  <2>4. Present => legal \subseteq Writes
    BY DEF Present, TypeOK
  <2> QED
    BY <2>1, <2>2, <2>3, <2>4, NoneLost
<1>6. ASSUME NEW e \in Disks, LateDelete(e)
      PROVE  Kept'
  <2>1. <<e, Deletion>> \in lates'
    BY <1>6 DEF LateDelete, TypeOK
  <2> QED
    BY <2>1 DEF Kept, Present, NoLateDelete
<1>7. ASSUME NEW w \in Writes, Quiet(w)
      PROVE  Kept'
  BY <1>1, <1>7, QuietEffect
<1>8. CASE UNCHANGED vars
  BY <1>1, <1>8 DEF vars
<1> QED
  BY <1>2, <1>3, <1>4, <1>5, <1>6, <1>7, <1>8, KeptRename DEF Next, Quiet

\* Steps that take neither version nor shard of w from a disk.
LEMMA StillReadable ==
  ASSUME TypeOK, TypeOK', Readable, setting' = setting, NEW w \in Writes,
         legal = {w}, lates = {}, w \notin short,
         \A d \in Disks : xl[d] = w =>
           xl'[d] = w /\ (parts[d][w] = "whole" => parts'[d][w] = "whole")
  PROVE  /\ Cardinality(Holding(Disks, w)') >= WriteQuorum'
         /\ Cardinality(WholeOn(w)') >= DataBlocks'
<1>1. Cardinality(Holding(Disks, w)) >= WriteQuorum /\ Cardinality(WholeOn(w)) >= DataBlocks
  BY DEF Readable
<1>2. /\ WriteQuorum' = WriteQuorum /\ DataBlocks' = DataBlocks
      /\ WriteQuorum \in Nat /\ DataBlocks \in Nat
  BY Fixed, Quorums
<1>3. /\ Holding(Disks, w) \subseteq Holding(Disks, w)' /\ Holding(Disks, w)' \in SUBSET Disks
      /\ WholeOn(w) \subseteq WholeOn(w)' /\ WholeOn(w)' \in SUBSET Disks
  BY DEF Holding, WholeOn
<1>4. /\ Cardinality(Holding(Disks, w)) <= Cardinality(Holding(Disks, w)')
      /\ Cardinality(Holding(Disks, w)) \in Nat /\ Cardinality(Holding(Disks, w)') \in Nat
  BY <1>3, MoreDisks
<1>5. /\ Cardinality(WholeOn(w)) <= Cardinality(WholeOn(w)')
      /\ Cardinality(WholeOn(w)) \in Nat /\ Cardinality(WholeOn(w)') \in Nat
  BY <1>3, MoreDisks
<1> QED
  BY <1>1, <1>2, <1>4, <1>5

\* A completed rename_data with shards enough.
LEMMA ReadableRename ==
  ASSUME TypeOK, TypeOK', Untraced, Readable, NEW v \in Writes, RenameData(v), NEW w \in Writes,
         legal' = {w}, lates' = {}, w \notin short'
  PROVE  /\ Cardinality(Holding(Disks, w)') >= WriteQuorum'
         /\ Cardinality(WholeOn(w)') >= DataBlocks'
<1>1. PICK out \in Outcomes :
           /\ NoteLate(out, v)
           /\ xl' = [d \in Disks |-> IF d \in Done(out) THEN v ELSE xl[d]]
           /\ parts' = [d \in Disks |->
                     IF d \in DirDone(out) THEN [parts[d] EXCEPT ![v] = tmp[v][d]] ELSE parts[d]]
           /\ short \subseteq short' /\ op[v] = "locked"
           /\ v \notin short' => Cardinality({d \in Done(out) : tmp[v][d] = "whole"}) >= DataBlocks
           /\ UNCHANGED setting
           /\ \/ Cardinality(Ok(out)) >= WriteQuorum /\ legal' = {v}
              \/ legal' = IF Tried(out) = {} THEN legal ELSE legal \cup {v}
  BY RenameEffect
<1>2. /\ WriteQuorum' = WriteQuorum /\ DataBlocks' = DataBlocks
      /\ WriteQuorum \in Nat /\ DataBlocks \in Nat
  BY <1>1, Fixed, Quorums
<1>3. CASE Cardinality(Ok(out)) >= WriteQuorum /\ legal' = {v}
  <2>1. v = w
    BY <1>3
  <2> DEFINE W == {d \in Done(out) : tmp[v][d] = "whole"}
  <2>2. Cardinality(W) >= DataBlocks
    BY <1>1, <2>1
  <2>3. Ok(out) \subseteq Holding(Disks, w)' /\ Holding(Disks, w)' \in SUBSET Disks
    BY <1>1, <2>1, OutcomeSets DEF Holding
  <2>4. ASSUME NEW d \in W
        PROVE  d \in WholeOn(w)'
    <3>1. d \in Done(out) /\ d \in DirDone(out) /\ d \in Disks /\ tmp[v][d] = "whole"
      BY OutcomeSets
    <3>2. xl'[d] = v /\ parts'[d] = [parts[d] EXCEPT ![v] = tmp[v][d]] /\ parts[d] \in [Writes -> Shard]
      BY <1>1, <3>1 DEF TypeOK
    <3>3. parts'[d][v] = "whole"
      BY <3>1, <3>2
    <3> QED
      BY <2>1, <3>1, <3>2, <3>3 DEF WholeOn
  <2>5. W \subseteq WholeOn(w)' /\ WholeOn(w)' \in SUBSET Disks
    BY <2>4 DEF WholeOn
  <2>6. /\ Cardinality(Ok(out)) <= Cardinality(Holding(Disks, w)')
        /\ Cardinality(Ok(out)) \in Nat /\ Cardinality(Holding(Disks, w)') \in Nat
    BY <2>3, MoreDisks
  <2>7. /\ Cardinality(W) <= Cardinality(WholeOn(w)')
        /\ Cardinality(W) \in Nat /\ Cardinality(WholeOn(w)') \in Nat
    BY <2>5, MoreDisks
  <2> HIDE DEF W
  <2> QED
    BY <1>2, <1>3, <2>2, <2>6, <2>7
<1>4. CASE legal' = IF Tried(out) = {} THEN legal ELSE legal \cup {v}
  <2>1. v \notin legal /\ legal # {}
    BY <1>1 DEF Untraced, Early, TypeOK
  <2>2. Tried(out) = {} /\ legal = {w}
    BY <1>4, <2>1
  <2>3. Done(out) = {} /\ DirDone(out) = {}
    BY <2>2, OutcomeSets
  <2>4. \A d \in Disks : xl'[d] = xl[d] /\ parts'[d] = parts[d]
    BY <1>1, <2>3
  <2>5. lates = {} /\ w \notin short
    BY <1>1, NoteLateType, Names
  <2> QED
    BY <1>1, <2>2, <2>4, <2>5, StillReadable
<1> QED
  BY <1>1, <1>3, <1>4

LEMMA ReadableStep ==
  /\ TypeOK /\ TypeOK' /\ Untraced /\ Locked /\ FewStale /\ Kept /\ Readable /\ [Next]_vars
  => Readable'
<1> SUFFICES ASSUME TypeOK, TypeOK', Untraced, Locked, FewStale, Kept, Readable, [Next]_vars,
                    NEW w \in Writes, legal' = {w}, lates' = {}, w \notin short'
             PROVE  /\ Cardinality(Holding(Disks, w)') >= WriteQuorum'
                    /\ Cardinality(WholeOn(w)') >= DataBlocks'
  BY DEF Readable
<1> DEFINE Goal == /\ Cardinality(Holding(Disks, w)') >= WriteQuorum'
                   /\ Cardinality(WholeOn(w)') >= DataBlocks'
<1>1. CASE UNCHANGED <<setting, xl, parts, lates, legal, short>>
  BY <1>1, StillReadable
<1>2. ASSUME NEW v \in Writes, CommitDataDir(v)
      PROVE  Goal
  <2>1. UNCHANGED <<setting, xl, lates, legal, short>>
    BY <1>2 DEF CommitDataDir
  <2>2. legal = {w} /\ oldDir # w
    <3>1. legal = {v} /\ oldDir # v
      BY <1>2 DEF CommitDataDir, Locked
    <3> QED
      BY <2>1, <3>1
  <2>3. PICK gone \in SUBSET Disks :
          parts' = [d \in Disks |->
                     IF d \in gone THEN [parts[d] EXCEPT ![oldDir] = "none"] ELSE parts[d]]
    BY <1>2 DEF CommitDataDir
  <2>4. ASSUME NEW d \in Disks PROVE parts'[d][w] = parts[d][w]
    BY <2>2, <2>3 DEF TypeOK
  <2> QED
    BY <2>1, <2>2, <2>4, StillReadable
<1>3. CASE DeleteObject \/ HealDangling
  <2>1. PICK out \in Outcomes :
           /\ DeleteVersion(out) /\ UNCHANGED <<setting, short>>
           /\ \/ UNCHANGED legal /\ HealDangling
              \/ Gone \in legal'
              \/ UNCHANGED legal /\ Tried(out) = {}
    BY <1>3, DeleteEffect
  <2>2. Gone \notin legal' /\ Gone # w
    BY Names
  <2>3. lates = {}
    BY <2>1, NoteLateType, Names DEF DeleteVersion
  <2>4. legal = {w} /\ w \notin short
    BY <2>1, <2>2
  <2>5. Present
    BY <2>2, <2>3, <2>4, SettledAtRest DEF Present, NoLateDelete
  <2>6. ~HealDangling
    BY <2>5, NotDangling DEF HealDangling
  <2>7. xl' = xl /\ parts' = parts
    BY <2>1, <2>2, <2>6, NothingDone
  <2> QED
    BY <2>1, <2>3, <2>4, <2>7, StillReadable
<1>4. ASSUME NEW v \in Writes, HealShards(v)
      PROVE  Goal
  <2>1. PICK M \in SUBSET Disks, done \in SUBSET Disks, moved \in SUBSET Disks :
           /\ CanHeal(M, v)
           /\ xl' = [d \in Disks |-> IF d \in done THEN v ELSE xl[d]]
           /\ parts' = [d \in Disks |->
                         IF d \in moved THEN [parts[d] EXCEPT ![v] = "whole"] ELSE parts[d]]
    BY <1>4, HealEffect
  <2>2. UNCHANGED <<setting, lates, legal, short>>
    BY <1>4 DEF HealShards
  <2>3. Settled
    BY <2>2, SettledAtRest
  <2>4. v = w
    BY <2>1, <2>2, <2>3, FoundIsLegal DEF CanHeal
  <2>5. ASSUME NEW d \in Disks, xl[d] = w
        PROVE  xl'[d] = w /\ (parts[d][w] = "whole" => parts'[d][w] = "whole")
    BY <2>1, <2>4, <2>5 DEF TypeOK
  <2> QED
    BY <2>2, <2>5, StillReadable
<1>5. ASSUME (\E v \in Writes, d \in Disks : LateRename(d, v)) \/ \E d \in Disks : LateDelete(d)
      PROVE  Goal
  <2>1. late # {} /\ lates' = lates
    BY <1>5 DEF LateRename, LateDelete
  <2> QED
    BY <2>1 DEF TypeOK
<1>6. ASSUME NEW v \in Writes, Quiet(v)
      PROVE  Goal
  BY <1>1, <1>6, QuietEffect
<1>7. CASE UNCHANGED vars
  BY <1>1, <1>7 DEF vars
<1> QED
  BY <1>2, <1>3, <1>4, <1>5, <1>6, <1>7, ReadableRename DEF Next, Quiet

-----------------------------------------------------------------------------
(* The precondition of a put. *)

LEMMA NeverStagedStep == TypeOK /\ NeverStaged /\ [Next]_vars => NeverStaged'
<1> SUFFICES ASSUME TypeOK, NeverStaged, [Next]_vars PROVE NeverStaged'
  OBVIOUS
<1>1. setting' = setting
  BY DEF Next, vars, CheckPrecondition, Encode, Lock, LockTimeout, RenameData, CommitDataDir,
         HealShards, LateRename, LateDelete, DeleteObject, HealDangling
<1>2. Conditional' = Conditional
  BY <1>1, Fixed
<1>3. Conditional \subseteq Writes
  BY ErasureAssumption DEF Conditional, TypeOK, Writes
<1>4. ASSUME NEW w \in Conditional, op'[w] = "staged"
      PROVE  op[w] = "staged"
  <2>1. ASSUME NEW v \in Writes, CheckPrecondition(v) \/ Lock(v) \/ LockTimeout(v) \/ CommitDataDir(v)
        PROVE  op[w] = "staged"
    <3>1. PICK r \in {"checked", "locked", "failed", "acked"} : op' = [op EXCEPT ![v] = r]
      BY <2>1 DEF CheckPrecondition, Lock, LockTimeout, CommitDataDir
    <3> QED
      BY <1>3, <1>4, <3>1 DEF TypeOK
  <2>2. ASSUME NEW v \in Writes, Encode(v)
        PROVE  op[w] = "staged"
    <3>1. \/ op' = [op EXCEPT ![v] = IF v \in Conditional THEN "locked" ELSE "staged"]
          \/ op' = [op EXCEPT ![v] = "failed"]
      BY <2>2 DEF Encode
    <3> QED
      BY <1>3, <1>4, <3>1 DEF TypeOK
  <2>3. ASSUME NEW v \in Writes, RenameData(v)
        PROVE  op[w] = "staged"
    <3>1. op'[v] \in {"renamed", "failed"} /\ \A u \in Writes \ {v} : op'[u] = op[u]
      BY <2>3, RenameEffect
    <3> QED
      BY <1>3, <1>4, <3>1
  <2>4. CASE UNCHANGED op
    BY <1>4, <2>4
  <2> QED
    BY <2>1, <2>2, <2>3, <2>4 DEF Next, vars, HealShards, LateRename, LateDelete, DeleteObject, HealDangling
<1> QED
  BY <1>2, <1>4 DEF NeverStaged

\* No disks that answer say that an object that exists does not.
LEMMA NoneOutvoted ==
  ASSUME TypeOK, Kept, Present, Outvoting, NEW M \in SUBSET Disks
  PROVE  ~NotFound(M)
<1>1. Missing(M) \subseteq Missing(Disks) /\ Missing(Disks) \in SUBSET Disks
  BY DEF Missing
<1>2. /\ Cardinality(Missing(M)) <= Cardinality(Missing(Disks))
      /\ Cardinality(Missing(M)) \in Nat /\ Cardinality(Missing(Disks)) \in Nat
  BY <1>1, MoreDisks
<1>3. Cardinality(Missing(Disks)) <= Drives - WriteQuorum
  BY DEF Kept
<1>4. Drives \in Nat /\ WriteQuorum \in Nat /\ NotFoundQuorum \in Nat
  BY Quorums DEF NotFoundQuorum
<1>5. Drives - WriteQuorum < NotFoundQuorum
  BY DEF Outvoting
<1>6. ~(Cardinality(Missing(M)) >= NotFoundQuorum)
  BY <1>2, <1>3, <1>4, <1>5
<1> QED
  BY <1>6 DEF NotFound

\* check_write_precondition finds what is legal.
LEMMA MetIsLegal ==
  ASSUME TypeOK, FewStale, Kept, Settled, Outvoting, NoLateDelete, legal \cap short = {},
         NEW w \in Conditional, NEW M \in SUBSET Disks, Met(w, M)
  PROVE  setting.expect[w] \in legal
<1> DEFINE e == setting.expect[w]
<1>1. e \in 0 .. MaxWrites
  BY ErasureAssumption DEF TypeOK, Conditional
<1>2. CASE e = Gone
  <2>1. NotFound(M)
    BY <1>2 DEF Met
  <2>2. ~Present
    BY <2>1, NoneOutvoted
  <2> QED
    BY <1>2, <2>2 DEF Present
<1>3. CASE e # Gone
  <2>1. FileInfo(M, e)
    BY <1>3 DEF Met
  <2>2. e \in Writes
    BY <1>1, <1>3, ErasureAssumption DEF Writes, Gone
  <2> QED
    BY <2>1, <2>2, FoundIsLegal
<1> QED
  BY <1>2, <1>3

LEMMA PreconditionStep ==
  /\ TypeOK /\ TypeOK' /\ Locked /\ NeverStaged /\ FewStale /\ Kept /\ PreconditionKept /\ [Next]_vars
  => PreconditionKept'
<1> SUFFICES ASSUME TypeOK, TypeOK', Locked, NeverStaged, FewStale, Kept, PreconditionKept,
                    [Next]_vars, Settled', Outvoting', NoLateDelete', (legal \cap short = {})',
                    NEW w \in Conditional', op'[w] \in {"checked", "locked"}
             PROVE  setting'.expect[w] \in legal'
  BY DEF PreconditionKept
<1>1. setting' = setting
  BY DEF Next, vars, CheckPrecondition, Encode, Lock, LockTimeout, RenameData, CommitDataDir,
         HealShards, LateRename, LateDelete, DeleteObject, HealDangling
<1>2. w \in Conditional /\ Outvoting /\ w \in Writes /\ w # Gone
  <2>1. w \in Conditional /\ Outvoting
    BY <1>1, Fixed
  <2>2. w \in Writes
    BY <2>1, ErasureAssumption DEF Conditional, TypeOK, Writes
  <2> QED
    BY <2>1, <2>2, Names
<1>3. ASSUME UNCHANGED <<lates, legal, short>>
      PROVE  /\ Settled /\ NoLateDelete /\ legal \cap short = {}
             /\ op[w] \in {"checked", "locked"} => setting.expect[w] \in legal
  <2>1. Settled
    BY <1>1, <1>3, SettledBefore
  <2>2. NoLateDelete /\ legal \cap short = {}
    BY <1>3 DEF NoLateDelete
  <2> QED
    BY <1>2, <2>1, <2>2 DEF PreconditionKept
<1>4. ASSUME NEW v \in Writes, Quiet(v)
      PROVE  setting.expect[w] \in legal
  <2>1. UNCHANGED <<lates, legal, short>>
    BY <1>4, QuietEffect
  <2>2. CASE v # w
    BY <1>2, <1>3, <1>4, <2>1, <2>2, QuietEffect
  <2>3. CASE v = w /\ CheckPrecondition(w)
    <3>1. PICK M \in SUBSET Disks : op' = [op EXCEPT ![w] = IF Met(w, M) THEN "checked" ELSE "failed"]
      BY <2>3 DEF CheckPrecondition
    <3>2. Met(w, M)
      BY <1>2, <3>1 DEF TypeOK
    <3> QED
      BY <1>2, <1>3, <2>1, <3>2, MetIsLegal
  <2>4. CASE v = w /\ Encode(w)
    <3>1. op[w] = "checked"
      BY <1>2, <2>4 DEF Encode
    <3> QED
      BY <1>3, <2>1, <3>1
  <2>5. CASE v = w /\ Lock(w)
    BY <1>2, <2>5 DEF Lock, NeverStaged
  <2>6. CASE v = w /\ LockTimeout(w)
    BY <1>2, <2>6 DEF LockTimeout, TypeOK
  <2> QED
    BY <1>4, <2>2, <2>3, <2>4, <2>5, <2>6 DEF Quiet
<1>5. ASSUME NEW v \in Writes, RenameData(v) \/ CommitDataDir(v)
      PROVE  FALSE
  <2>1. lock = v
    BY <1>5 DEF RenameData, CommitDataDir, TypeOK, OneWriter
  <2>2. op'[v] \in {"renamed", "failed", "acked"} /\ \A u \in Writes \ {v} : op'[u] = op[u]
    <3>1. CASE RenameData(v)
      BY <3>1, RenameEffect
    <3>2. CASE CommitDataDir(v)
      <4>1. op' = [op EXCEPT ![v] = "acked"] \/ op' = [op EXCEPT ![v] = "failed"]
        BY <3>2 DEF CommitDataDir
      <4> QED
        BY <4>1 DEF TypeOK
    <3> QED
      BY <1>5, <3>1, <3>2
  <2>3. w # v /\ op[w] \in {"checked", "locked"}
    BY <1>2, <2>2
  <2> QED
    BY <1>2, <2>1, <2>3 DEF TypeOK, OneWriter
<1>6. ASSUME DeleteObject \/ HealDangling \/ \E v \in Writes : HealShards(v)
      PROVE  FALSE
  <2>1. UNCHANGED op /\ lock = Gone
    BY <1>6 DEF DeleteObject, HealDangling, HealShards
  <2> QED
    BY <1>2, <2>1, Names DEF TypeOK, OneWriter
<1>7. CASE UNCHANGED vars \/ (\E v \in Writes, d \in Disks : LateRename(d, v)) \/ \E d \in Disks : LateDelete(d)
  <2>1. UNCHANGED <<op, lates, legal, short>>
    BY <1>7 DEF vars, LateRename, LateDelete
  <2> QED
    BY <1>1, <1>3, <2>1
<1>8. legal' = legal \/ ~\E v \in Writes : Quiet(v)
  BY QuietEffect
<1> QED
  BY <1>1, <1>4, <1>5, <1>6, <1>7, <1>8 DEF Next, Quiet

-----------------------------------------------------------------------------
(* The invariant. *)

LEMMA InitInv == Init => Inv
<1> SUFFICES ASSUME Init PROVE Inv
  OBVIOUS
<1>1. TypeOK
  <2>1. 0 \in 0 .. setting.heals /\ 0 \in 0 .. MaxDeletes
    BY ErasureAssumption DEF Init
  <2>2. OneWriter
    BY Names DEF Init, OneWriter
  <2> QED
    BY <2>1, <2>2 DEF Init, TypeOK, Shard
<1>2. Untraced /\ Locked /\ NeverStaged
  <2>1. Conditional \subseteq Writes
    BY ErasureAssumption DEF Conditional, Init, Writes
  <2> QED
    BY <2>1, Names DEF Init, Untraced, Locked, NeverStaged
<1>3. FewStale
  <2>1. Stale = {} /\ Spent = {}
    BY DEF Init, Stale, Spent
  <2>2. Cardinality(Stale) = 0 /\ Cardinality(Spent) = 0
    BY <2>1, FS_EmptySet
  <2>3. /\ Drives \in Nat /\ WriteQuorum \in Nat /\ Drives \div 2 \in Nat
        /\ WriteQuorum <= Drives /\ WriteQuorum >= Drives \div 2 + 1
    BY <1>1, Quorums
  <2> DEFINE h == Drives \div 2
  <2>4. h \in Nat /\ WriteQuorum >= h + 1
    BY <2>3
  <2> HIDE DEF h
  <2>5. 0 <= Drives - (h + 1) + 0
    BY <2>3, <2>4
  <2> QED
    BY <2>2, <2>5 DEF FewStale, h
<1>4. Kept
  BY DEF Init, Kept, Present
<1>5. Readable
  BY Names DEF Init, Readable
<1>6. PreconditionKept
  <2>1. Conditional \subseteq Writes
    BY ErasureAssumption DEF Conditional, Init, Writes
  <2> QED
    BY <2>1 DEF Init, PreconditionKept
<1> QED
  BY <1>1, <1>2, <1>3, <1>4, <1>5, <1>6 DEF Inv

LEMMA NextInv == Inv /\ [Next]_vars => Inv'
BY TypeStep, UntracedStep, LockedStep, NeverStagedStep, StaleStep, KeptStep, ReadableStep,
   PreconditionStep DEF Inv

LEMMA Invariance == Spec => []Inv
BY InitInv, NextInv, PTL DEF Spec

-----------------------------------------------------------------------------
(* The theorems. *)

\* The types hold for any number of disks and puts: of no disk is a data
\* directory removed that is none, and late calls are all accounted for.
THEOREM Typing == Spec => []TypeOK
<1>1. Inv => TypeOK
  BY DEF Inv
<1> QED
  BY <1>1, Invariance, PTL

\* The quorums of rename_data, delete_object_version and get_object_fileinfo
\* fit together for every number of disks and every parity: no disks that answer
\* return an object that was replaced or deleted, as long as late calls are few.
THEOREM NoStale == Spec => []NoStaleRead
<1>1. Inv => NoStaleRead
  BY FoundIsLegal DEF Inv, NoStaleRead, Returns
<1> QED
  BY <1>1, Invariance, PTL

\* Disks that missed a put never outvote it, and no heal deletes it as dangling,
\* whatever puts fail in between.
THEOREM NotMissing == Spec => []NoFalseNotFound
<1>1. Inv => NoFalseNotFound
  BY NoneOutvoted DEF Inv, NoFalseNotFound, Present
<1> QED
  BY <1>1, Invariance, PTL

\* A put with If-None-Match or If-Match takes effect only on the object that
\* it asked for.
THEOREM ConditionHolds == Spec => []PreconditionKept
<1>1. Inv => PreconditionKept
  BY DEF Inv
<1> QED
  BY <1>1, Invariance, PTL

\* What rename_data completed with shards enough, a get from all disks returns,
\* for every number of disks and every parity.
THEOREM ReadBack == Spec => []ReadAfterWrite
<1>1. Inv => ReadAfterWrite
  <2> SUFFICES ASSUME Inv, NEW w \in Writes, legal = {w}, lates = {}, w \notin short
               PROVE  Returns(Disks, w)
    BY DEF ReadAfterWrite
  <2>1. TypeOK
    BY DEF Inv
  <2>2. Cardinality(Holding(Disks, w)) >= WriteQuorum /\ Cardinality(WholeOn(w)) >= DataBlocks
    BY DEF Inv, Readable
  <2>3. /\ WriteQuorum \in Nat /\ DataBlocks \in Nat /\ Drives \in Nat /\ DataBlocks <= WriteQuorum
        /\ WriteQuorum + WriteQuorum > Drives
    BY <2>1, Quorums
  <2>4. Holding(Disks, w) \in SUBSET Disks
    BY DEF Holding
  <2>5. Cardinality(Holding(Disks, w)) \in Nat
    BY <2>4, SomeDisks
  <2>6. ~NotFound(Disks)
    <3>1. Holding(Disks, w) \subseteq Found(Disks) /\ Found(Disks) \in SUBSET Disks
      BY Names DEF Holding, Found
    <3>2. Missing(Disks) \in SUBSET Disks /\ Missing(Disks) \cap Found(Disks) = {}
      BY DEF Missing, Found
    <3>3. /\ Cardinality(Holding(Disks, w)) <= Cardinality(Found(Disks))
          /\ Cardinality(Found(Disks)) \in Nat
      BY <3>1, MoreDisks
    <3>4. Cardinality(Missing(Disks)) + Cardinality(Found(Disks)) <= Drives
      BY <3>1, <3>2, DisjointDisks
    <3>5. Cardinality(Missing(Disks)) \in Nat
      BY <3>2, SomeDisks
    <3>6. ~(Cardinality(Missing(Disks)) > Cardinality(Found(Disks)))
      BY <2>2, <2>3, <2>5, <3>3, <3>4, <3>5
    <3> QED
      BY <3>6 DEF NotFound
  <2>7. CommonTime(Disks, w)
    <3> SUFFICES ASSUME NEW v \in Writes \ {w}
                 PROVE  Cardinality(Holding(Disks, v)) < Cardinality(Holding(Disks, w))
      BY DEF CommonTime
    <3>1. Holding(Disks, v) \in SUBSET Disks /\ Holding(Disks, v) \cap Holding(Disks, w) = {}
      BY DEF Holding
    <3>2. Cardinality(Holding(Disks, v)) + Cardinality(Holding(Disks, w)) <= Drives
      BY <2>4, <3>1, DisjointDisks
    <3>3. Cardinality(Holding(Disks, v)) \in Nat
      BY <3>1, SomeDisks
    <3> QED
      BY <2>2, <2>3, <2>5, <3>2, <3>3
  <2>8. Cardinality(Holding(Disks, w)) >= DataBlocks
    BY <2>2, <2>3, <2>5
  <2>9. {d \in Holding(Disks, w) : parts[d][w] = "whole"} = WholeOn(w)
    BY DEF Holding, WholeOn
  <2> QED
    BY <2>2, <2>6, <2>7, <2>8, <2>9 DEF Returns, FileInfo
<1> QED
  BY <1>1, Invariance, PTL

-----------------------------------------------------------------------------
(* Heals. *)

\* Two versions are not both the common one.
LEMMA OneCommon ==
  ASSUME NEW v \in Writes, NEW w \in Writes, CommonTime(Disks, v), CommonTime(Disks, w)
  PROVE  v = w
<1> SUFFICES ASSUME v # w PROVE FALSE
  OBVIOUS
<1> DEFINE cv == Cardinality(Holding(Disks, v))
           cw == Cardinality(Holding(Disks, w))
<1>1. Holding(Disks, v) \in SUBSET Disks /\ Holding(Disks, w) \in SUBSET Disks
  BY DEF Holding
<1>2. cv \in Nat /\ cw \in Nat /\ v \in Nat /\ w \in Nat
  BY <1>1, SomeDisks, Names
<1>3. (cv < cw \/ (cv = cw /\ v < w)) /\ (cw < cv \/ (cw = cv /\ w < v))
  BY DEF CommonTime
<1> HIDE DEF cv, cw
<1> QED
  BY <1>2, <1>3

\* An object that a get from all disks returns is not dangling.
LEMMA ReturnedNotDangling ==
  ASSUME TypeOK, NEW w \in Writes, Returns(Disks, w)
  PROVE  ~Dangling
<1> DEFINE W == {d \in Holding(Disks, w) : parts[d][w] = "whole"}
<1>1. /\ Drives \in Nat /\ parity \in Nat /\ DataBlocks \in Nat /\ DataBlocks = Drives - parity
  BY Quorums
<1>2. W \in SUBSET Disks /\ Cardinality(W) >= DataBlocks
  BY DEF Returns, Holding
<1>3. Cardinality(W) \in Nat
  BY <1>2, SomeDisks
<1>4. ASSUME NEW B \in SUBSET Disks, W \cap B = {}
      PROVE  ~(Cardinality(B) > parity)
  <2>1. Cardinality(W) + Cardinality(B) <= Drives /\ Cardinality(B) \in Nat
    BY <1>2, <1>4, DisjointDisks, SomeDisks
  <2> HIDE DEF W
  <2> QED
    BY <1>1, <1>2, <1>3, <2>1
<1>5. ~(Cardinality(Missing(Disks)) > parity)
  <2>1. Missing(Disks) \in SUBSET Disks /\ W \cap Missing(Disks) = {}
    BY Names DEF Missing, Holding
  <2> QED
    BY <1>4, <2>1
<1>6. ASSUME NEW v \in Writes, FileInfo(Disks, v)
      PROVE  ~(Cardinality({d \in Disks : xl[d] # v \/ parts[d][v] = "none"}) > parity)
  <2>1. v = w
    BY <1>6, OneCommon DEF Returns, FileInfo
  <2> DEFINE B == {d \in Disks : xl[d] # v \/ parts[d][v] = "none"}
  <2>2. B \in SUBSET Disks /\ W \cap B = {}
    BY <2>1 DEF Holding
  <2> HIDE DEF W, B
  <2>3. ~(Cardinality(B) > parity)
    BY <1>4, <2>2
  <2> QED
    BY <2>3 DEF B
<1> QED
  BY <1>5, <1>6 DEF Dangling

\* A heal leaves an object that can be read: the one it healed, or the one that
\* was there when no disk took the healed version.
LEMMA HealReads ==
  ASSUME TypeOK, TypeOK', NEW v \in Writes, HealShards(v), NEW w \in Writes, Returns(Disks, w)
  PROVE  \E u \in Writes : Returns(Disks, u)'
<1>1. PICK M \in SUBSET Disks, done \in SUBSET Disks, moved \in SUBSET Disks :
           /\ CanHeal(M, v)
           /\ xl' = [d \in Disks |-> IF d \in done THEN v ELSE xl[d]]
           /\ parts' = [d \in Disks |->
                         IF d \in moved THEN [parts[d] EXCEPT ![v] = "whole"] ELSE parts[d]]
  BY HealEffect
<1>2. setting' = setting
  BY DEF HealShards
<1>3. /\ parity' = parity /\ DataBlocks' = DataBlocks /\ NotFoundQuorum' = NotFoundQuorum
      /\ Drives \in Nat /\ parity \in Nat /\ DataBlocks \in Nat /\ DataBlocks = Drives - parity
      /\ parity + parity <= Drives
  BY <1>2, Fixed, Quorums
<1>4. ASSUME NEW d \in Disks, NEW u \in Writes, parts[d][u] = "whole"
      PROVE  parts'[d][u] = "whole"
  BY <1>1, <1>4 DEF TypeOK
<1> DEFINE H(u) == Holding(Disks, u)
           Hn(u) == Holding(Disks, u)'
<1>5. /\ M \cap WholeOn(v) \subseteq WholeOn(v)' /\ M \cap WholeOn(v) \subseteq H(v)
      /\ H(v) \subseteq Hn(v) /\ WholeOn(v)' \subseteq Hn(v)
      /\ \A u \in Writes : H(u) \in SUBSET Disks /\ Hn(u) \in SUBSET Disks /\ (u # v => Hn(u) \subseteq H(u))
      /\ WholeOn(v)' \in SUBSET Disks
  BY <1>1, <1>4 DEF WholeOn, Holding
<1>6. Cardinality(M \cap WholeOn(v)) >= DataBlocks
  BY <1>1 DEF CanHeal
<1>7. /\ Cardinality(M \cap WholeOn(v)) \in Nat
      /\ Cardinality(H(v)) \in Nat /\ Cardinality(H(v)) >= Cardinality(M \cap WholeOn(v))
  BY <1>5, MoreDisks
<1>8. Cardinality(WholeOn(v)') \in Nat /\ Cardinality(WholeOn(v)') >= Cardinality(M \cap WholeOn(v))
  BY <1>5, MoreDisks
<1>9. Cardinality(Hn(v)) \in Nat /\ Cardinality(Hn(v)) >= Cardinality(H(v))
  BY <1>5, MoreDisks
<1>10. /\ Cardinality(H(v)) >= DataBlocks /\ Cardinality(Hn(v)) >= DataBlocks
       /\ Cardinality(WholeOn(v)') >= DataBlocks
  <2> HIDE DEF H, Hn
  <2> QED
    BY <1>3, <1>6, <1>7, <1>8, <1>9
<1>11. ~NotFound(Disks)'
  <2>1. Hn(v) \subseteq Found(Disks)' /\ Found(Disks)' \in SUBSET Disks
    BY Names DEF Holding, Found
  <2>2. Missing(Disks)' \in SUBSET Disks /\ Missing(Disks)' \cap Found(Disks)' = {}
    BY DEF Missing, Found
  <2>3. Cardinality(Hn(v)) <= Cardinality(Found(Disks)') /\ Cardinality(Found(Disks)') \in Nat
    BY <2>1, MoreDisks
  <2>4. Cardinality(Missing(Disks)') + Cardinality(Found(Disks)') <= Drives
    BY <2>1, <2>2, DisjointDisks
  <2>5. Cardinality(Missing(Disks)') \in Nat
    BY <2>2, SomeDisks
  <2> HIDE DEF Hn
  <2>6. ~(Cardinality(Missing(Disks)') > Cardinality(Found(Disks)'))
    BY <1>3, <1>9, <1>10, <2>3, <2>4, <2>5
  <2> QED
    BY <2>6 DEF NotFound
<1>12. CASE CommonTime(Disks, v)'
  <2>1. {d \in Holding(Disks, v) : parts[d][v] = "whole"}' = WholeOn(v)'
    BY DEF Holding, WholeOn
  <2>2. FileInfo(Disks, v)'
    BY <1>10, <1>11, <1>12, <1>3 DEF FileInfo
  <2>3. Returns(Disks, v)'
    BY <1>10, <1>3, <2>1, <2>2 DEF Returns
  <2> QED
    BY <2>3
<1>13. CASE ~CommonTime(Disks, v)'
  <2>1. PICK u \in Writes : u # v /\ ~(Cardinality(Hn(u)) < Cardinality(Hn(v)))
    BY <1>13 DEF CommonTime
  <2>2. Cardinality(Hn(u)) \in Nat /\ Hn(u) \in SUBSET Disks /\ Hn(v) \in SUBSET Disks
    BY <1>5, SomeDisks
  <2>3. Hn(u) \cap Hn(v) = {}
    BY <2>1 DEF Holding
  <2>4. Cardinality(Hn(u)) + Cardinality(Hn(v)) <= Drives
    BY <2>2, <2>3, DisjointDisks
  <2>5. Cardinality(H(v)) = Cardinality(Hn(v))
    <3> HIDE DEF H, Hn
    <3> QED
      BY <1>3, <1>7, <1>9, <1>10, <2>1, <2>2, <2>4
  <2>6. IsFiniteSet(Hn(v)) /\ H(v) \subseteq Hn(v)
    BY <1>5, SomeDisks
  <2>7. H(v) = Hn(v)
    <3> HIDE DEF H, Hn
    <3> QED
      BY <2>5, <2>6, FS_Subset
  <2>8. xl' = xl
    <3>1. ASSUME NEW d \in Disks PROVE xl'[d] = xl[d]
      <4>1. CASE d \in done
        <5>1. xl'[d] = v
          BY <1>1, <4>1
        <5>2. d \in Hn(v)
          BY <5>1 DEF Holding
        <5>3. d \in H(v)
          BY <2>7, <5>2
        <5> QED
          BY <5>1, <5>3 DEF Holding
      <4>2. CASE d \notin done
        BY <1>1, <4>2
      <4> QED
        BY <4>1, <4>2
    <3>2. xl \in [Disks -> Writes \cup {Gone}] /\ xl' \in [Disks -> Writes \cup {Gone}]
      BY DEF TypeOK
    <3> QED
      BY <3>1, <3>2
  <2>9. FileInfo(Disks, w)'
    <3>1. FileInfo(Disks, w)
      BY DEF Returns
    <3>2. Holding(Disks, w)' = Holding(Disks, w)
      BY <2>8 DEF Holding
    <3>3. CommonTime(Disks, w)'
      BY <2>8, <3>1 DEF FileInfo, CommonTime, Holding
    <3> QED
      BY <1>3, <1>11, <3>1, <3>2, <3>3 DEF FileInfo
  <2> DEFINE W == {d \in Holding(Disks, w) : parts[d][w] = "whole"}
             Wn == {d \in Holding(Disks, w)' : parts'[d][w] = "whole"}
  <2>10. W \subseteq Wn /\ Wn \in SUBSET Disks
    BY <1>4, <2>8 DEF Holding
  <2>11. Cardinality(W) <= Cardinality(Wn) /\ Cardinality(W) \in Nat /\ Cardinality(Wn) \in Nat
    BY <2>10, MoreDisks
  <2>12. Cardinality(W) >= DataBlocks
    BY DEF Returns
  <2>13. Cardinality(Wn) >= DataBlocks'
    <3> HIDE DEF W, Wn
    <3> QED
      BY <1>3, <2>11, <2>12
  <2>14. Returns(Disks, w)'
    BY <2>9, <2>13 DEF Returns
  <2> QED
    BY <2>14
<1> QED
  BY <1>12, <1>13

\* heal_object costs nothing, however many disks, whichever of them answer and
\* wherever it ends: what could be read can be read, and whole shards stay.
THEOREM HealHarmless == Spec => HealKeepsShards
<1> DEFINE A == heals' # heals =>
       /\ (\E w \in Writes : Returns(Disks, w)) => (\E w \in Writes : Returns(Disks, w))'
       /\ \A w \in Writes :
            legal = {w} /\ Settled /\ Returns(Disks, w) => WholeOn(w) \subseteq WholeOn(w)'
<1>1. Inv /\ [Next]_vars => [A]_vars
  <2> SUFFICES ASSUME Inv, Next, heals' # heals,
                      NEW w \in Writes, Returns(Disks, w)
               PROVE  /\ (\E u \in Writes : Returns(Disks, u))'
                      /\ legal = {w} /\ Settled => WholeOn(w) \subseteq WholeOn(w)'
    OBVIOUS
  <2>1. TypeOK /\ TypeOK'
    BY TypeStep DEF Inv
  <2>2. ~HealDangling
    BY <2>1, ReturnedNotDangling DEF HealDangling
  <2>3. PICK v \in Writes : HealShards(v)
    BY <2>2 DEF Next, CheckPrecondition, Encode, Lock, LockTimeout, RenameData, CommitDataDir,
                LateRename, LateDelete, DeleteObject
  <2>4. (\E u \in Writes : Returns(Disks, u))'
    BY <2>1, <2>3, HealReads
  <2>5. ASSUME legal = {w}, Settled
        PROVE  WholeOn(w) \subseteq WholeOn(w)'
    <3>1. PICK M \in SUBSET Disks, done \in SUBSET Disks, moved \in SUBSET Disks :
           /\ CanHeal(M, v)
           /\ xl' = [d \in Disks |-> IF d \in done THEN v ELSE xl[d]]
           /\ parts' = [d \in Disks |->
                         IF d \in moved THEN [parts[d] EXCEPT ![v] = "whole"] ELSE parts[d]]
      BY <2>1, <2>3, HealEffect
    <3>2. v \in legal
      BY <2>1, <2>5, <3>1, FoundIsLegal DEF CanHeal, Inv
    <3>3. v = w
      BY <2>5, <3>2
    <3>4. ASSUME NEW d \in Disks, xl[d] = w, parts[d][w] = "whole"
          PROVE  xl'[d] = w /\ parts'[d][w] = "whole"
      BY <2>1, <3>1, <3>3, <3>4 DEF TypeOK
    <3> QED
      BY <3>4 DEF WholeOn
  <2> QED
    BY <2>4, <2>5
<1>2. HealKeepsShards <=> [][A]_vars
  BY DEF HealKeepsShards
<1> HIDE DEF A
<1> QED
  BY <1>1, <1>2, Invariance, PTL DEF Spec

=============================================================================
