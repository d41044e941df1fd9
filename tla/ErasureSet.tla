----------------------------- MODULE ErasureSet -----------------------------
(***************************************************************************)
(* One object of one erasure set (crates/ecstore/src/set_disk.rs and       *)
(* set_disk/): put_object with its temporary shards, rename_data and       *)
(* commit_rename_data_dir, delete_object, heal_object, and what a get      *)
(* finds.  The bucket is not versioned, bodies differ and are too large to *)
(* be inlined in xl.meta, and the namespace lock is the exclusive lock of  *)
(* RWLock.                                                                 *)
(*                                                                         *)
(* A put is a number, its mod_time: put_object takes the time when the     *)
(* body is encoded, before it asks for the lock.  The number also stands   *)
(* for the put's data directory, a fresh UUID.                             *)
(***************************************************************************)
EXTENDS Naturals, FiniteSets

CONSTANTS
  Disks,       \* disks of the set
  MaxWrites,   \* bound on puts
  MaxDeletes,  \* bound on deletes
  Settings     \* what a behaviour may have: the set's default parity, the parity
               \* that the storage class gives the object, and bounds on the
               \* shards of one put that are cut short, on heals, on the calls of
               \* one operation that are half done or done with the answer lost,
               \* and on the calls that a disk carries out after their timeout; and
               \* the puts that carry a condition, each with the object it expects

Drives == Cardinality(Disks)

ASSUME ErasureAssumption ==
  /\ IsFiniteSet(Disks) /\ Disks # {}
  /\ MaxWrites \in Nat /\ MaxDeletes \in Nat
  /\ \A s \in Settings :
       /\ s.parity \in 0 .. (Drives \div 2) /\ s.default \in 0 .. (Drives \div 2)
       /\ s.default = 0 => s.parity = 0
       /\ s.cuts \in Nat /\ s.heals \in Nat /\ s.lost \in Nat /\ s.late \in Nat
       /\ DOMAIN s.expect \subseteq 1 .. MaxWrites
       /\ \A w \in DOMAIN s.expect : s.expect[w] \in 0 .. MaxWrites

Writes == 1 .. MaxWrites

\* No xl.meta; in place of a data directory, none.
Gone == 0

\* In place of a put, a late call that deletes.
Deletion == MaxWrites + 1

VARIABLES
  setting,  \* the member of Settings that this behaviour has
  op,       \* where each put is
  tmp,      \* each put's shards below the temporary directory
  xl,       \* the put whose version each disk's xl.meta holds
  parts,    \* the shards in each disk's data directories
  lock,     \* the put that holds the namespace lock, Gone when it is free
  oldDir,   \* the data directory the holder replaced on a quorum
  deletes,  \* deletes so far
  heals,    \* heals so far
  late,     \* calls that timed out and are still to happen: <<disk, put>>
  lates,    \* all the calls that ever were late
  legal,    \* what a get may find: the last completed operation's object, or
            \* what an operation that failed after it began may have left
  short     \* history: puts in place with fewer whole shards than data blocks

vars == <<setting, op, tmp, xl, parts, lock, oldDir, deletes, heals, late, lates, legal, short>>

\* Parity blocks of the object's storage class.
parity == setting.parity

DataBlocks == Drives - parity

WriteQuorum == IF DataBlocks = parity THEN DataBlocks + 1 ELSE DataBlocks

\* Faulty: the parity is taken for the quorum.
DeleteQuorumParity == parity

\* delete_object_version does not look at the object's parity.
DeleteQuorum == Drives \div 2 + 1

Shard == {"none", "cut", "whole"}

Calls == Disks \X (1 .. Deletion)

StateType ==
  /\ setting \in Settings
  /\ op \in [Writes -> {"idle", "checked", "staged", "locked", "renamed", "acked", "failed"}]
  /\ tmp \in [Writes -> [Disks -> Shard]]
  /\ xl \in [Disks -> Writes \cup {Gone}]
  /\ parts \in [Disks -> [Writes -> Shard]]
  /\ lock \in Writes \cup {Gone}
  /\ oldDir \in Writes \cup {Gone}
  /\ deletes \in 0 .. MaxDeletes
  /\ heals \in 0 .. setting.heals
  /\ short \subseteq Writes
  /\ lates \subseteq Calls /\ late \subseteq lates
  /\ legal \subseteq Writes \cup {Gone} /\ legal # {}

\* The puts between their acquisition of the namespace lock and its release are
\* the one that holds it.
OneWriter == \A w \in Writes : lock = w <=> op[w] \in {"checked", "locked", "renamed"}

\* The state is well formed, and one put at a time works on the object.
TypeOK == StateType /\ OneWriter

Init ==
  /\ setting \in Settings
  /\ op = [w \in Writes |-> "idle"]
  /\ tmp = [w \in Writes |-> [d \in Disks |-> "none"]]
  /\ xl = [d \in Disks |-> Gone]
  /\ parts = [d \in Disks |-> [w \in Writes |-> "none"]]
  /\ lock = Gone
  /\ oldDir = Gone
  /\ deletes = 0
  /\ heals = 0
  /\ short = {}
  /\ late = {}
  /\ lates = {}
  /\ legal = {Gone}

-----------------------------------------------------------------------------
(* What a get finds when the disks M answer.  It holds the read lock from  *)
(* the metadata to the last byte, so no writer comes between.              *)

Found(M) == {d \in M : xl[d] # Gone}

Missing(M) == {d \in M : xl[d] = Gone}

Holding(M, w) == {d \in M : xl[d] = w}

\* Faulty: the most frequent error needs no quorum.
NotFoundAny(M) == Cardinality(Missing(M)) > Cardinality(Found(M))

\* It depends on the set's default parity, not on the object's.
NotFoundQuorum == IF setting.default = 0 THEN Drives ELSE Drives \div 2

\* object_quorum_from_meta: FileNotFound is the error most disks agree on.
NotFound(M) ==
  /\ Cardinality(Missing(M)) > Cardinality(Found(M))
  /\ Cardinality(Missing(M)) >= NotFoundQuorum

\* Faulty: the latest mod_time wins, however few disks have it.
CommonTimeLatest(M, w) == \A v \in Writes \ {w} : Holding(M, v) = {} \/ v < w

\* common_time_and_occurrence: the mod_time most disks have, the latest of several.
CommonTime(M, w) ==
  \A v \in Writes \ {w} :
    \/ Cardinality(Holding(M, v)) < Cardinality(Holding(M, w))
    \/ Cardinality(Holding(M, v)) = Cardinality(Holding(M, w)) /\ v < w

\* get_object_fileinfo: enough metadata for the parity, and a read quorum with
\* one mod_time.
FileInfo(M, w) ==
  /\ ~NotFound(M)
  /\ CommonTime(M, w)
  /\ Cardinality(Holding(M, w)) >= DataBlocks

\* get_object_with_fileinfo: enough of those disks have their shard.
Returns(M, w) ==
  /\ FileInfo(M, w)
  /\ Cardinality({d \in Holding(M, w) : parts[d][w] = "whole"}) >= DataBlocks

-----------------------------------------------------------------------------
(* put_object *)

\* The puts with If-None-Match: *, which expect Gone, or If-Match.
Conditional == DOMAIN setting.expect

\* The condition of w, on the disks that answer.  Any error but that the object
\* does not exist refuses the put; to_object_err renames the one for a missing
\* read quorum, so it is not taken for a missing object.
Met(w, M) ==
  LET e == setting.expect[w] IN IF e = Gone THEN NotFound(M) ELSE FileInfo(M, e)

\* Faulty: the lock is only held for the check.
CheckPreconditionUnlocked(w) ==
  /\ w \in Conditional /\ op[w] = "idle"
  /\ lock = Gone
  /\ \E M \in SUBSET Disks : op' = [op EXCEPT ![w] = IF Met(w, M) THEN "checked" ELSE "failed"]
  /\ UNCHANGED <<setting, tmp, xl, parts, lock, oldDir, deletes, heals, late, lates, legal, short>>

\* A put with a condition takes the lock before it looks at the object, and keeps
\* it.
CheckPrecondition(w) ==
  /\ w \in Conditional /\ op[w] = "idle"
  /\ lock = Gone
  /\ \E M \in SUBSET Disks :
       /\ op' = [op EXCEPT ![w] = IF Met(w, M) THEN "checked" ELSE "failed"]
       /\ lock' = IF Met(w, M) THEN w ELSE lock
  /\ UNCHANGED <<setting, tmp, xl, parts, oldDir, deletes, heals, late, lates, legal, short>>

\* The body is encoded to the disks that are open.  A disk that fails on the way
\* keeps the part it has written; the put goes on as long as a write quorum
\* gets everything.
Encode(w) ==
  /\ op[w] = IF w \in Conditional THEN "checked" ELSE "idle"
  /\ \A v \in 1 .. (w - 1) : op[v] \notin {"idle", "checked"}
  /\ \E open \in SUBSET Disks : \E whole \in SUBSET open :
       /\ Cardinality(open \ whole) <= setting.cuts
       /\ \/ /\ Cardinality(whole) >= WriteQuorum
             /\ op' = [op EXCEPT ![w] = IF w \in Conditional THEN "locked" ELSE "staged"]
             /\ tmp' = [tmp EXCEPT ![w] =
                         [d \in Disks |-> IF d \in whole THEN "whole"
                                          ELSE IF d \in open THEN "cut" ELSE "none"]]
             /\ UNCHANGED lock
          \/ /\ Cardinality(whole) < WriteQuorum
             /\ op' = [op EXCEPT ![w] = "failed"]
             /\ lock' = IF lock = w THEN Gone ELSE lock
             /\ UNCHANGED tmp
  /\ UNCHANGED <<setting, xl, parts, oldDir, deletes, heals, late, lates, legal, short>>

\* Faulty: the lock is taken from whoever holds it.
LockStolen(w) ==
  /\ op[w] = "staged"
  /\ op' = [op EXCEPT ![w] = "locked"]
  /\ lock' = w
  /\ UNCHANGED <<setting, tmp, xl, parts, oldDir, deletes, heals, late, lates, legal, short>>

Lock(w) ==
  /\ op[w] = "staged"
  /\ lock = Gone
  /\ op' = [op EXCEPT ![w] = "locked"]
  /\ lock' = w
  /\ UNCHANGED <<setting, tmp, xl, parts, oldDir, deletes, heals, late, lates, legal, short>>

LockTimeout(w) ==
  /\ op[w] = IF w \in Conditional THEN "idle" ELSE "staged"
  /\ op' = [op EXCEPT ![w] = "failed"]
  /\ UNCHANGED <<setting, tmp, xl, parts, lock, oldDir, deletes, heals, late, lates, legal, short>>

\* How a call to each disk ends: done, not done, done with the answer lost, half
\* done (the data directory but not xl.meta), or timed out and still to be done.
Outcomes ==
  {out \in [Disks -> {"ok", "err", "lost", "half", "late"}] :
     /\ Cardinality({d \in Disks : out[d] \in {"lost", "half"}}) <= setting.lost
     /\ Cardinality({d \in Disks : out[d] = "late"}) <= setting.late}

Ok(out) == {d \in DOMAIN out : out[d] = "ok"}

Done(out) == {d \in DOMAIN out : out[d] \in {"ok", "lost"}}

DirDone(out) == {d \in DOMAIN out : out[d] \in {"ok", "lost", "half"}}

Tried(out) == {d \in Disks : out[d] # "err"}

\* The late calls of an operation, within the bound.
NoteLate(out, c) ==
  LET new == {<<d, c>> : d \in {e \in Disks : out[e] = "late"}} IN
  /\ Cardinality(lates \cup new) <= setting.late
  /\ late' = late \cup new
  /\ lates' = lates \cup new

\* reduce_common_data_dir: a failed disk counts for none.
CommonDataDir(out) ==
  LET Old(d) == IF out[d] = "ok" THEN xl[d] ELSE Gone
      Common == {v \in Writes : Cardinality({d \in Disks : Old(d) = v}) >= WriteQuorum}
  IN IF Common = {} THEN Gone ELSE CHOOSE v \in Common : TRUE

\* Each disk moves the shard it has, whole or cut, and then its new xl.meta in
\* place; that there is no shard is no error, since reliable_rename takes NotFound
\* for success.  Below the write quorum the put fails: the undo it sends names the
\* temporary path, where nothing is left to delete, so the disks that were done
\* keep the new xl.meta.
RenameData(w) ==
  /\ op[w] = "locked"
  /\ \E out \in Outcomes :
       /\ NoteLate(out, w)
       /\ xl' = [d \in Disks |-> IF d \in Done(out) THEN w ELSE xl[d]]
       /\ parts' = [d \in Disks |->
                     IF d \in DirDone(out) THEN [parts[d] EXCEPT ![w] = tmp[w][d]] ELSE parts[d]]
       /\ tmp' = [tmp EXCEPT ![w] =
                   [d \in Disks |-> IF d \in DirDone(out) THEN "none" ELSE tmp[w][d]]]
       /\ short' = IF Cardinality({d \in Done(out) : tmp[w][d] = "whole"}) < DataBlocks
                   THEN short \cup {w} ELSE short
       /\ \/ /\ Cardinality(Ok(out)) >= WriteQuorum
             /\ op' = [op EXCEPT ![w] = "renamed"]
             /\ oldDir' = CommonDataDir(out)
             /\ legal' = {w}
             /\ UNCHANGED lock
          \/ /\ Cardinality(Ok(out)) < WriteQuorum
             /\ op' = [op EXCEPT ![w] = "failed"]
             /\ legal' = IF Tried(out) = {} THEN legal ELSE legal \cup {w}
             /\ lock' = Gone
             /\ UNCHANGED oldDir
  /\ UNCHANGED <<setting, deletes, heals>>

\* The old data directory is removed from the disks that answer.  Without a
\* write quorum of answers the put returns an error, although it is in place;
\* else it unlocks and removes what it left in the temporary directory.
CommitDataDir(w) ==
  /\ op[w] = "renamed"
  /\ \E gone \in SUBSET Disks :
       /\ oldDir = Gone => gone = {}
       /\ parts' = [d \in Disks |->
                     IF d \in gone THEN [parts[d] EXCEPT ![oldDir] = "none"] ELSE parts[d]]
       /\ \/ /\ oldDir = Gone \/ Cardinality(gone) >= WriteQuorum
             /\ op' = [op EXCEPT ![w] = "acked"]
             /\ \E clean \in SUBSET {d \in Disks : tmp[w][d] # "none"} :
                  tmp' = [tmp EXCEPT ![w] =
                           [d \in Disks |-> IF d \in clean THEN "none" ELSE tmp[w][d]]]
          \/ /\ oldDir # Gone
             /\ op' = [op EXCEPT ![w] = "failed"]
             /\ UNCHANGED tmp
  /\ lock' = Gone
  /\ oldDir' = Gone
  /\ UNCHANGED <<setting, xl, deletes, heals, late, lates, legal, short>>

-----------------------------------------------------------------------------
(* delete_object, under the lock from its look at the object to its end.   *)
(* A disk moves the data directory to the trash and then removes xl.meta.  *)

DeleteVersion(out) ==
  /\ \A d \in Disks : xl[d] = Gone => out[d] = "err"
  /\ NoteLate(out, Deletion)
  /\ xl' = [d \in Disks |-> IF d \in Done(out) THEN Gone ELSE xl[d]]
  /\ parts' = [d \in Disks |->
                IF d \in DirDone(out) THEN [parts[d] EXCEPT ![xl[d]] = "none"] ELSE parts[d]]

DeleteObject ==
  /\ lock = Gone
  /\ deletes < MaxDeletes
  /\ \E M \in SUBSET Disks, w \in Writes : FileInfo(M, w)
  /\ \E out \in Outcomes :
       /\ DeleteVersion(out)
       /\ legal' = IF Cardinality(Ok(out)) >= DeleteQuorum THEN {Gone}
                   ELSE IF Tried(out) = {} THEN legal ELSE legal \cup {Gone}
  /\ deletes' = deletes + 1
  /\ UNCHANGED <<setting, op, tmp, lock, oldDir, heals, short>>

-----------------------------------------------------------------------------
(* heal_object, under the lock from its look at the object to its end.     *)

WholeOn(w) == {d \in Disks : xl[d] = w /\ parts[d][w] = "whole"}

\* is_object_dangling: all disks answer, and more than the parity have no
\* xl.meta, or no shard of the version the others have in common.  A stale xl.meta
\* or a cut shard is none of the errors that allow a delete.
Dangling ==
  \/ Found(Disks) # {} /\ Cardinality(Missing(Disks)) > parity
  \/ \E w \in Writes :
       /\ FileInfo(Disks, w)
       /\ \A d \in Disks : xl[d] \in {w, Gone} /\ parts[d][w] # "cut"
       /\ Cardinality({d \in Disks : xl[d] # w \/ parts[d][w] = "none"}) > parity

\* delete_if_dangling sends every disk a delete of the object.
HealDangling ==
  /\ lock = Gone
  /\ heals < setting.heals
  /\ Dangling
  /\ \E out \in Outcomes : DeleteVersion(out)
  /\ heals' = heals + 1
  /\ UNCHANGED <<setting, op, tmp, lock, oldDir, deletes, legal, short>>

\* The disks to heal among those that answer: all without the version w, and
\* the disks S that lack its shard and are seen to.  disks_with_all_parts enters
\* the part errors by error code instead of by disk, so those it reports on are
\* the disks whose index happens to be a code.
Outdated(M, w, S) == {d \in M : xl[d] # w} \cup S

\* Faulty: the latest version found is healed, however few disks have it.
CanHealLatest(M, w) == Holding(M, w) # {} /\ \A d \in M : xl[d] <= w

\* The version a read quorum has in common, with shards enough to rebuild the rest.
CanHeal(M, w) == FileInfo(M, w) /\ Cardinality(M \cap WholeOn(w)) >= DataBlocks

Shardless(M, w) == {d \in M : xl[d] = w /\ parts[d][w] # "whole"}

\* The shards are rebuilt in a temporary directory and renamed disk by disk.
\* After the first rename the directory is removed everywhere: of the others only
\* the disks that failed to still have a shard to move, the rest get xl.meta
\* alone.  A shard cannot be moved over one that is there.
HealShards(w) ==
  /\ lock = Gone
  /\ heals < setting.heals
  /\ \E M \in SUBSET Disks :
       /\ CanHeal(M, w)
       /\ \E S \in SUBSET Shardless(M, w) :
          LET O == Outdated(M, w, S) IN
          \E fresh \in (SUBSET O) \ {{}}, out \in [O -> {"ok", "err", "lost", "half"}] :
            /\ Cardinality({d \in O : out[d] \in {"lost", "half"}}) <= setting.lost
            /\ \A d \in fresh : parts[d][w] # "none" => out[d] = "err"
            /\ xl' = [d \in Disks |-> IF d \in Done(out) THEN w ELSE xl[d]]
            /\ parts' = [d \in Disks |->
                          IF d \in fresh \cap DirDone(out) THEN [parts[d] EXCEPT ![w] = "whole"]
                          ELSE parts[d]]
  /\ heals' = heals + 1
  /\ UNCHANGED <<setting, op, tmp, lock, oldDir, deletes, late, lates, legal, short>>

-----------------------------------------------------------------------------
(* Calls that a remote disk carries out after execute_with_timeout gave up *)

LateRename(d, w) ==
  /\ <<d, w>> \in late
  /\ late' = late \ {<<d, w>>}
  /\ xl' = [xl EXCEPT ![d] = w]
  /\ parts' = [parts EXCEPT ![d][w] = IF tmp[w][d] = "none" THEN @ ELSE tmp[w][d]]
  /\ tmp' = [tmp EXCEPT ![w][d] = "none"]
  /\ UNCHANGED <<setting, op, lock, oldDir, deletes, heals, lates, legal, short>>

LateDelete(d) ==
  /\ <<d, Deletion>> \in late
  /\ late' = late \ {<<d, Deletion>>}
  /\ \/ /\ xl[d] # Gone
        /\ xl' = [xl EXCEPT ![d] = Gone]
        /\ parts' = [parts EXCEPT ![d][xl[d]] = "none"]
     \/ /\ xl[d] = Gone
        /\ UNCHANGED <<xl, parts>>
  /\ UNCHANGED <<setting, op, tmp, lock, oldDir, deletes, heals, lates, legal, short>>

Next ==
  \/ \E w \in Writes :
       \/ CheckPrecondition(w) \/ Encode(w) \/ Lock(w) \/ LockTimeout(w)
       \/ RenameData(w) \/ CommitDataDir(w) \/ HealShards(w)
       \/ \E d \in Disks : LateRename(d, w)
  \/ DeleteObject
  \/ HealDangling
  \/ \E d \in Disks : LateDelete(d)

Spec == Init /\ [][Next]_vars

-----------------------------------------------------------------------------
(* Properties *)

\* The disks that a completed put or delete missed, a minority, and those that
\* calls carried out late took from it, are too few to read an older object from.
Settled == Drives - (Drives \div 2 + 1) + Cardinality(lates) < DataBlocks

\* Whichever disks answer, a get never returns an object that a completed put
\* or delete has replaced: the quorums of rename_data, delete_object_version and
\* get_object_fileinfo fit together, failed puts, late calls and heals included.
NoStaleRead ==
  lock = Gone /\ Settled => \A M \in SUBSET Disks, w \in Writes : Returns(M, w) => w \in legal

NoLateDelete == \A d \in Disks : <<d, Deletion>> \notin lates

\* A completed put misses fewer disks than it takes to say that there is no
\* object.  Sets of 3, 5, 7 or 9 disks with their default parity are the
\* exception: a put may miss half of those disks, rounded down, and these alone
\* answer.
Outvoting == Drives - WriteQuorum < NotFoundQuorum

\* A get says that the object does not exist only when it may have been deleted:
\* disks that missed the put never outvote it, and heal_object does not take it
\* for dangling.  A delete that a disk carries out late is the exception, and a put
\* that rename_data completed with too few shards.
NoFalseNotFound ==
  lock = Gone /\ Gone \notin legal /\ legal \cap short = {} /\ NoLateDelete /\ Settled /\ Outvoting
    => \A M \in SUBSET Disks : ~NotFound(M)

\* What check_write_precondition found is still what is there when the put renames
\* its data: of two puts with If-None-Match: * only one creates the object, and one
\* with If-Match replaces no other object than the one it names.
PreconditionKept ==
  Settled /\ Outvoting /\ NoLateDelete /\ legal \cap short = {} =>
    \A w \in Conditional : op[w] \in {"checked", "locked"} => setting.expect[w] \in legal

\* When a put is in place and nothing has failed or come late since, a get from
\* all disks returns it, if rename_data moved as many whole shards as there are
\* data blocks: what counts as a write quorum is enough to read, and neither
\* commit_rename_data_dir nor a heal removes what is needed.
ReadAfterWrite ==
  \A w \in Writes :
    lock = Gone /\ legal = {w} /\ lates = {} /\ w \notin short => Returns(Disks, w)

\* heal_object costs nothing: an object that a get from all disks returned can be
\* read after it, and of a put that is in place every disk with a whole shard keeps
\* it, also when the heal ends half way or moves no shard to a disk.
HealKeepsShards ==
  [][heals' # heals =>
       /\ (\E w \in Writes : Returns(Disks, w)) => (\E w \in Writes : Returns(Disks, w))'
       /\ \A w \in Writes :
            legal = {w} /\ Settled /\ Returns(Disks, w) => WholeOn(w) \subseteq WholeOn(w)']_vars

\* "preserve current xl.meta inside the oldDataDir" (disk/local.rs:2102), for the
\* undo of rename_data: once a put is in place, the object stays readable while
\* all disks answer, also when later puts fail.  Disks that got an xl.meta without
\* a shard are left aside.
StaysReadable ==
  /\ lock = Gone /\ Gone \notin legal
  /\ \A d \in Found(Disks) : parts[d][xl[d]] = "whole"
  => \E w \in Writes : Returns(Disks, w)

=============================================================================
