--------------------------- MODULE VersionJournal ---------------------------
(***************************************************************************)
(* The versions of one object of a versioned bucket: the journal in each   *)
(* disk's xl.meta (filemeta/src/filemeta.rs), the puts and deletes that    *)
(* change the journals of a quorum of the disks, and the listing that      *)
(* merges the journals of the disks it asks (MetaCacheEntries::resolve,    *)
(* merge_file_meta_versions).                                              *)
(*                                                                         *)
(* - add_version inserts by mod_time and set_idx sorts again, and no two   *)
(*   operations have the same mod_time: a journal is the set of its        *)
(*   versions, newest first.                                               *)
(* - An operation's number is its mod_time, and the id of the version it   *)
(*   makes unless that is the null version (Uuid::nil, suspended bucket).  *)
(* - A put takes its mod_time before it takes the lock, a delete after.    *)
(*   Both change the disks under the lock, so that is one step; a disk     *)
(*   that fails or is away misses it.  The failed put's undo works on      *)
(*   another path (see ErasureSet), so what was done stays.                *)
(* - A listing takes no lock.  Each disk walks its directory on its own:   *)
(*   the reads come in any order, and none of them says in which order     *)
(*   resolve sees the disks.                                               *)
(***************************************************************************)
EXTENDS Naturals, Sequences, FiniteSets, SequencesExt

CONSTANTS
  Disks,
  Parity,     \* parity blocks of the storage class
  MaxOps,     \* bound: puts and deletes
  MaxMisses   \* bound: disk calls that fail

ASSUME VersionJournalAssumption ==
  /\ IsFiniteSet(Disks)
  /\ Cardinality(Disks) > 1
  /\ Parity \in Nat
  /\ Parity < Cardinality(Disks)
  /\ MaxOps \in Nat
  /\ MaxMisses \in Nat

Null == 0

Ids == 0..MaxOps

Times == 1..MaxOps

Versions == [id : Ids, time : Times, type : {"Object", "Delete"}]

NoVersion == [id |-> 0, time |-> 0, type |-> "None"]

VARIABLES
  journal,   \* each disk's xl.meta, {} without one
  clock,     \* operations begun
  puts,      \* puts that have their mod_time and wait for the lock
  misses,
  last,      \* each id's last operation: the version it left, and its success
  asked,     \* the listing: the disks it asks, {} if there is none
  unread,    \* those of them that have not walked past the object yet
  streams,   \* the journals read, as resolve will see them
  due,       \* history: versions settled when the listing began
  gone       \* history: ids whose delete was settled then

opVars == <<clock, puts, misses, last>>
walkVars == <<asked, unread, streams>>
listVars == <<walkVars, due, gone>>
vars == <<journal, opVars, listVars>>

TypeOK ==
  /\ journal \in [Disks -> SUBSET Versions]
  /\ \A d \in Disks : \A v, w \in journal[d] : v.id = w.id => v = w
  /\ clock \in 0..MaxOps
  /\ puts \subseteq Versions
  /\ misses \in 0..MaxMisses
  /\ last \in [Ids -> [version : Versions \cup {NoVersion}, acked : BOOLEAN]]
  /\ unread \subseteq asked /\ asked \subseteq Disks
  /\ Len(streams) + Cardinality(unread) <= Cardinality(asked)
  /\ due \subseteq Versions
  /\ gone \subseteq Ids

Init ==
  /\ journal = [d \in Disks |-> {}]
  /\ clock = 0
  /\ puts = {}
  /\ misses = 0
  /\ last = [i \in Ids |-> [version |-> NoVersion, acked |-> FALSE]]
  /\ asked = {}
  /\ unread = {}
  /\ streams = <<>>
  /\ due = {}
  /\ gone = {}

N == Cardinality(Disks)

DataBlocks == N - Parity

WriteQuorum == IF DataBlocks = Parity THEN DataBlocks + 1 ELSE DataBlocks

DeleteQuorum == N \div 2 + 1

\* Of the disks that were online when the listing began.
ListingQuorum == (Cardinality(asked) + 1) \div 2

-----------------------------------------------------------------------------
(* One journal. *)

WithId(j, id) == {v \in j : v.id = id}

\* sorts_before: times differ, so they decide.
Newest(j) == CHOOSE v \in j : \A w \in j : w.time <= v.time

\* Newest first: the n-th has n - 1 newer ones.
Sorted(j) ==
  [n \in 1..Cardinality(j) |->
     CHOOSE v \in j : Cardinality({w \in j : w.time > v.time}) = n - 1]

\* add_version_filemata: a version with the id is replaced; any other is
\* inserted before the first that is not newer, and refused if all are newer.
Refuses(j, v) ==
  /\ j # {}
  /\ WithId(j, v.id) = {}
  /\ \A w \in j : w.time > v.time

\* Faulty: the version is inserted beside the one with its id.
AddVersionTwice(j, v) == j \cup {v}

AddVersion(j, v) == (j \ WithId(j, v.id)) \cup {v}

\* FileMeta::delete_version, v the marker to be left (NoVersion: none).  With
\* markDeleted a marker that is there stays as it is.
Undeletable(j, id, v) ==
  j = {} \/ (WithId(j, id) = {} /\ v = NoVersion)

DeleteVersion(j, id, v, markDeleted) ==
  IF WithId(j, id) = {}
  THEN AddVersion(j, v)
  ELSE LET old == Newest(WithId(j, id)) IN
       IF old.type = "Delete"
       THEN IF markDeleted THEN j
            ELSE IF v # NoVersion /\ id = Null THEN AddVersion(j, v)
            ELSE j \ {old}
       ELSE IF v # NoVersion THEN AddVersion(j, v) ELSE j \ {old}

-----------------------------------------------------------------------------
(* Puts and deletes. *)

\* History: the disks D carried out an operation on id that leaves v, with
\* success or not; a listing under way may no longer rely on what it knew.
Record(id, v, D, acked) ==
  IF D = {} THEN UNCHANGED <<last, due, gone>>
  ELSE /\ last' = [last EXCEPT ![id] = [version |-> v, acked |-> acked]]
       /\ due' = {w \in due : w.id # id}
       /\ gone' = gone \ {id}

\* The disks that miss a call.
Miss(M) ==
  /\ misses + Cardinality(M) <= MaxMisses
  /\ misses' = misses + Cardinality(M)

\* put_object sets the mod_time, then asks for the lock.
BeginPut(id) ==
  /\ clock < MaxOps
  /\ clock' = clock + 1
  /\ puts' = puts \cup {[id |-> id, time |-> clock + 1, type |-> "Object"]}
  /\ UNCHANGED <<journal, misses, last, listVars>>

\* Faulty: a quorum of the disks is enough.
CommitPutEarly(v) ==
  \E D \in SUBSET Disks :
    /\ v \in puts
    /\ Cardinality(D) >= WriteQuorum
    /\ \A d \in D : ~Refuses(journal[d], v)
    /\ puts' = puts \ {v}
    /\ journal' = [d \in Disks |-> IF d \in D THEN AddVersion(journal[d], v) ELSE journal[d]]
    /\ Record(v.id, v, D, TRUE)
    /\ UNCHANGED <<clock, misses, walkVars>>

\* rename_data on every disk: xl.meta gets the version.
CommitPut(v) ==
  \E M \in SUBSET Disks :
    LET D == {d \in Disks \ M : ~Refuses(journal[d], v)} IN
    /\ v \in puts
    /\ Miss(M)
    /\ puts' = puts \ {v}
    /\ journal' = [d \in Disks |-> IF d \in D THEN AddVersion(journal[d], v) ELSE journal[d]]
    /\ Record(v.id, v, D, Cardinality(D) >= WriteQuorum)
    /\ UNCHANGED <<clock, walkVars>>

\* Faulty: one disk that removed the version is enough.
DeleteAtAnyDisk(id, v, markDeleted) ==
  \E M \in SUBSET Disks :
    LET D == {d \in Disks \ M : ~Undeletable(journal[d], id, v)} IN
    /\ Miss(M)
    /\ journal' = [d \in Disks |-> IF d \in D THEN DeleteVersion(journal[d], id, v, markDeleted)
                                   ELSE journal[d]]
    /\ Record(id, v, D, IF v = NoVersion THEN D # {} ELSE Cardinality(D) >= DeleteQuorum /\ markDeleted)

\* delete_object_version on every disk.  A delete of a marker that carries a
\* marker re-creates it on the disks that have none: nothing is claimed then.
DeleteAt(id, v, markDeleted) ==
  \E M \in SUBSET Disks :
    LET D == {d \in Disks \ M : ~Undeletable(journal[d], id, v)} IN
    /\ Miss(M)
    /\ journal' = [d \in Disks |-> IF d \in D THEN DeleteVersion(journal[d], id, v, markDeleted)
                                   ELSE journal[d]]
    /\ Record(id, v, D, Cardinality(D) >= DeleteQuorum /\ (markDeleted \/ v = NoVersion))

\* object_quorum_from_meta: a delete marker has no data, its parity is half.
ReadQuorum(v) == IF v.type = "Delete" /\ Parity > 0 THEN N - N \div 2 ELSE DataBlocks

\* delete_object without a version id: the latest version must be readable;
\* a delete marker is added, or takes the null version's place.
DeleteLatest(id) ==
  LET marker == [id |-> id, time |-> clock + 1, type |-> "Delete"] IN
  /\ clock < MaxOps
  /\ clock' = clock + 1
  /\ \E v \in Versions :
       Cardinality({d \in Disks : journal[d] # {} /\ Newest(journal[d]) = v}) >= ReadQuorum(v)
  /\ DeleteAt(id, marker, TRUE)
  /\ UNCHANGED <<puts, walkVars>>

\* delete_object of a version that can be read.  While versioning is enabled
\* the delete of a marker carries a marker again ("deleted" stays set).
DeleteOne(v, versioned) ==
  LET again == IF versioned /\ v.type = "Delete"
               THEN [id |-> v.id, time |-> clock + 1, type |-> "Delete"]
               ELSE NoVersion IN
  /\ clock < MaxOps
  /\ clock' = clock + 1
  /\ Cardinality({d \in Disks : v \in journal[d]}) >= ReadQuorum(v)
  /\ DeleteAt(v.id, again, FALSE)
  /\ UNCHANGED <<puts, walkVars>>

-----------------------------------------------------------------------------
(* merge_file_meta_versions. *)

\* matches_not_strict: same id and type, whatever the mod_time.
Matches(v, w) == v.id = w.id /\ v.type = w.type

\* With a quorum of one the merge is strict: only equal headers are copies.
Copies(v, w) == ListingQuorum > 1 /\ Matches(v, w)

\* The streams that have any version left, in their order.
Candidates(ss) ==
  LET left == {i \in 1..Len(ss) : ss[i] # {}}
  IN  [n \in 1..Cardinality(left) |->
         ss[CHOOSE i \in left : Cardinality({h \in left : h < i}) = n - 1]]

\* Their newest versions.
Tops(ss) == [i \in 1..Len(Candidates(ss)) |-> Newest(Candidates(ss)[i])]

\* All tops are the same and no stream has ended, unless the first ones have.
Consistent(ss) ==
  LET first == CHOOSE i \in 1..Len(ss) : ss[i] # {} /\ \A k \in 1..(i - 1) : ss[k] = {}
  IN  \A i \in first..Len(ss) : ss[i] # {} /\ Newest(ss[i]) = Newest(ss[first])

\* Of the tops with one id the most frequent, the newest among equals.
Majority(tops, id) ==
  LET H == {v \in Range(tops) : v.id = id}
      Count(v) == Cardinality({i \in 1..Len(tops) : tops[i] = v})
      best == CHOOSE v \in H : \A w \in H : \/ Count(v) > Count(w)
                                          \/ (Count(v) = Count(w) /\ v.time >= w.time)
  IN  [version |-> best, count |-> Count(best), stop |-> TRUE]

\* Faulty: the count is not restarted for a newer version.
CountTopAll(tops, c, v) ==
  CASE c.stop -> c
    [] ~c.stop /\ v = c.version -> [c EXCEPT !.count = @ + 1]
    [] ~c.stop /\ v.time > c.version.time -> [c EXCEPT !.version = v, !.count = @ + 1]
    [] ~c.stop /\ v.time < c.version.time ->
         IF Copies(v, c.version) THEN [c EXCEPT !.count = @ + 1]
         ELSE IF v.id = c.version.id THEN Majority(tops, v.id) ELSE c

\* The loop over the tops that looks for the latest and counts its copies.
CountTop(tops, c, v) ==
  CASE c.stop -> c
    [] ~c.stop /\ v = c.version -> [c EXCEPT !.count = @ + 1]
    [] ~c.stop /\ v.time > c.version.time ->
         [c EXCEPT !.version = v, !.count = IF Copies(v, c.version) THEN @ + 1 ELSE 1]
    [] ~c.stop /\ v.time < c.version.time ->
         IF Copies(v, c.version) THEN [c EXCEPT !.count = @ + 1]
         ELSE IF v.id = c.version.id THEN Majority(tops, v.id) ELSE c

Latest(tops) ==
  FoldLeft(LAMBDA c, v : CountTop(tops, c, v),
           [version |-> NoVersion, count |-> 0, stop |-> FALSE], tops)

\* Faulty: only the latest and what is newer goes.
DropFromKeepsMerged(j, latest, merged) ==
  LET c == {v \in j : v.time > latest.time \/ v = latest}
  IN  IF c = {} THEN j ELSE j \ {Newest(c)}

\* From each stream at most one version goes: the first that is newer than
\* the latest, or has its id or the id of one merged before.
DropFrom(j, latest, merged) ==
  LET c == {v \in j : \/ v.time > latest.time
                      \/ latest # NoVersion /\ v.id = latest.id
                      \/ \E m \in Range(merged) : m.id = v.id}
  IN  IF c = {} THEN j ELSE j \ {Newest(c)}

\* Faulty: more than a quorum is asked for.
MergedOverQuorum(merged, c) ==
  IF c.count > ListingQuorum THEN Append(merged, c.version) ELSE merged

\* The latest is merged if a quorum of the tops are copies of it.
Merged(merged, c) ==
  IF c.count >= ListingQuorum THEN Append(merged, c.version) ELSE merged

MergeRound(m) ==
  LET tops == Tops(m.streams)
      latest == Latest(tops)
      found == IF Consistent(m.streams)
               THEN [version |-> NoVersion, merged |-> Append(m.merged, tops[1])]
               ELSE [version |-> latest.version, merged |-> Merged(m.merged, latest)]
  IN  IF Len(tops) < ListingQuorum THEN m
      ELSE [merged |-> found.merged,
            streams |-> [i \in 1..Len(m.streams) |->
                           DropFrom(m.streams[i], found.version, found.merged)]]

\* A round drops at least one version.
Rounds(ss) == FoldLeft(LAMBDA n, j : n + Cardinality(j), 0, ss)

\* The merge that list_objects asks for, of all versions.  list_object_versions
\* asks for one (requested_versions = 1): the rest of the first stream is added
\* unmerged then.  It shows none of the merge's versions, only whether there is
\* one (see ListedVersions), which is the same.
Merge(ss) ==
  FoldLeft(LAMBDA m, r : MergeRound(m), [streams |-> ss, merged |-> <<>>],
           [r \in 1..Rounds(ss) |-> r]).merged

-----------------------------------------------------------------------------
(* Listing: MetaCacheEntries::resolve. *)

\* MetaCacheEntry::matches, not strict.
Agree(j, k) ==
  LET a == Sorted(j) b == Sorted(k) IN
  Len(a) = Len(b) /\ \A i \in 1..Len(a) : Matches(a[i], b[i])

\* Of journals that agree the one with the newer version where they differ.
Prefer(j, k) ==
  LET a == Sorted(j) b == Sorted(k)
      differ == {i \in 1..Len(a) : a[i] # b[i]}
      first == CHOOSE i \in differ : \A h \in differ : i <= h
  IN  IF differ = {} \/ a[first].time > b[first].time THEN j ELSE k

\* The first journal, or one that agrees with it and is preferred.
Select(c, j) ==
  IF Agree(j, c.selected) THEN [selected |-> Prefer(j, c.selected), agree |-> c.agree + 1]
  ELSE c

Selected(cs) == FoldLeft(Select, [selected |-> cs[1], agree |-> 1], Tail(cs))

\* What the listing takes the object's latest version from: the selected
\* journal if all agree, else the merged ones.
Resolve(ss) ==
  LET cs == Candidates(ss) IN
  CASE Len(cs) < ListingQuorum -> <<>>
    [] Len(cs) >= ListingQuorum /\ Selected(cs).agree = Len(cs) -> Sorted(Selected(cs).selected)
    [] OTHER -> Merge(cs)

\* What it takes the versions from: the metadata of the new entry is that of
\* the selected journal, merged or not.
ListedVersions(ss) ==
  IF Resolve(ss) = <<>> THEN <<>> ELSE Sorted(Selected(Candidates(ss)).selected)

\* list_path asks the disks that are online; what is settled now has to be in
\* the result.
BeginListing(A) ==
  /\ asked = {}
  /\ asked' = A
  /\ unread' = A
  /\ due' = {last[i].version : i \in {i \in Ids : last[i].acked /\ last[i].version # NoVersion}}
  /\ gone' = {i \in Ids : last[i].acked /\ last[i].version = NoVersion}
  /\ UNCHANGED <<journal, opVars, streams>>

\* list_path_raw: a disk's walk gets to the object ...
ReadDisk(d) ==
  /\ d \in unread
  /\ unread' = unread \ {d}
  /\ \E k \in 1..(Len(streams) + 1) : streams' = InsertAt(streams, k, journal[d])
  /\ UNCHANGED <<journal, opVars, asked, due, gone>>

\* ... or fails, which looks like its end.
WalkFails(d) ==
  /\ d \in unread
  /\ unread' = unread \ {d}
  /\ Miss({d})
  /\ UNCHANGED <<journal, clock, puts, last, asked, streams, due, gone>>

EndListing ==
  /\ asked # {}
  /\ unread = {}
  /\ asked' = {}
  /\ streams' = <<>>
  /\ due' = {}
  /\ gone' = {}
  /\ UNCHANGED <<journal, opVars, unread>>

Next ==
  \/ \E id \in {Null, clock + 1} : BeginPut(id) \/ DeleteLatest(id)
  \/ \E v \in puts : CommitPut(v)
  \/ \E v \in UNION {journal[d] : d \in Disks}, b \in BOOLEAN : DeleteOne(v, b)
  \/ \E A \in SUBSET Disks \ {{}} : BeginListing(A)
  \/ \E d \in Disks : ReadDisk(d) \/ WalkFails(d)
  \/ EndListing

Spec == Init /\ [][Next]_vars

-----------------------------------------------------------------------------
(* Properties. *)

\* The listing has what it gets from the disks.
Complete == asked # {} /\ unread = {}

Shown == Range(Resolve(streams))

Seen == UNION Range(streams)

\* The disks that were read have different versions with v's id.
Contested(v) ==
  \E w, x \in Seen : w.id = v.id /\ x.id = v.id /\ w # x

\* They have versions of some id that the merge does not count as copies of
\* each other.  It stops counting there, goes on with one of the two, and drops
\* from every disk what is newer than that one.
Disputed ==
  \E w, x \in Seen : w.id = x.id /\ w # x /\ ~Copies(w, x)

\* How many disks took part in the operation that left v, if it succeeded.
QuorumFor(v) == IF v.type = "Delete" THEN DeleteQuorum ELSE WriteQuorum

\* The merge has every version whose put or delete was acknowledged before the
\* listing began and whose id is not touched meanwhile, whatever happens to
\* other versions between the reads and whichever disks missed it, provided
\* that the disks that answer less those that may have missed it are a quorum.
\* Not so a null version of which some disk has another copy, nor, if disks
\* have both a null version and a null marker, what one of them missed: the
\* versions are counted as rivals, and others are dropped with them.
ListingComplete ==
  Complete =>
    \A v \in due :
      /\ Len(streams) >= ListingQuorum + (N - QuorumFor(v))
      /\ Disputed => \A j \in Range(streams) : \E w \in j : Matches(v, w)
      => Contested(v) \/ \E w \in Shown : Matches(v, w)

\* A version whose delete was acknowledged before the listing began is not in
\* the merge, though disks that missed the delete still list it, provided that
\* they are too few for a quorum of the disks asked.
DeletedNotShown ==
  Complete /\ N - DeleteQuorum < ListingQuorum =>
    \A id \in gone : \A w \in Shown : w.id # id

\* The merged versions are a journal: each id once, newest first, unless what
\* is newer than a rival was dropped with it and older copies of it were not.
MergedIsJournal ==
  Complete /\ ~Disputed =>
    LET m == Resolve(streams) IN
      \A i, k \in 1..Len(m) : i < k => m[i].id # m[k].id /\ m[i].time > m[k].time

\* The counting in the merge never takes fewer copies than a quorum for one:
\* each merged version has a copy on a quorum of the disks asked.
ShownByQuorum ==
  Complete =>
    \A v \in Shown :
      Cardinality({i \in 1..Len(streams) : \E w \in streams[i] : Matches(v, w)}) >= ListingQuorum

\* A listing of versions works from one disk's journal.  As long as no disk
\* has missed a change that is enough: it has every version that was
\* acknowledged before the listing began and not touched since, even while
\* other changes make the disks differ.
VersionsListed ==
  Complete /\ misses = 0 =>
    \A v \in due : \E w \in Range(ListedVersions(streams)) : Matches(v, w)

=============================================================================
