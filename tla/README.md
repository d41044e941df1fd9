# A TLA+ verification project for RustFS

RustFS is a distributed, S3-compatible object store in Rust. This directory
holds TLA+ models of its core protocols, TLC configurations that check them on
small instances, and TLAPS proofs of the results that should hold for every
instance. Paths below are relative to the repository's root; `PROJECT.json`
maps every definition to the lines it models.

## 1. Inventory

| Part | State it keeps | Operations | What makes it correct |
|---|---|---|---|
| `crates/lock/src/fast_lock` (per-object lock) | a packed `u64` per object, owner tables, waiter counters, a shared pool of `Notify`s, the shard's map of states, the set of active guards | fast path, slow path with back-off and waits, release, wake-up, cleanup of idle states | exclusion per key; counts equal what is held and who waits; every request ends; no guard loses its state |
| `crates/lock/src/distributed_lock.rs`, `client/local.rs`, `ecstore/src/rpc/remote_locker.rs`, `rustfs/src/storage/rpc/lock.rs` (quorum lock) | guards in every server's memory, entries in the caller's guard, the unlock channel | acquire at all servers, decide by quorum, roll back, release in the background | exclusion across the cluster under lost, late and reordered calls; what is stored is released |
| `crates/lock/src/fast_lock/manager.rs` (batches) | the guards of a batch | best effort and two-phase acquisition | no circular wait; all or nothing |
| `crates/lock/src/namespace` | none | chooses quorum, local or distributed lock | quorums intersect |
| `crates/ecstore/src/set_disk*` (erasure set) | shards and `xl.meta` on each disk | put (conditional or not), get, delete, heal, multipart | no replaced object is read, no live object reported missing; conditions hold when a put takes effect; heal costs nothing |
| `crates/ecstore/src/{sets,store,pools,rebalance}.rs` | pool metadata | placement, decommission, rebalance with resume | every object stays in some pool, restarts resume |
| `crates/filemeta` | the version journal of an object | add, delete, merge versions | a listing has every settled version, none that was deleted, each once |
| `crates/heal` | priority queue, active tasks, checkpoints | submit, schedule, cancel, resume | no duplicate or lost request, limits kept |
| `crates/ecstore/src/bucket/{replication,lifecycle}`, `tier` | worker queues, resync state | replicate, retry, expire, transition | every version reaches its final status |
| `crates/notify`, `targets`, `audit` | on-disk event queues, each target's map of them, streams | save, send, retry, delete, reload | at-least-once delivery through crashes and reloads; limits kept; failing events do not hold up others |
| `crates/iam`, `policy`, `kms` | caches of users, policies, keys | load, change, notify peers, reconfigure | caches converge, evaluation is deny-first |
| `crates/workers`, `rustfs/src/storage/concurrency.rs` | counters, caches | take and give slots | limits kept, waiters served |
| the rest (`rio`, `utils`, `common`, `config`, `obs`, `protos`, S3 and admin handlers, ...) | - | I/O, translation, telemetry | not modelled; `PROJECT.json` gives the reason for each |

Interactions: S3 handlers call the store, which picks a pool, a set and its
disks; a set takes a namespace lock (`set_disk.rs`, `new_ns_lock`) before it
writes. In a cluster that is a `DistributedLock` over one `LockClient` per host;
each client is the in-process lock of that host, reached directly
(`LocalClient`) or by RPC (`RemoteClient` and the node service). Heal, the
scanner, rebalance and the lifecycle workers are clients of the same sets and
locks.

The hard behaviours begin in the first two rows: lock-free words with tables
beside them, waits that race with wake-ups and timeouts, cleanup that races with
everything, and a quorum protocol whose calls can be lost, late or out of order.
The locks come first because all the others rely on them; then the erasure set,
whose quorums decide whether an object can be read after some disks failed, lost
an answer or acted too late; then the version journals, which disks change and
listings merge without a lock, and the event queues, where saves, streams,
reloads and crashes meet in one directory. The hazards, each at its line, are listed in
`PROJECT.json`.

## 2. Modules

| Module | Models | Runs |
|---|---|---|
| `LockWord` | `AtomicLockState` as a record of its fields | used by the next two |
| `PackedWord` | `AtomicLockState` with masks and shifts, shown to do what `LockWord` says | `packed_word` |
| `RWLock` | abstract: what a namespace lock promises | refined by the next two |
| `FastLock`, `MCFastLock` | one key of one `LockShard` with its guard, notifications and cleanup | `fastlock_*` |
| `DistLock`, `MCDistLock` | the quorum lock of one resource with its unlock worker | `dist_*` |
| `BatchLock`, `MCBatchLock` | tasks that lock several keys, each key an `RWLock` | `batch` |
| `ErasureSet`, `MCErasureSet` | put, get, delete and heal of one object on the disks of a set, under the write lock | `erasure`, `erasure_undo` |
| `VersionJournal`, `MCVersionJournal` | the versions of one object of a versioned bucket and the listing that merges them | `versions` |
| `EventStream` | one event target with its queue directory, streams and reloads | `event_stream` |
| `PackedWordProofs`, `FastLockProofs`, `FastLockInstanceProofs`, `DistLockProofs`, `BatchLockProofs`, `ErasureSetProofs`, `VersionJournalProofs`, `EventStreamProofs` | the theorems about the module they are named for (section 5) | - |

Operators whose comment starts with "Faulty:" are never used by a
specification. They are plausible mistakes, placed before the definition they
would replace, with which the properties are tested: with the mistake in place
TLC must report the property violated.

### FastLock

A task is at a program counter between two atomic operations of the code:
`lookup`, `cas1` (fast path), `recheck`, `cas2` (the exclusive second look under
the map's write lock), `getOrCreate`, `cas3`, `decide` (slow path), `register`,
`park`, `granted`, `parked`, `woken`, `dec`, `timedOut` (the wait), `record`, `guard`,
`held`, `rel`, `notify`, `refused`. States of the map entry are numbered
instances, because a task keeps the `Arc` it cloned whatever happens to the map.
Sections under one of the small locks (`current_owner`, `shared_owners`,
`active_guards`) touch the word once and are one step. `Notify` is tokio's: a
FIFO queue, `notify_one` with a stored permit, `notify_waiters` without one.

`WaitTimeout` drops the `wait_for_*` future, so its counter in
`OptimizedNotify` is not taken back (`fetch_sub` comes after the await), while
the word's waiting count is; both are modelled as they are.

A caller may drop its acquire future (a client disconnects, a select takes
another branch). The code suspends a request at two places, the back-off sleep and
the wait, and `Cancel` drops it there. `dec_*_waiting` comes after the await of the
wait (`shard.rs:187-198`), so a dropped wait leaves its count in the word for ever;
`leaked` is the history of these. A dropped `Notified` that had been woken by
`notify_one` passes the wake-up on (`CancelWoken`).

`hits` is history too: the instances that cleanup removed while a task that had
cloned them was about to use them.

Two switches select environments rather than code. `SharedSlot` lets other keys
use the same of the 128 `Notify`s. `CleanupWindow` lets cleanup run between a
task's clone of the state and its use; the code does not prevent it, and
`fastlock_window` shows what follows. With the switch off the runs show what
holds as long as cleanup, which needs two minutes of idleness, misses that
window.

### DistLock

Servers store guards (client, attempt, mode), the attempt standing for the
fresh `LockId` of each grant. A client's acquisition sends one call to every
server, waits for all answers (`join_all`), and then holds, rolls back or fails.
A call that fails may have been lost, may still wait at the server (`late`), or
may have been granted there. Releases go through the per-process channel and its
worker, or a detached task when the channel is full, and may come long after the
same client has locked again. Each release is tried once.

The client's fallback to the request's own lock id, when an answer has no readable
`lock_info` (`remote_locker.rs:89-125`), is left out: the server of the same version
sends it with every success. A guard could not be released by that id.

`ReleaseAt` with an answer lost on the way back is its first disjunct: the
caller does the same either way.

### BatchLock

A batch locks its keys one after the other. `group_requests_by_shard` sorts the
requests and then puts them into a `HashMap` by shard, so the keys of one shard
come sorted and the shards in any order (`LockOrders`); `delete_objects` follows
the client's list. A request on a key ends with a guard or a timeout. A
two-phase batch gives up at the first failure and drops its guards, the others
report the failure and go on. `TypeOK` includes that a key of a batch is at no time
in two of the lists of keys to do, locked and failed.

### ErasureSet

One object of an unversioned bucket. A put is a number that stands for its
`mod_time`, its body and its data directory; the numbers follow the times at
which the bodies were encoded, which is before the lock is taken, so puts may
take the lock in the opposite order. A disk has temporary shards, data
directories and the one version in its `xl.meta`. A setting has the parity of the
object's storage class and the set's default parity, on which the quorum for "not
found" depends; a set without parity whose storage class has one is not modelled.
`TypeOK` includes that no put but the one that holds the lock is between its
acquisition and its release.

A call to a disk (`rename_data`, `delete_version`) ends in one of five ways: done
(`ok`), not done (`err`), done with the answer lost (`lost`), half done, the data
directory but not `xl.meta` (`half`), or timed out and carried out at any later
time (`late`). `RenameData` and `DeleteObject` pick an outcome for every disk at
once: the calls run in parallel under the lock and nobody else writes meanwhile.
A late call can overtake whole operations.

`Encode` leaves shards that are cut short where a writer failed, and none where a
writer was not opened; as in the code, `rename_data` counts these disks like the
others (`reliable_rename` takes a missing source for success). `short` is the
history of puts that were completed with fewer whole shards than data blocks.
Below the write quorum `RenameData` fails, and its undo does nothing: the code
sends it to the temporary path.

A put with If-None-Match: * or If-Match (`setting.expect` says which object it
expects) takes the lock first, looks at the object, encodes and renames, all
under the lock (`CheckPrecondition`).

`heal_object` runs under the lock too. It picks the version that a read quorum has
in common and rebuilds the shards of the outdated disks (`HealShards`), or deletes
an object that more disks than the parity lack (`HealDangling`). Three traits of
the code are kept: of the disks that have the version but no shard it sees an
arbitrary subset `S`, because `disks_with_all_parts` enters part errors under the
wrong index; after the first rename `delete_all` removes the temporary directory
everywhere, so the other disks get `xl.meta` without a shard (`fresh` are those
that still had one); and a shard cannot be renamed over one that is there, so a
cut shard stays. Renames of a heal that are carried out late are not modelled.

A get changes nothing, so it is a family of predicates over the set `M` of disks
that answer (`NotFound`, `FileInfo`, `Returns`), and the properties quantify over
`M`. `legal` is the history variable they are stated with: after a completed put
or delete it is that operation's result alone; a failed one that reached a disk
adds its own. This is the regular register that S3 clients may expect.

### VersionJournal

A journal is the set of versions in a disk's `xl.meta`, since `add_version` and
`set_idx` keep it sorted by `mod_time` and no two operations have the same.
`AddVersion`, `Refuses` and `DeleteVersion` are `FileMeta`'s, delete markers and
the null version of suspended buckets included. A put takes its `mod_time` before
the lock, so a journal may be given a version older than all it has, which
`add_version` refuses. Every change reaches the disks under the lock in one step
and some disks miss it; nothing is healed.

The listing takes no lock: `ReadDisk` adds one disk's journal to `streams` at any
time and in any place, since nothing relates the order of disks in `resolve` to
the order of the reads. `Resolve` is `MetaCacheEntries::resolve` over these, down
to the count that `merge_file_meta_versions` keeps while it looks for the latest
top. It is the merge of all versions, which `list_objects` asks for.
`list_object_versions` sets `requested_versions` to 1 (`store_list_objects.rs:1263`),
and `merge_file_meta_versions` then adds the rest of the first stream unmerged after
one merged version (`version.rs:1335`); this exit is left out, since that listing
shows nothing of the merge and only sees whether it is empty, which the exit does
not change. (`pick_latest_quorum_files_info`, `set_disk/read.rs:335`, asks for one version
too and is not modelled.) `ListedVersions` is what `file_info_versions` reads from the same result: the
journal of the disk that `resolve` selected, although the merged versions sit
beside it.

`due` and `gone` are history: the versions, and the deleted ids, that were settled
when the listing began and that nobody touched since.

### EventStream

A target object is made at start and by every reload, with its own map (`entries`)
of the one directory and its own stream. A save takes the target from the list,
waits for a permit, checks the limit, creates the file, writes it and inserts the
entry, each a step, and keeps its target across reloads. A stream lists its map,
takes keys into a batch, posts and deletes; it looks at its cancel channel between
two events only, so old and new streams overlap. A crash removes everything but
the files. `PostFails` is a refused connection or a timeout, which is retried;
`PostRejected` any other answer or error, also one of `send` before it posts
(`webhook.rs:254`), which is not tried again in this round. After both the endpoint
may have received the event (`MayBeReceived`).

`faults` counts what fails outside the program: a read or delete of a file that is
there, the opening of the store (`CreateFails`: the target is left out, and nothing
is listed until the next reload, phase `failed`), a target that cannot be reached when it is made, and a
post that was received without success. The stream deletes every event it cannot
read, whole or not (`TakeKey`, `stream.rs:239-250`). Refused posts that nobody
received are not bounded.

`torn`, `late`, `misread` and `kept` are history: files that were half written when
a store was opened, files made through an older target after that, whole files
deleted after a failing read, and how often the endpoint had an event whose file
stayed. A save that ends without an Ok (no target, limit, crash) is `dropped`,
whatever the reason. Not modelled: a `std::fs::write` that fails half way, and
changes of the directory while `open` reads it, other than by `CreateFails`.

## 3. Runs

| Run | Instance | Shows |
|---|---|---|
| `packed_word` | 2-bit reader field, 3-bit waiting fields | whole-word arithmetic changes one field at a time; the masks mean what they should |
| `fastlock_contention` | 3 tasks (2 owners), 1 instance, 1 dropped wait per mode | exclusion; word, owner tables, waiting counts and queue agree |
| `fastlock_cleanup` | 2 tasks, 2 instances, shared slot | refinement of `RWLock`; no refused release; every request ends |
| `fastlock_instance` | 3 tasks (2 owners), 2 instances, window open, back-off and no waits | every instance removed under a task in flight costs at most one holder, or group of readers, too many, although stale guards may release another task's lock |
| `fastlock_window` | as `fastlock_cleanup`, window open | violation: one task has the key shared on the removed instance, another exclusively on the new one |
| `dist_faults` | 3 servers, 2 clients, 3 requests of which at most 2 of one client, 2 faults | exclusion, quorums kept, every guard accounted for, refinement of `RWLock` |
| `dist_liveness` | 3 servers, 2 clients, 1 restart, 1 cancellation | all locks are free in the end, unless a call was lost or an acquisition abandoned |
| `batch` | 2 tasks, batches of at most 2 of 3 keys in two shards, all calls | of any set of one-shard batches one waits for none of the others, so they never wait in a circle; results are complete; circles or not, every task ends with its locks free |
| `erasure` | 4 disks, parity 1 or 2, 2 puts, 1 delete, 1 lost or half done call per operation, in five settings: 1 late call; 1 heal and 1 cut shard; 1 heal at parity 2, calls done or not done; two puts that create; one that replaces | no stale read, no false "not found", what is in place is readable, conditions hold when the put takes effect, heals cost nothing |
| `erasure_undo` | 4 disks, parity 2, 3 puts | violation: failed puts make an acknowledged object unreadable, though every disk with a version has its whole shard |
| `event_stream` | 3 events, limit 1, 2 permits, 2 targets, 1 fault | events stay until they are accepted, with two exceptions; stay listed; are posted again and exceed limits by a known number; are accepted although others fail for ever |
| `versions` | 4 disks, parity 2, 3 operations, 2 missed calls, listings by any disks | settled versions are listed, deleted ones are not, the merge is a journal and goes by a quorum |

Bounds. `MaxReaders = 2` with three tasks reaches the reader limit; two tasks of
one owner and one of another are the least that tell an owner from a task. One
instance is enough for contention and two for cleanup, since a third plays the
role of the second. `MaxRetries` is 0 or 1 because the code only compares the
retry count with its limit. `MaxWaiters` bounds the `OptimizedNotify` counters,
which a timeout never takes back; 0 leaves the waits out of `fastlock_instance`,
which is about releases and cleanup. `MaxCancels` bounds the dropped waits per
instance and mode. Three servers are the least for which a quorum
is not all of them; two attempts of a client are the least for a release to
overtake a new acquisition; a channel of capacity 1 fills up. The proofs have no
such bounds. Batches of two keys (`MaxBatch`) are the least that can wait in a
circle, and three keys put two of them in one shard.

`erasure` explores a set of settings (`MCSettings`), each with its own bounds:
late calls, heals and conditions are hard each for itself, and together they
would be too many states. `Settled` is the condition under which no replaced
object can be read: such a read needs `DataBlocks` disks with the old `xl.meta`,
and a minority of the disks that missed the operation and those that a late call
took back have it. The minority is that of a delete, whose quorum is a majority
whatever the parity: on seven disks with parity 1 a put misses one disk, but a
delete three. With four disks and parity 1 the condition is 1 + 1 < 3; with parity
2 and one late call it is 1 + 1, equal to the 2 data blocks, and a late call can
bring a replaced object back. `Outvoting` is the condition under which the disks
that missed a put cannot say by themselves that there is no object; it fails for
sets of 3, 5, 7 or 9 disks with their default parity (section 4). `erasure_undo`
has the default parity of four disks, and no fault but failed calls.

`versions`: three operations are the least for a version that must survive while
another is put and deleted beside it; two misses can hit one disk twice or two
disks once. `ListingComplete` needs as many answers beyond the listing quorum as
disks may have missed the operation that left the version (`QuorumFor`: a marker
is written with the quorum of deletes, so on six disks with parity 1 the two disks
that a listing asks may both have missed an acknowledged marker, though never a
put). It leaves out null versions of which some disk has another copy, and, while
disks have both a null version and a null marker (`Disputed`), versions that one
of the disks asked has missed: `merge_file_meta_versions` takes the two for rivals
and drops others with them (section 4). `MergedIsJournal` is stated without such
a dispute. `VersionsListed` is for disks that missed nothing (section 4).

`event_stream`: with a limit of one and two permits the limit is overrun; three
events are one sent, one stored and one refused (`StoreBounded` is about
insertions: what a restart or a reload lists may exceed the limit by whatever the
targets before it had stored); two targets are a start and a
reload or a restart. `MaxRetries = 2` retries once. Only the second event is
`Watched`: it has one before and one behind it, which may fail for ever.

Symmetry is used for tasks of one owner, servers, and clients of one process,
never in a liveness run, and for disks. `MCView` of `MCErasureSet` leaves out of
the comparison of states what no later step or property can see: temporary
shards of puts that are over, and, once no heal can come, data directories that
no `xl.meta` names. That of `MCVersionJournal` leaves out the disks once a listing
has read them all, and the last operations while one is under way: a listing
changes nothing, so what comes after it also comes without it.

`erasure`, `versions` and `event_stream` check no deadlock, since a finite number
of operations comes to an end; the first two state no liveness: a put ends when
its disk calls do.

Fairness. `FastLock`: the runtime schedules every runnable task and time passes
(weak fairness of a task's steps and of its deadline); the map's lock is
parking_lot's, which queues later readers behind a waiting writer (strong
fairness of the two steps that need the write lock). No fairness for callers
that start or drop requests or release guards, for cleanup, or for other keys.
`DistLock`: calls end because servers and RPCs have timeouts, holders drop their
guards when their operation ends, worker and detached tasks run. Faults,
cancellations, restarts and new requests are never fair. `BatchLock`: every
request on a key has a deadline and callers finish with their guards, so a
batch's next step is weakly fair; new batches are not. `EventStream`: the
stream of the newest target runs (weak fairness), and a `Watched` event that it posts
again and again is accepted some time (strong fairness): without it the event stays
stored, which is what the queue is for. Other events may fail for ever, older
streams may stop anywhere; events, saves, reloads, crashes and the kind of a failure
are never fair.

## 4. Disagreements between code and documentation

1. `fastlock_window`: cleanup ignores clones in flight and registered guards,
   which the comments at `shard.rs:40` and `shard.rs:315` say prevent it.
2. `erasure_undo`: below the write quorum `rename_data` sends the undo to
   `src_bucket/src_object`, the temporary path that has just been emptied, so the
   backup that `disk/local.rs:2102` makes of the old `xl.meta` is never used and
   the failed put stays on the disks it reached. In TLC's trace a put is acknowledged
   by d1, d2 and d3; the next fails after d1 and d2, and a third after d1. That leaves
   three versions on three disks, none with the read quorum of two. The undo would
   need a second correction: it restores `xl.meta.bkp` (`local.rs:2477`), while the
   backup is written as `xl.meta` (`local.rs:2107`).

Met while modelling and left without a run of their own: a release between a
waiter's count and its registration wakes nobody, so two waiters can stay parked
on a free lock until their timeouts (`RequestEnds` relies on these); an acquire
future that is dropped while it waits leaves its count in the word (`leaked`), which
keeps all writers out of this entry for good, since `try_acquire_exclusive` wants the
whole word to be 0, keeps readers out too if it was a writer's, and keeps the entry
from being cleaned up; the lease of
`fast_lock/mod.rs:58` and `types.rs:220` does not exist, so a guard whose release
is lost stays until its server restarts (`EventuallyAllFree` is checked without
lost calls for that reason); and `manager.rs:133` sorts requests "to avoid
deadlocks", but the `HashMap` they are grouped in loses the order of the shards
(`NoCircularWait` is about one shard for that reason).

Of the erasure set: an acknowledged put may have fewer whole shards than data
blocks, since disks without a shard or with a cut one count toward the write
quorum; it cannot be read, and heal may then delete it as dangling (`short`
exempts such puts from `ReadAfterWrite` and `NoFalseNotFound`). A heal does not
restore all shards, for the two reasons given with `HealShards`, although
`set_disk.rs:3381` says that a disk without all parts "is considered an outdated
disk, since it needs healing too"; `HealKeepsShards` states what it does not
destroy instead. The arm of `check_write_precondition` for `ErasureReadQuorum`
is dead, because `to_object_err` has renamed the error; conditional puts are safer
for it. With an odd number of disks and parity half of it, rounded down, a put may
miss as many disks as `object_quorum_from_meta` takes for a quorum of "not found"
(half of the disks, rounded down, while the write quorum is the data blocks): a get
answered by these alone reports an acknowledged object missing, and a conditional
put that only they answer takes it for missing too. `NoFalseNotFound` and `PreconditionKept` assume
`Outvoting` for that reason.

Of the journals: `resolve` announces "Create a new merged result"
(`metacache.rs:411`), but serialises the selected disk's journal as its metadata,
so the listing of versions, decommission and rebalance work from one disk's
journal and leave out what that disk missed. Both move the newest version first
(`pools.rs:713`, `rebalance.rs:756`), after which `add_version` refuses the older
ones. Deleting a delete marker while versioning is enabled re-creates it on disks
that missed it (`DeleteOne`). Rivals for the null version hide others: on five
disks with parity 2, when the null marker has missed disk A and a later put of the
null version has missed A and B, the three tops differ, the counting stops, and what
is newer than the version it goes on with is dropped from all disks, so that the
put, acknowledged by C, D and E, is not listed. For the same reason the merge may
come out unsorted: four disks with the journals {null 4, x 3}, {null marker 2},
{null marker 2} and {y 5, x 3, null marker 2} (the numbers are times) merge into the
marker followed by the newer x.

Of the event queues: `store.rs:433` says of a missing file "still try to remove
from entries map", but the `?` behind it returns first, so the entry stays for
good and counts toward the limit (`PhantomsBounded` says how many there can be).
The comment at `stream.rs:245` speaks of "unreadable events", but an I/O error of one
read is enough for a stored event to be deleted (`misread`), as is a store opened
while the file is being written (`torn`); an event the endpoint answers with an error
is posted again in every round. A target that cannot be reached when it is made gets no stream until the next
reload. Events raised while a reload has the `TargetList` empty
(`notifier.rs:232`) are dropped.

Of the lock clients: the remote `check_status` (`remote_locker.rs:194`) probes by
taking and releasing a lock, and an error between the two leaves it locked. It has
no caller in the write path and is not modelled.

## 5. Proofs

Every invariant and every action property that a passing run checks is also the
statement of a theorem, for all values of the constants; so are the refinements of
`RWLock`. The assumptions on the constants are the named `ASSUME`s of the modules,
which TLC evaluates in the runs; where a theorem needs more, it is listed here.

| Module | Theorems | Beyond the module's `ASSUME` |
|---|---|---|
| `PackedWordProofs` | `Masks`, `OneField` | - (any width of the fields, the code's 8 and 16 bits included) |
| `FastLockProofs` | `Typing`, `Reachable` | - |
| | `Exclusion`, `WordExact`, `TablesExact`, `ReleasesSucceed`, `Refinement` | `CleanupWindow = FALSE` |
| | `WaitsExact` | `CleanupWindow = FALSE`, at most `MaxWaiting` tasks and dropped waits together |
| `FastLockInstanceProofs` | `HitsBound` | - |
| `DistLockProofs` | `Typing`, `FewForgotten` | - |
| | `Exclusion`, `QuorumKept`, `Refinement` | `MaxRestarts = 0` |
| `BatchLockProofs` | `Typing`, `Complete`, `NoCircle` | - |
| `ErasureSetProofs` | `Typing`, `NoStale`, `NotMissing`, `ConditionHolds`, `ReadBack`, `HealHarmless` | - (the properties name `Settled` and `Outvoting`) |
| `VersionJournalProofs` | `Typing`, `ListingHears`, `QuorumShown`, `DeletesHold`, `JournalShown`, `ListingIsComplete`, `VersionsAreListed` | - |
| `EventStreamProofs` | `Typing`, `Durable`, `Listed`, `FewPhantoms`, `FewCopies`, `Insertions` | - |

Why these assumptions: with the window open exclusion is false, as
`fastlock_window` shows; beyond `MaxWaiting` the waiting fields of the word
saturate and cannot be exact (they have 16 bits); and a lock server that forgets its
guards lets a second client in, the code promising nothing else.

None of the invariants is inductive by itself. What had to be added:

- `PackedWord`: `Layout`, that the word is a sum of field values within their
  limits, each times its unit, from which masks and shifts recover them. Without the
  limits an addition could carry.
- `FastLock`: `Base` (whatever cleanup does) says that a task that will use its
  instance has one (`RefsAllocated`), that the counters of `OptimizedNotify` cover
  the registered waiters (`WaitersCover`) and that a parked task is queued
  (`ParkedQueued`). `Closed` adds that whoever holds, tries or has just released works
  on the instance in the map (`OnTheEntry`), which is what the window would break, and
  that a recorded exclusive holder is the owner in the table; word, tables and
  exclusion then support each other. `Counted` says that waiters too are on that
  instance. With the window open a release may take away the lock of another task
  of the same node, and a refused one takes away nothing, so holders and words no
  longer match. `Paid` keeps what is left: a release clears at most the lock of one
  word when one holder goes, so locked words (counting readers) are never fewer than
  holders (`Covered`), and a locked word, or one that a task in flight has cloned,
  is the map's or was hit (`Located`).
- `DistLock`: `Inductive` says that servers store compatible guards
  (`NodesExclude`), that what a client counts on, as an answer or as an entry, is
  stored (`CallsStored`, `EntriesStored`), that a holder's entries are a quorum
  (`HeldQuorum`), that only acquiring clients have calls (`CallsOfAcquirers`), and
  that every release still under way names a finished attempt (`ReleasesStale`), which
  is why it cannot remove what somebody counts on. Two holders' quorums meet in a
  server. `FewForgotten` counts a request that a server still has to carry out for a
  caller that has gone as forgotten already (`Stranded`), and holds with restarts.
  Abandoned acquisitions are covered by the theorems and not by a safety run.
- `BatchLock`: until a batch is through each of its keys is in exactly one of the
  lists of keys held, failed or to do (`Decided`), and of a shard's keys those held come before those still wanted
  (`Ordered`): around a circle the keys waited for would grow for ever.
- `ErasureSet`: `FewStale` counts the disks with a version that is not legal: a
  minority and one per late call carried out. `Kept` counts the disks that lack an
  object that exists and those with its shards, so that no heal takes it for dangling;
  `Readable` does for the last put; `Untraced` and `Locked` say what puts leave
  before and between their steps.
- `VersionJournal`: `Settled` counts the disks that missed an acknowledged
  operation, over those already read as they were read and the others as they are;
  `Dates` says that a `mod_time` names one version and that no journal has an id
  twice; `Even` that disks which missed nothing are alike. What
  the merge makes of such streams is proved about any streams (`Plain`): one round
  picks a version and merges it only if a quorum has copies (`RoundOf`), without
  rivals the newest (`UnrivalledRound`, hence the order), and a version that a
  quorum has and nobody disputes leaves the streams only by being merged
  (`SafeRound`), while every round drops something (`RoundDrops`, so the rounds
  suffice). `FoldExists` shows that there is a function that satisfies the recursion
  of the folds, and `MergeRule` carries an invariant through them; the induction in
  both is that a finite set of numbers has a greatest member (`MaxExists`, `Climb`).
- `EventStream`: `Base` relates streams, save tasks and directory (`Phases`,
  `Batches`, `Saves`, `Knowledge`, `Received`, `WrittenIsListed`). The bounds are sums
  that no step increases: phantoms and what overlapping streams still have in their
  batches (`PhantomsPaid`), copies less those that `kept` explains and targets that may
  still post (`CopiesPaid`),
  entries and saves past the limit check (`Room`).

The proofs corrected properties that the runs had not refuted, each for a case
outside the runs' bounds: `Settled` must count the misses of a delete;
`NoFalseNotFound` and `PreconditionKept` need `Outvoting`; `StoreBounded` is about
insertions; `ListingComplete` and `MergedIsJournal` have the exceptions given in
section 3.

Only model-checked: liveness (`RequestEnds`, `EventuallyAllFree`, `BatchEnds`,
`StreamDrains`), since fairness and `ENABLED` are outside the prover's reach.

## 6. Not modelled, and the plan

Left out of the modules above: metrics, statistics, priorities, the computation
of the adaptive timeout (only that a deadline exists), the disabled lock
manager, and marshalling of the lock RPCs; of the erasure set copies, metadata
updates, multipart puts, multi-deletes, inlined and empty bodies, heal of delete
markers and directories; of the journals free versions of tiered objects,
replication states and encoding; of the listing names, prefixes, paging and
fallback disks; of the events rules, contents, targets without a queue directory,
and the other targets' protocols. Most of the repository is request translation,
encoding, configuration, telemetry, generated code and I/O, without a protocol of
its own; `PROJECT.json` gives the reason part by part.

What would come next, in this order:

1. `HealManager`: queue, deduplication, limits, checkpoint and resume.
2. `DeleteObjects`: per-object results of a multi-delete under partial locks.
3. Multipart uploads; pool metadata with decommission and rebalance over
   `VersionJournal`; the replication worker pool; `Workers`.
