---------------------------- MODULE EventStream ----------------------------
(***************************************************************************)
(* Delivery of bucket events to one target with a queue directory: the     *)
(* save of an event (notify/src/notifier.rs, targets/src/target/webhook.rs)*)
(* through QueueStore (targets/src/store.rs), the stream that sends what   *)
(* is stored (notify/src/stream.rs) and the reload of the configuration    *)
(* that replaces both (notify/src/integration.rs).                         *)
(*                                                                         *)
(* - A target object is made at start and by every reload; target i is the *)
(*   i-th.  All of them use one directory, each with its own map "entries" *)
(*   of the files in it.                                                   *)
(* - An event is stored in one file with a unique name, so the event       *)
(*   names the file and the key.  Events are numbered as they are raised.  *)
(* - Old and new streams, and saves begun before a reload, overlap: only   *)
(*   the stream itself looks at its cancel channel, between two events.    *)
(***************************************************************************)
EXTENDS Naturals, Sequences, FiniteSets

CONSTANTS
  MaxEvents,      \* bound: events raised
  EntryLimit,     \* entry_limit of the store (100000)
  MaxInflight,    \* permits of send_limiter (64)
  BatchSize,      \* RUSTFS_EVENT_BATCH_SIZE (1)
  MaxRetries,     \* MAX_RETRIES (5)
  MaxTargets,     \* bound: starts and reloads
  MaxFaults,      \* bound: I/O errors of the directory, targets unreachable when
                  \*   made, posts received without a good answer
  Watched         \* bound: events whose delivery StreamDrains follows

ASSUME EventStreamAssumption ==
  /\ MaxEvents \in Nat
  /\ EntryLimit \in Nat \ {0}
  /\ MaxInflight \in Nat \ {0}
  /\ BatchSize \in Nat \ {0}
  /\ MaxRetries \in Nat \ {0}
  /\ MaxTargets \in Nat \ {0}
  /\ MaxFaults \in Nat
  /\ Watched \subseteq 1..MaxEvents

Events == 1..MaxEvents

Targets == 1..MaxTargets

VARIABLES
  saver,       \* each event's save task; dropped: it ended without an Ok
  via,         \* the target object the task calls, 0 without a task
  file,        \* each event's file: absent, torn (not yet written) or whole
  order,       \* files by modification time, oldest first
  entries,     \* each target object's map of the directory
  pc, keys, batch, retries, cancel,  \* each target object's stream
  made,        \* target objects made so far
  listed,      \* the one in the TargetList, 0 if none
  phase,       \* of init or reload_config
  posted,      \* how often the endpoint received each event
  accepted,    \* the events it answered with success
  torn,        \* history: files that were torn when a store was opened
  late,        \* history: files that older targets made after the last opening
  misread,     \* history: whole files deleted after a failing read
  kept,        \* history: how often the endpoint had each event and its file stayed
  faults       \* faults so far

saveVars == <<saver, via>>
diskVars == <<file, order>>
streamVars == <<pc, keys, batch, retries, cancel>>
reloadVars == <<made, listed, phase>>
historyVars == <<torn, late, misread>>
endpointVars == <<posted, accepted, kept>>
vars == <<saveVars, diskVars, entries, streamVars, reloadVars, historyVars, endpointVars, faults>>

SaveType ==
  /\ saver \in [Events -> {"new", "spawned", "checked", "writing", "saved", "dropped"}]
  /\ via \in [Events -> 0..MaxTargets]

StoreType ==
  /\ file \in [Events -> {"absent", "torn", "whole"}]
  /\ order \in Seq(Events)
  /\ entries \in [Targets -> SUBSET Events]

StreamType ==
  /\ pc \in [Targets -> {"keys", "send", "post", "del", "stopped"}]
  /\ keys \in [Targets -> Seq(Events)]
  /\ batch \in [Targets -> Seq(Events)]
  /\ retries \in [Targets -> 0..(MaxRetries - 1)]
  /\ cancel \in [Targets -> {"no", "sent", "seen"}]

ReloadType ==
  /\ made \in 0..MaxTargets
  /\ listed \in 0..MaxTargets
  /\ phase \in {"create", "failed", "init", "publish", "none"}

RecordType ==
  /\ posted \in [Events -> Nat]
  /\ accepted \in SUBSET Events
  /\ torn \in SUBSET Events
  /\ late \in SUBSET Events
  /\ misread \in SUBSET Events
  /\ kept \in [Events -> Nat]
  /\ faults \in 0..MaxFaults

TypeOK == SaveType /\ StoreType /\ StreamType /\ ReloadType /\ RecordType

Init ==
  /\ saver = [e \in Events |-> "new"]
  /\ via = [e \in Events |-> 0]
  /\ file = [e \in Events |-> "absent"]
  /\ order = <<>>
  /\ entries = [i \in Targets |-> {}]
  /\ pc = [i \in Targets |-> "stopped"]
  /\ keys = [i \in Targets |-> <<>>]
  /\ batch = [i \in Targets |-> <<>>]
  /\ retries = [i \in Targets |-> 0]
  /\ cancel = [i \in Targets |-> "no"]
  /\ made = 0
  /\ listed = 0
  /\ phase = "create"
  /\ posted = [e \in Events |-> 0]
  /\ accepted = {}
  /\ torn = {}
  /\ late = {}
  /\ misread = {}
  /\ kept = [e \in Events |-> 0]
  /\ faults = 0

\* Something outside the program fails.
Fault ==
  /\ faults < MaxFaults
  /\ faults' = faults + 1

-----------------------------------------------------------------------------
(* Saving an event. *)

\* EventNotifier::send: the target is taken from the list and a task spawned
\* that keeps it; without a target in the list the event is dropped.
Raise(e) ==
  /\ saver[e] = "new"
  /\ \A d \in 1..(e - 1) : saver[d] # "new"
  /\ saver' = [saver EXCEPT ![e] = IF listed = 0 THEN "dropped" ELSE "spawned"]
  /\ via' = [via EXCEPT ![e] = listed]
  /\ UNCHANGED <<diskVars, entries, streamVars, reloadVars, historyVars, endpointVars, faults>>

\* Saves past the limit check, each with a permit of send_limiter.
InFlight == {e \in Events : saver[e] \in {"checked", "writing"}}

\* Faulty: lets one more entry in.
CheckLimitOffByOne(e) ==
  /\ saver[e] = "spawned"
  /\ Cardinality(InFlight) < MaxInflight
  /\ \/ /\ Cardinality(entries[via[e]]) > EntryLimit
        /\ saver' = [saver EXCEPT ![e] = "dropped"]
        /\ via' = [via EXCEPT ![e] = 0]
     \/ /\ Cardinality(entries[via[e]]) <= EntryLimit
        /\ saver' = [saver EXCEPT ![e] = "checked"]
        /\ UNCHANGED via
  /\ UNCHANGED <<diskVars, entries, streamVars, reloadVars, historyVars, endpointVars, faults>>

\* put: the limit is checked under the map's read lock, which is then given up.
CheckLimit(e) ==
  /\ saver[e] = "spawned"
  /\ Cardinality(InFlight) < MaxInflight
  /\ \/ /\ Cardinality(entries[via[e]]) >= EntryLimit
        /\ saver' = [saver EXCEPT ![e] = "dropped"]
        /\ via' = [via EXCEPT ![e] = 0]
     \/ /\ Cardinality(entries[via[e]]) < EntryLimit
        /\ saver' = [saver EXCEPT ![e] = "checked"]
        /\ UNCHANGED via
  /\ UNCHANGED <<diskVars, entries, streamVars, reloadVars, historyVars, endpointVars, faults>>

\* write_file: std::fs::write creates the file ...
CreateFile(e) ==
  /\ saver[e] = "checked"
  /\ saver' = [saver EXCEPT ![e] = "writing"]
  /\ file' = [file EXCEPT ![e] = "torn"]
  /\ order' = Append(order, e)
  /\ late' = IF via[e] < made THEN late \cup {e} ELSE late
  /\ UNCHANGED <<via, entries, streamVars, reloadVars, torn, misread, endpointVars, faults>>

\* ... and writes it, in vain if it was removed meanwhile; then the entry is
\* inserted in the map and put returns Ok.
WriteFile(e) ==
  /\ saver[e] = "writing"
  /\ saver' = [saver EXCEPT ![e] = "saved"]
  /\ file' = [file EXCEPT ![e] = IF @ = "torn" THEN "whole" ELSE @]
  /\ entries' = [entries EXCEPT ![via[e]] = @ \cup {e}]
  /\ via' = [via EXCEPT ![e] = 0]
  /\ UNCHANGED <<order, streamVars, reloadVars, historyVars, endpointVars, faults>>

Save(e) == CheckLimit(e) \/ CreateFile(e) \/ WriteFile(e)

-----------------------------------------------------------------------------
(* The stream of target object i: stream_events_with_batching. *)

\* The file of d was made before that of e.
Older(d, e) == \E m, n \in 1..Len(order) : m < n /\ order[m] = d /\ order[n] = e

\* QueueStore::list: the entries of the map sorted by time, oldest first.
Listings(i) ==
  {ks \in [1..Cardinality(entries[i]) -> entries[i]] :
     \A m, n \in DOMAIN ks : m < n => Older(ks[m], ks[n])}

\* The top of the loop, with no key left: the cancel signal ends the stream, an
\* empty store is polled again (with a batch left its keys are still listed, so
\* the list is not empty).
Top(i) ==
  /\ pc[i] = "keys"
  /\ keys[i] = <<>>
  /\ \/ /\ cancel[i] = "sent"
        /\ cancel' = [cancel EXCEPT ![i] = "seen"]
        /\ pc' = [pc EXCEPT ![i] = "stopped"]
        /\ batch' = [batch EXCEPT ![i] = <<>>]
        /\ UNCHANGED keys
     \/ /\ cancel[i] = "no"
        /\ \E ks \in Listings(i) : keys' = [keys EXCEPT ![i] = ks]
        /\ UNCHANGED <<cancel, pc, batch>>
  /\ UNCHANGED <<saveVars, diskVars, entries, retries, reloadVars, historyVars, endpointVars, faults>>

\* Faulty: the file is removed, the entry stays.
DelKeepsEntry(i, e) ==
  /\ file' = [file EXCEPT ![e] = "absent"]
  /\ UNCHANGED entries

\* QueueStore::del: the entry leaves the map only when there was a file.
Del(i, e) ==
  /\ file' = [file EXCEPT ![e] = "absent"]
  /\ entries' = IF file[e] = "absent"
                THEN entries
                ELSE [entries EXCEPT ![i] = @ \ {e}]

\* The next key: cancelled, the stream sends the batch it has and ends.
CancelSeen(i) ==
  /\ pc[i] = "keys"
  /\ keys[i] # <<>>
  /\ cancel[i] = "sent"
  /\ cancel' = [cancel EXCEPT ![i] = "seen"]
  /\ pc' = [pc EXCEPT ![i] = IF batch[i] = <<>> THEN "stopped" ELSE "send"]
  /\ keys' = [keys EXCEPT ![i] = <<>>]
  /\ UNCHANGED <<saveVars, diskVars, entries, batch, retries, reloadVars, historyVars, endpointVars, faults>>

\* Store::get of an event's file gives its content, or an error: the file is
\* gone or not whole, or it is whole and reading it fails.
Readable(e) == file[e] = "whole" /\ UNCHANGED faults

Unreadable(e) == IF file[e] = "whole" THEN Fault ELSE UNCHANGED faults

\* An event that can be read joins the batch, which is sent when it is full or
\* BATCH_TIMEOUT has passed.  One that cannot be read is deleted, whatever the
\* error; if that fails too the key is passed over.
TakeKey(i) ==
  /\ pc[i] = "keys"
  /\ keys[i] # <<>>
  /\ cancel[i] = "no"
  /\ keys' = [keys EXCEPT ![i] = Tail(@)]
  /\ LET e == Head(keys[i]) IN
       \/ /\ Readable(e)
          /\ batch' = [batch EXCEPT ![i] = Append(@, e)]
          /\ \E next \in IF Len(batch[i]) + 1 < BatchSize THEN {"keys", "send"} ELSE {"send"} :
               pc' = [pc EXCEPT ![i] = next]
          /\ UNCHANGED <<file, entries, misread>>
       \/ /\ Unreadable(e)
          /\ Del(i, e)
          /\ misread' = IF file[e] = "whole" THEN misread \cup {e} ELSE misread
          /\ UNCHANGED <<batch, pc>>
       \/ /\ Fault
          /\ UNCHANGED <<file, entries, batch, pc, misread>>
  /\ UNCHANGED <<saveVars, order, retries, cancel, reloadVars, torn, late, endpointVars>>

\* process_batch is done with the first event of the batch.
NextOfBatch(i) ==
  /\ batch' = [batch EXCEPT ![i] = Tail(@)]
  /\ retries' = [retries EXCEPT ![i] = 0]
  /\ pc' = [pc EXCEPT ![i] = IF Len(batch[i]) > 1 THEN "send"
                             ELSE IF cancel[i] = "seen" THEN "stopped" ELSE "keys"]

\* send_from_store reads the event; a file that is gone counts as sent, one
\* that cannot be read as a permanent error.
SendFromStore(i) ==
  /\ pc[i] = "send"
  /\ \/ /\ Readable(Head(batch[i]))
        /\ pc' = [pc EXCEPT ![i] = "post"]
        /\ UNCHANGED <<batch, retries>>
     \/ /\ Unreadable(Head(batch[i]))
        /\ NextOfBatch(i)
  /\ UNCHANGED <<saveVars, diskVars, entries, keys, cancel, reloadVars, historyVars, endpointVars>>

\* Faulty: the event is not deleted.
PostOkUndeleted(i) ==
  /\ pc[i] = "post"
  /\ posted' = [posted EXCEPT ![Head(batch[i])] = @ + 1]
  /\ accepted' = accepted \cup {Head(batch[i])}
  /\ NextOfBatch(i)
  /\ UNCHANGED <<saveVars, diskVars, entries, keys, cancel, reloadVars, historyVars, kept, faults>>

\* The endpoint receives the event and answers with success.
PostOk(i) ==
  /\ pc[i] = "post"
  /\ posted' = [posted EXCEPT ![Head(batch[i])] = @ + 1]
  /\ accepted' = accepted \cup {Head(batch[i])}
  /\ pc' = [pc EXCEPT ![i] = "del"]
  /\ UNCHANGED <<saveVars, diskVars, entries, keys, batch, retries, cancel, reloadVars,
                 historyVars, kept, faults>>

\* Faulty: after the last attempt the event is deleted.
RetryStops(i) ==
  IF retries[i] + 1 < MaxRetries
  THEN /\ retries' = [retries EXCEPT ![i] = @ + 1]
       /\ pc' = [pc EXCEPT ![i] = "send"]
       /\ UNCHANGED batch
  ELSE /\ pc' = [pc EXCEPT ![i] = "del"]
       /\ UNCHANGED <<batch, retries>>

\* Faulty: there is no last attempt.
RetryForever(i) ==
  /\ pc' = [pc EXCEPT ![i] = "send"]
  /\ UNCHANGED <<batch, retries>>

\* After MAX_RETRIES the event is left in the store for a later round.
Retry(i) ==
  IF retries[i] + 1 < MaxRetries
  THEN /\ retries' = [retries EXCEPT ![i] = @ + 1]
       /\ pc' = [pc EXCEPT ![i] = "send"]
       /\ UNCHANGED batch
  ELSE NextOfBatch(i)

\* A post that failed may nevertheless have reached the endpoint.
MayBeReceived(i) ==
  \/ UNCHANGED <<endpointVars, faults>>
  \/ /\ Fault
     /\ posted' = [posted EXCEPT ![Head(batch[i])] = @ + 1]
     /\ kept' = [kept EXCEPT ![Head(batch[i])] = @ + 1]
     /\ UNCHANGED accepted

\* No connection, or a timeout: NotConnected, which is retried.
PostFails(i) ==
  /\ pc[i] = "post"
  /\ Retry(i)
  /\ MayBeReceived(i)
  /\ UNCHANGED <<saveVars, diskVars, entries, keys, cancel, reloadVars, historyVars>>

\* Any other answer or error, also of send before it posts, is permanent: the
\* event stays in the store.
PostRejected(i) ==
  /\ pc[i] = "post"
  /\ NextOfBatch(i)
  /\ MayBeReceived(i)
  /\ UNCHANGED <<saveVars, diskVars, entries, keys, cancel, reloadVars, historyVars>>

\* After the post the event is deleted; a failing del, which leaves file and
\* entry, is a permanent error.
DelSent(i) ==
  /\ pc[i] = "del"
  /\ \/ /\ Del(i, Head(batch[i]))
        /\ UNCHANGED <<kept, faults>>
     \/ /\ Fault
        /\ kept' = [kept EXCEPT ![Head(batch[i])] = @ + 1]
        /\ UNCHANGED <<file, entries>>
  /\ NextOfBatch(i)
  /\ UNCHANGED <<saveVars, order, keys, cancel, reloadVars, historyVars, posted, accepted>>

Stream(i) ==
  \/ Top(i)
  \/ CancelSeen(i)
  \/ TakeKey(i)
  \/ SendFromStore(i)
  \/ PostOk(i)
  \/ PostFails(i)
  \/ PostRejected(i)
  \/ DelSent(i)

-----------------------------------------------------------------------------
(* Start, reload and crash. *)

\* reload_config: every stream is sent the cancel signal and the TargetList is
\* cleared.
Reload ==
  /\ phase \in {"none", "failed"}
  /\ made < MaxTargets
  /\ cancel' = [i \in Targets |-> IF pc[i] # "stopped" /\ cancel[i] = "no" THEN "sent" ELSE cancel[i]]
  /\ listed' = 0
  /\ phase' = "create"
  /\ UNCHANGED <<saveVars, diskVars, entries, pc, keys, batch, retries, made, historyVars, endpointVars, faults>>

\* The process dies and another starts: its init makes the target anew.
Crash ==
  /\ phase # "create"
  /\ made < MaxTargets
  /\ saver' = [e \in Events |-> IF saver[e] \in {"spawned", "checked", "writing"}
                                THEN "dropped" ELSE saver[e]]
  /\ via' = [e \in Events |-> 0]
  /\ entries' = [i \in Targets |-> {}]
  /\ pc' = [i \in Targets |-> "stopped"]
  /\ keys' = [i \in Targets |-> <<>>]
  /\ batch' = [i \in Targets |-> <<>>]
  /\ retries' = [i \in Targets |-> 0]
  /\ cancel' = [i \in Targets |-> "no"]
  /\ listed' = 0
  /\ phase' = "create"
  /\ UNCHANGED <<diskVars, made, historyVars, endpointVars, faults>>

\* Faulty: starts with an empty map.
CreateTargetEmpty ==
  /\ phase = "create"
  /\ made' = made + 1
  /\ torn' = torn \cup {e \in Events : file[e] = "torn"}
  /\ late' = {}
  /\ phase' = "init"
  /\ UNCHANGED <<saveVars, diskVars, entries, streamVars, listed, misread, endpointVars, faults>>

\* create_targets_from_config: a new target opens the store, that is, reads
\* the directory into its map.
CreateTarget ==
  /\ phase = "create"
  /\ made' = made + 1
  /\ entries' = [entries EXCEPT ![made + 1] = {e \in Events : file[e] # "absent"}]
  /\ torn' = torn \cup {e \in Events : file[e] = "torn"}
  /\ late' = {}
  /\ phase' = "init"
  /\ UNCHANGED <<saveVars, diskVars, streamVars, listed, misread, endpointVars, faults>>

\* QueueStore::open fails, for instance on the metadata of a file that an old
\* stream deletes meanwhile: the target is left out, and the list stays empty.
CreateFails ==
  /\ phase = "create"
  /\ Fault
  /\ phase' = "failed"
  /\ UNCHANGED <<saveVars, diskVars, entries, streamVars, made, listed, historyVars, endpointVars>>

\* target.init connects to the endpoint; without a connection no stream starts.
InitTarget ==
  /\ phase = "init"
  /\ phase' = "publish"
  /\ \/ /\ pc' = [pc EXCEPT ![made] = "keys"]
        /\ UNCHANGED faults
     \/ /\ Fault
        /\ UNCHANGED pc
  /\ UNCHANGED <<saveVars, diskVars, entries, keys, batch, retries, cancel, made, listed, historyVars, endpointVars>>

\* init_bucket_targets: the target joins the TargetList either way.
Publish ==
  /\ phase = "publish"
  /\ phase' = "none"
  /\ listed' = made
  /\ UNCHANGED <<saveVars, diskVars, entries, streamVars, made, historyVars, endpointVars, faults>>

Next ==
  \/ \E e \in Events : Raise(e) \/ Save(e)
  \/ \E i \in Targets : Stream(i)
  \/ Reload
  \/ Crash
  \/ CreateTarget
  \/ CreateFails
  \/ InitTarget
  \/ Publish

Spec == Init /\ [][Next]_vars

\* The newest target's stream, and its posts of watched events that succeed.
NewestStream == made > 0 /\ Stream(made)

WatchedAccepted == made > 0 /\ PostOk(made) /\ Head(batch[made]) \in Watched

\* The newest stream's task runs, and an endpoint that is posted a watched event
\* again and again accepts it some time.  Any other event may fail for ever, and
\* older streams may stop anywhere.
Fairness == WF_vars(NewestStream) /\ SF_vars(WatchedAccepted)

FairSpec == Spec /\ Fairness

-----------------------------------------------------------------------------
(* Properties. *)

\* An event whose save returned Ok is in its file until the endpoint has
\* accepted it, through failed posts, cancelled streams, reloads and crashes.
\* There are two exceptions, both in the stream, which deletes what it cannot
\* read: a file that was being written when the store was opened, and a whole
\* file whose reading failed.
NoLoss ==
  \A e \in Events :
    saver[e] = "saved" => e \in accepted \cup torn \cup misread \/ file[e] = "whole"

\* What is stored is in the newest target's map, so its stream finds it: what
\* earlier targets and processes left is read from the directory, and no step
\* takes an entry out of the map while its file stays.  The exception: a save
\* through an older target that made its file after the newest one was opened
\* waits for the next start or reload.
StoredIsListed ==
  phase \notin {"create", "failed"} =>
    \A e \in Events : saver[e] = "saved" /\ file[e] = "whole" => e \in entries[made] \cup late

\* Entries without a file are never removed from the map (del reports NotFound
\* before it gets there) and use up the store's limit.  Only an older stream
\* that was still sending its batch leaves some, at most a batch each.
PhantomsBounded ==
  made > 0 =>
    Cardinality({e \in entries[made] : file[e] = "absent"}) <= BatchSize * (made - 1)

\* The limit check is not atomic with the insertion: concurrent saves exceed
\* the limit, but by fewer than the permits of send_limiter.  It holds for each
\* target made, not for the directory: a map may open with more files than the
\* limit, since saves through older targets count against their own maps.
StoreBounded ==
  [][\A i \in 1..made :
       Cardinality(entries'[i]) > Cardinality(entries[i]) =>
         Cardinality(entries'[i]) < EntryLimit + MaxInflight]_vars

\* A stream sends an event again only if its file stayed although the endpoint
\* had it, that is, after a post that was received without success and after a
\* delete that failed: otherwise copies are due to overlapping streams and to
\* crashes between the post and the delete, one for each target made.
CopiesBounded ==
  \A e \in Events : posted[e] <= made + kept[e]

\* The stream of the newest target runs, and its map lists e.
Draining(e) ==
  /\ made > 0
  /\ e \in entries[made]
  /\ pc[made] # "stopped"
  /\ cancel[made] = "no"

\* While a stream runs, an event its map lists that the endpoint would accept is
\* accepted or, if it cannot be read, deleted: other events, which may fail for
\* ever or have lost their file, do not hold it up.
StreamDrains ==
  \A e \in Watched : Draining(e) ~> (e \in accepted \/ ~Draining(e))

=============================================================================
