------------------------- MODULE EventStreamProofs -------------------------
(***************************************************************************)
(* Proofs about EventStream, for every number of events, targets and       *)
(* faults and every limit: what is saved is not lost and stays listed, and *)
(* phantoms, insertions and copies are bounded.  The invariants say what   *)
(* the streams, the save tasks and the directory know of each other; the   *)
(* two counting arguments (Phantoms, Posters) give each bound as a sum that *)
(* no step increases.                                                      *)
(***************************************************************************)
EXTENDS EventStream, FiniteSetTheorems, TLAPS

USE EventStreamAssumption DEF EventStreamAssumption, Targets

-----------------------------------------------------------------------------
(* The invariants. *)

\* The phases of a start or reload: which targets exist and which streams run.
Phases ==
  /\ phase \in {"create", "failed"} => made < MaxTargets
  /\ phase \notin {"create", "failed"} => made > 0
  /\ listed <= made
  /\ \A i \in Targets : i > made => pc[i] = "stopped"
  /\ phase = "init" => pc[made] = "stopped"
  /\ \A i \in Targets : i < made \/ phase \in {"create", "failed"} => pc[i] = "stopped" \/ cancel[i] # "no"

\* The batch of a stream: what is sent is there, and no more than a batch.
Batches ==
  \A i \in Targets :
    /\ pc[i] \in {"send", "post", "del"} => batch[i] # <<>>
    /\ pc[i] = "keys" => Len(batch[i]) < BatchSize
    /\ pc[i] = "stopped" => batch[i] = <<>>
    /\ Len(batch[i]) <= BatchSize

\* A save that is under way has a target, and its file is torn unless a newer
\* stream took it for a corrupted event.
Saves ==
  \A e \in Events :
    /\ via[e] <= made
    /\ saver[e] \in {"spawned", "checked", "writing"} => via[e] > 0
    /\ file[e] = "whole" => saver[e] = "saved"
    /\ file[e] = "torn" => saver[e] \in {"writing", "dropped"}
    /\ saver[e] = "writing" => file[e] = "torn" \/ (e \in torn /\ via[e] < made)

\* An event a target knows of was saved, or its file was torn when the target,
\* or one before it, was opened.
Known(i, e) ==
  \/ saver[e] = "saved"
  \/ e \in torn /\ saver[e] \in {"writing", "dropped"} /\ (saver[e] = "writing" => via[e] < i)

Knowledge ==
  \A i \in Targets :
    /\ \A e \in entries[i] : Known(i, e)
    /\ \A n \in 1..Len(keys[i]) : Known(i, keys[i][n])
    /\ \A n \in 1..Len(batch[i]) : saver[batch[i][n]] = "saved"
    /\ pc[i] = "del" => batch[i][1] \in accepted

Received == \A e \in Events : posted[e] > 0 => saver[e] = "saved"

\* What StoredIsListed says of a file that is still being written.
WrittenIsListed ==
  phase \notin {"create", "failed"} =>
    \A e \in Events :
      saver[e] = "writing" /\ file[e] = "torn" /\ via[e] < made => e \in entries[made] \cup late

Base == /\ TypeOK /\ Phases /\ Batches /\ Saves /\ Knowledge /\ Received
        /\ NoLoss /\ StoredIsListed /\ WrittenIsListed

\* The events that older streams may still delete: one for each place of
\* their batches.  A phantom is made by using one up.
Phantoms == {e \in entries[made] : file[e] = "absent"}

Owed == {p \in (1..(made - 1)) \X (1..BatchSize) : p[2] <= Len(batch[p[1]])}

PhantomsPaid == made > 0 => Cardinality(Phantoms) + Cardinality(Owed) <= BatchSize * (made - 1)

\* The streams that may still post e with success.
Posters(e) ==
  {i \in 1..made :
     \/ pc[i] \in {"keys", "send"} /\ file[e] # "absent"
     \/ pc[i] = "post" /\ (file[e] # "absent" \/ batch[i][1] = e)
     \/ pc[i] = "del" /\ file[e] # "absent" /\ batch[i][1] # e
     \/ phase = "init" /\ i = made}

CopiesPaid == \A e \in Events : posted[e] + Cardinality(Posters(e)) <= made + kept[e]

\* The saves that have passed the limit check of target i.
Saving(i) == {e \in Events : saver[e] \in {"checked", "writing"} /\ via[e] = i}

Room ==
  /\ Cardinality(InFlight) <= MaxInflight
  /\ \A i \in Targets :
       Saving(i) # {} => Cardinality(entries[i] \cup Saving(i)) < EntryLimit + MaxInflight

-----------------------------------------------------------------------------
(* Types. *)

LEMMA FiniteEvents ==
  \A S \in SUBSET Events : IsFiniteSet(S) /\ Cardinality(S) \in Nat
<1>1. IsFiniteSet(Events)
  BY FS_Interval DEF Events
<1> QED
  BY <1>1, FS_Subset, FS_CardinalityType

LEMMA ListingType ==
  ASSUME TypeOK, NEW i \in Targets, NEW ks \in Listings(i)
  PROVE  /\ ks \in Seq(Events)
         /\ \A n \in 1..Len(ks) : ks[n] \in entries[i]
<1>1. entries[i] \in SUBSET Events
  BY DEF TypeOK, StoreType
<1>3. Cardinality(entries[i]) \in Nat
  BY <1>1, FiniteEvents
<1>4. ks \in [1..Cardinality(entries[i]) -> entries[i]]
  BY DEF Listings
<1>5. ks \in Seq(entries[i]) /\ Len(ks) = Cardinality(entries[i])
  BY <1>3, <1>4
<1> QED
  BY <1>1, <1>4, <1>5

USE DEF saveVars, diskVars, streamVars, reloadVars, historyVars, endpointVars

LEMMA SaveTypeStep == ASSUME TypeOK, [Next]_vars PROVE SaveType'
<1> SaveType /\ listed \in 0..MaxTargets
  BY DEF TypeOK, ReloadType
<1> USE DEF SaveType
<1>1. ASSUME NEW e \in Events, Raise(e) \/ CheckLimit(e) \/ CreateFile(e) \/ WriteFile(e)
      PROVE  SaveType'
  <2>1. CASE Raise(e)
    BY <2>1 DEF Raise
  <2>2. CASE CheckLimit(e)
    BY <2>2 DEF CheckLimit
  <2>3. CASE CreateFile(e) \/ WriteFile(e)
    BY <2>3 DEF CreateFile, WriteFile
  <2> QED
    BY <1>1, <2>1, <2>2, <2>3
<1>2. CASE Crash
  BY <1>2 DEF Crash
<1>3. CASE UNCHANGED saveVars
  BY <1>3
<1> QED
  BY <1>1, <1>2, <1>3 DEF Next, Save, Stream, Top, CancelSeen, TakeKey, SendFromStore, PostOk,
     PostFails, PostRejected, DelSent, Reload, CreateTarget, CreateFails, InitTarget, Publish, vars

LEMMA StoreTypeStep == ASSUME TypeOK, Phases, [Next]_vars PROVE StoreType'
<1> StoreType /\ made \in 0..MaxTargets
  BY DEF TypeOK, ReloadType
<1> USE DEF StoreType
<1>0. ASSUME NEW e \in Events, CreateFile(e) PROVE  StoreType'
  BY <1>0 DEF CreateFile
<1>1. ASSUME NEW e \in Events, WriteFile(e) PROVE  StoreType'
  BY <1>1 DEF WriteFile
<1>2. ASSUME NEW i \in Targets, NEW e, Del(i, e), UNCHANGED order PROVE StoreType'
  BY <1>2 DEF Del
<1>3. CASE Crash
  BY <1>3 DEF Crash
<1>4. CASE CreateTarget
  BY <1>4 DEF CreateTarget
<1>5. CASE UNCHANGED <<diskVars, entries>>
  BY <1>5
<1>6. ASSUME NEW i \in Targets, TakeKey(i) PROVE StoreType'
  BY <1>2, <1>5, <1>6 DEF TakeKey
<1> QED
  BY <1>0, <1>1, <1>2, <1>3, <1>4, <1>5, <1>6 DEF Next, Save, Stream, Raise, CheckLimit, Top, CancelSeen,
     SendFromStore, PostOk, PostFails, PostRejected, DelSent, Reload, CreateFails, InitTarget, Publish, vars

LEMMA NextOfBatchType ==
  ASSUME StreamType, NEW i \in Targets, batch[i] # <<>>, NextOfBatch(i), UNCHANGED <<keys, cancel>>
  PROVE  StreamType'
<1>1. Tail(batch[i]) \in Seq(Events)
  BY DEF StreamType
<1>2. 0 \in 0..(MaxRetries - 1)
  OBVIOUS
<1> QED
  BY <1>1, <1>2 DEF StreamType, NextOfBatch

LEMMA StreamTypeStep == ASSUME TypeOK, Phases, Batches, [Next]_vars PROVE StreamType'
<1> StreamType /\ made \in 0..MaxTargets
  BY DEF TypeOK, ReloadType
<1>0. \A i \in Targets : pc[i] \in {"send", "post", "del"} => batch[i] # <<>>
  BY DEF Batches
<1> USE DEF StreamType
<1>1. ASSUME NEW i \in Targets, Top(i) PROVE StreamType'
  <2>1. \A ks \in Listings(i) : ks \in Seq(Events)
    BY ListingType
  <2>2. <<>> \in Seq(Events)
    OBVIOUS
  <2> QED
    BY <1>1, <2>1, <2>2 DEF Top
<1>2. ASSUME NEW i \in Targets, CancelSeen(i) PROVE StreamType'
  <2>1. <<>> \in Seq(Events)
    OBVIOUS
  <2> QED
    BY <1>2, <2>1 DEF CancelSeen
<1>3. ASSUME NEW i \in Targets, TakeKey(i) PROVE StreamType'
  <2>1. Head(keys[i]) \in Events /\ Tail(keys[i]) \in Seq(Events)
    BY <1>3 DEF TakeKey
  <2>2. Append(batch[i], Head(keys[i])) \in Seq(Events)
    BY <2>1
  <2>3. keys' = [keys EXCEPT ![i] = Tail(keys[i])] /\ UNCHANGED <<retries, cancel>>
    BY <1>3 DEF TakeKey
  <2>4. \/ UNCHANGED <<batch, pc>>
        \/ /\ batch' = [batch EXCEPT ![i] = Append(batch[i], Head(keys[i]))]
           /\ \E next \in {"keys", "send"} : pc' = [pc EXCEPT ![i] = next]
    BY <1>3 DEF TakeKey
  <2>5. keys' \in [Targets -> Seq(Events)]
    BY <2>1, <2>3
  <2>6. batch' \in [Targets -> Seq(Events)]
    BY <2>2, <2>4
  <2>7. pc' \in [Targets -> {"keys", "send", "post", "del", "stopped"}]
    BY <2>4
  <2> QED
    BY <2>3, <2>5, <2>6, <2>7
<1>4. ASSUME NEW i \in Targets, SendFromStore(i) \/ PostRejected(i) \/ DelSent(i) PROVE StreamType'
  <2>1. CASE NextOfBatch(i) /\ UNCHANGED <<keys, cancel>>
    BY <1>0, <1>4, <2>1, NextOfBatchType DEF SendFromStore, PostRejected, DelSent
  <2>2. CASE pc' = [pc EXCEPT ![i] = "post"] /\ UNCHANGED <<batch, retries, keys, cancel>>
    BY <2>2
  <2> QED
    BY <1>4, <2>1, <2>2 DEF SendFromStore, PostRejected, DelSent
<1>5. ASSUME NEW i \in Targets, PostOk(i) PROVE StreamType'
  BY <1>5 DEF PostOk
<1>6. ASSUME NEW i \in Targets, PostFails(i) PROVE StreamType'
  <2>1. CASE NextOfBatch(i)
    BY <1>0, <1>6, <2>1, NextOfBatchType DEF PostFails
  <2>2. CASE retries[i] + 1 < MaxRetries
    <3>1. retries[i] + 1 \in 0..(MaxRetries - 1)
      BY <2>2
    <3>2. /\ retries' = [retries EXCEPT ![i] = retries[i] + 1]
          /\ pc' = [pc EXCEPT ![i] = "send"]
          /\ UNCHANGED <<batch, keys, cancel>>
      BY <1>6, <2>2 DEF PostFails, Retry
    <3> QED
      BY <3>1, <3>2
  <2> QED
    BY <1>6, <2>1, <2>2 DEF PostFails, Retry
<1>7. CASE Reload
  BY <1>7 DEF Reload
<1>8. CASE Crash
  <2>1. <<>> \in Seq(Events) /\ 0 \in 0..(MaxRetries - 1)
    OBVIOUS
  <2> QED
    BY <1>8, <2>1 DEF Crash
<1>9. CASE InitTarget
  BY <1>9 DEF InitTarget
<1>10. CASE UNCHANGED streamVars
  BY <1>10
<1> QED
  BY <1>1, <1>2, <1>3, <1>4, <1>5, <1>6, <1>7, <1>8, <1>9, <1>10 DEF Next, Save, Stream,
     Raise, CheckLimit, CreateFile, WriteFile, CreateTarget, CreateFails, Publish, vars

LEMMA ReloadTypeStep == ASSUME TypeOK, Phases, [Next]_vars PROVE ReloadType'
<1> ReloadType
  BY DEF TypeOK
<1> USE DEF ReloadType
<1>1. CASE Reload \/ Crash \/ CreateFails \/ InitTarget \/ Publish
  BY <1>1 DEF Reload, Crash, CreateFails, InitTarget, Publish
<1>2. CASE CreateTarget
  BY <1>2 DEF CreateTarget, Phases
<1>3. CASE UNCHANGED reloadVars
  BY <1>3
<1> QED
  BY <1>1, <1>2, <1>3 DEF Next, Save, Stream, Raise, CheckLimit, CreateFile, WriteFile, Top,
     CancelSeen, TakeKey, SendFromStore, PostOk, PostFails, PostRejected, DelSent, vars

\* A post that fails, and a delete that fails, of an event.
LEMMA CountsType ==
  ASSUME RecordType, NEW e \in Events
  PROVE  /\ [posted EXCEPT ![e] = @ + 1] \in [Events -> Nat]
         /\ [kept EXCEPT ![e] = @ + 1] \in [Events -> Nat]
         /\ accepted \cup {e} \in SUBSET Events
         /\ misread \cup {e} \in SUBSET Events
BY DEF RecordType

LEMMA FaultType == ASSUME RecordType, Fault \/ UNCHANGED faults PROVE faults' \in 0..MaxFaults
BY DEF Fault, RecordType

LEMMA RecordTypeStep == ASSUME TypeOK, Batches, [Next]_vars PROVE RecordType'
<1> RecordType /\ StreamType
  BY DEF TypeOK
<1>0. \A i \in Targets : pc[i] \in {"post", "del"} => Head(batch[i]) \in Events
  BY DEF Batches, StreamType
<1>f. Fault \/ UNCHANGED faults
  BY DEF Next, Save, Stream, Raise, CheckLimit, CreateFile, WriteFile, Top, CancelSeen, TakeKey,
     Readable, Unreadable, SendFromStore, PostOk, MayBeReceived, PostFails, PostRejected, DelSent,
     Reload, Crash, CreateTarget, CreateFails, InitTarget, Publish, vars
<1>t. faults' \in 0..MaxFaults
  BY <1>f, FaultType
<1>1. ASSUME NEW i \in Targets, PostOk(i) PROVE RecordType'
  <2>1. Head(batch[i]) \in Events
    BY <1>0, <1>1 DEF PostOk
  <2> QED
    BY <1>1, <1>t, <2>1, CountsType DEF PostOk, RecordType
<1>2. ASSUME NEW i \in Targets, PostFails(i) \/ PostRejected(i) PROVE RecordType'
  <2>1. Head(batch[i]) \in Events /\ MayBeReceived(i) /\ UNCHANGED historyVars
    BY <1>0, <1>2 DEF PostFails, PostRejected
  <2> QED
    BY <1>t, <2>1, CountsType DEF MayBeReceived, RecordType
<1>3. ASSUME NEW i \in Targets, DelSent(i) PROVE RecordType'
  <2>1. Head(batch[i]) \in Events
    BY <1>0, <1>3 DEF DelSent
  <2> QED
    BY <1>3, <1>t, <2>1, CountsType DEF DelSent, RecordType
<1>4. ASSUME NEW i \in Targets, TakeKey(i) PROVE RecordType'
  <2>1. Head(keys[i]) \in Events
    BY <1>4 DEF TakeKey, StreamType
  <2>2. misread' \in {misread, misread \cup {Head(keys[i])}} /\ UNCHANGED <<torn, late, endpointVars>>
    BY <1>4 DEF TakeKey
  <2> QED
    BY <1>t, <2>1, <2>2, CountsType DEF RecordType
<1>5. ASSUME NEW e \in Events, CreateFile(e) PROVE RecordType'
  BY <1>5, <1>t DEF CreateFile, RecordType
<1>6. CASE CreateTarget
  BY <1>6, <1>t DEF CreateTarget, RecordType
<1>7. CASE UNCHANGED <<historyVars, endpointVars>>
  BY <1>7, <1>t DEF RecordType
<1> QED
  BY <1>1, <1>2, <1>3, <1>4, <1>5, <1>6, <1>7 DEF Next, Save, Stream, Raise, CheckLimit, WriteFile,
     Top, CancelSeen, SendFromStore, Reload, Crash, CreateFails, InitTarget, Publish, vars

LEMMA TypeStep == ASSUME TypeOK, Phases, Batches, [Next]_vars PROVE TypeOK'
BY SaveTypeStep, StoreTypeStep, StreamTypeStep, ReloadTypeStep, RecordTypeStep DEF TypeOK

-----------------------------------------------------------------------------
(* The streams. *)

\* What a step of stream i does to the streams.
Others(i) ==
  \A j \in Targets \ {i} :
    pc'[j] = pc[j] /\ keys'[j] = keys[j] /\ batch'[j] = batch[j] /\ cancel'[j] = cancel[j]

LEMMA StreamFrame ==
  ASSUME TypeOK, NEW i \in Targets, Stream(i)
  PROVE  Others(i) /\ UNCHANGED <<saveVars, order, reloadVars, torn, late>> /\ pc[i] # "stopped"
<1> StreamType
  BY DEF TypeOK
<1> USE DEF StreamType, Others, NextOfBatch
<1>1. CASE Top(i)
  BY <1>1 DEF Top
<1>2. CASE CancelSeen(i)
  BY <1>2 DEF CancelSeen
<1>3. CASE TakeKey(i)
  BY <1>3 DEF TakeKey
<1>4. CASE SendFromStore(i)
  BY <1>4 DEF SendFromStore
<1>5. CASE PostOk(i)
  BY <1>5 DEF PostOk
<1>6. CASE PostFails(i)
  BY <1>6 DEF PostFails, Retry
<1>7. CASE PostRejected(i)
  BY <1>7 DEF PostRejected
<1>8. CASE DelSent(i)
  BY <1>8 DEF DelSent
<1> QED
  BY <1>1, <1>2, <1>3, <1>4, <1>5, <1>6, <1>7, <1>8 DEF Stream

LEMMA NextOfBatchShape ==
  ASSUME StreamType, NEW i \in Targets, batch[i] # <<>>, NextOfBatch(i)
  PROVE  /\ Len(batch'[i]) = Len(batch[i]) - 1
         /\ Len(batch[i]) \in Nat \ {0}
         /\ \A n \in 1..Len(batch'[i]) : n + 1 \in 1..Len(batch[i]) /\ batch'[i][n] = batch[i][n + 1]
         /\ \/ pc'[i] = "send" /\ batch'[i] # <<>>
            \/ pc'[i] = "keys" /\ batch'[i] = <<>> /\ cancel[i] # "seen"
            \/ pc'[i] = "stopped" /\ batch'[i] = <<>>
<1> DEFINE b == batch[i]
<1>1. b \in Seq(Events) /\ b # <<>>
  BY DEF StreamType
<1>2. batch'[i] = Tail(b)
  BY DEF StreamType, NextOfBatch
<1>3. pc'[i] = IF Len(b) > 1 THEN "send" ELSE IF cancel[i] = "seen" THEN "stopped" ELSE "keys"
  BY DEF StreamType, NextOfBatch
<1> HIDE DEF b
<1>4. /\ Len(Tail(b)) = Len(b) - 1 /\ Len(b) \in Nat \ {0}
      /\ \A n \in 1..Len(Tail(b)) : n + 1 \in 1..Len(b) /\ Tail(b)[n] = b[n + 1]
  BY <1>1
<1>5. Len(b) > 1 => Tail(b) # <<>>
  <2>1. Len(<<>>) = 0
    OBVIOUS
  <2>2. Len(b) > 1 => Len(Tail(b)) # 0
    BY <1>4
  <2> QED
    BY <2>1, <2>2
<1>6. ~(Len(b) > 1) => Tail(b) = <<>>
  BY <1>1, <1>4
<1> QED
  BY <1>2, <1>3, <1>4, <1>5, <1>6 DEF b

LEMMA PhasesStep == ASSUME TypeOK, Phases, Batches, [Next]_vars PROVE Phases'
<1> /\ ReloadType /\ StreamType
  BY DEF TypeOK
<1>1. ASSUME NEW i \in Targets, Stream(i) PROVE Phases'
  <2>1. Others(i) /\ UNCHANGED reloadVars /\ pc[i] # "stopped"
    BY <1>1, StreamFrame
  <2>2. cancel[i] # "no" => cancel'[i] # "no"
    BY <1>1 DEF Stream, Top, CancelSeen, TakeKey, SendFromStore, PostOk, PostFails, PostRejected,
         DelSent, StreamType
  <2>3. ~(i > made) /\ ~(phase = "init" /\ i = made)
    BY <2>1 DEF Phases
  <2>4. i < made \/ phase \in {"create", "failed"} => cancel'[i] # "no"
    BY <2>1, <2>2 DEF Phases
  <2> QED
    BY <2>1, <2>3, <2>4 DEF Phases, Others, ReloadType
<1>2. CASE Reload
  BY <1>2 DEF Reload, Phases, ReloadType, StreamType
<1>3. CASE Crash
  BY <1>3 DEF Crash, Phases, ReloadType
<1>4. CASE CreateTarget
  <2>1. /\ made' = made + 1 /\ made < MaxTargets /\ phase = "create" /\ phase' = "init"
        /\ UNCHANGED <<streamVars, listed>>
    BY <1>4 DEF CreateTarget, Phases
  <2>2. made' \in Targets /\ made' > made /\ listed' <= made' /\ made' > 0
    BY <2>1 DEF Phases, ReloadType
  <2>3. pc'[made'] = "stopped"
    BY <2>1, <2>2 DEF Phases
  <2>4. \A i \in Targets : i > made' => pc'[i] = "stopped"
    BY <2>1 DEF Phases, ReloadType
  <2>5. \A i \in Targets : pc'[i] = "stopped" \/ cancel'[i] # "no"
    BY <2>1 DEF Phases
  <2> QED
    BY <2>1, <2>2, <2>3, <2>4, <2>5 DEF Phases
<1>5. CASE InitTarget
  <2>1. /\ phase = "init" /\ phase' = "publish" /\ UNCHANGED <<made, listed, cancel>>
        /\ \A i \in Targets : i # made => pc'[i] = pc[i]
    BY <1>5 DEF InitTarget, StreamType
  <2> QED
    BY <2>1 DEF Phases, ReloadType
<1>6. CASE Publish \/ CreateFails
  BY <1>6 DEF Publish, CreateFails, Phases, ReloadType
<1>7. CASE UNCHANGED <<reloadVars, streamVars>>
  BY <1>7 DEF Phases
<1> QED
  BY <1>1, <1>2, <1>3, <1>4, <1>5, <1>6, <1>7 DEF Next, Save, Raise, CheckLimit, CreateFile,
     WriteFile, vars

\* Batches for one stream.
BatchOf(i) ==
  /\ pc[i] \in {"send", "post", "del"} => batch[i] # <<>>
  /\ pc[i] = "keys" => Len(batch[i]) < BatchSize
  /\ pc[i] = "stopped" => batch[i] = <<>>
  /\ Len(batch[i]) <= BatchSize

LEMMA BatchesStep == ASSUME TypeOK, Phases, Batches, [Next]_vars PROVE Batches'
<1> /\ ReloadType /\ StreamType
  BY DEF TypeOK
<1>0. \A i \in Targets : BatchOf(i)
  BY DEF Batches, BatchOf
<1>1. ASSUME NEW i \in Targets, Stream(i) PROVE Batches'
  <2>1. Others(i)
    BY <1>1, StreamFrame
  <2>2. BatchOf(i)'
    <3>1. CASE NextOfBatch(i) /\ pc[i] \in {"send", "post", "del"}
      <4>1. batch[i] # <<>> /\ Len(batch[i]) <= BatchSize
        BY <1>0, <3>1 DEF BatchOf
      <4>2. /\ Len(batch'[i]) = Len(batch[i]) - 1
            /\ Len(batch[i]) \in Nat \ {0}
            /\ \/ pc'[i] = "send" /\ batch'[i] # <<>>
               \/ pc'[i] = "keys" /\ batch'[i] = <<>> /\ cancel[i] # "seen"
               \/ pc'[i] = "stopped" /\ batch'[i] = <<>>
        BY <3>1, <4>1, NextOfBatchShape
      <4>3. Len(<<>>) = 0
        OBVIOUS
      <4> QED
        BY <4>1, <4>2, <4>3 DEF BatchOf
    <3>2. CASE Top(i)
      <4>1. Len(<<>>) <= BatchSize
        OBVIOUS
      <4> QED
        BY <1>0, <3>2, <4>1 DEF Top, BatchOf, StreamType
    <3>3. CASE CancelSeen(i)
      BY <1>0, <3>3 DEF CancelSeen, BatchOf, StreamType
    <3>4. CASE TakeKey(i)
      <4>1. CASE UNCHANGED <<batch, pc>>
        BY <1>0, <4>1 DEF BatchOf
      <4>2. CASE ~UNCHANGED <<batch, pc>>
        <5>1. /\ batch'[i] = Append(batch[i], Head(keys[i]))
              /\ \E next \in IF Len(batch[i]) + 1 < BatchSize THEN {"keys", "send"} ELSE {"send"} :
                   pc'[i] = next
          BY <3>4, <4>2 DEF TakeKey, StreamType
        <5>2. Head(keys[i]) \in Events /\ batch[i] \in Seq(Events)
          BY <3>4 DEF TakeKey, StreamType
        <5>3. Len(batch'[i]) = Len(batch[i]) + 1 /\ batch'[i] # <<>>
          BY <5>1, <5>2
        <5>4. Len(batch[i]) < BatchSize /\ Len(batch[i]) \in Nat
          BY <1>0, <3>4, <5>2 DEF TakeKey, BatchOf
        <5> QED
          BY <5>1, <5>3, <5>4 DEF BatchOf
      <4> QED
        BY <4>1, <4>2
    <3>5. CASE UNCHANGED batch /\ pc'[i] \in {"send", "post", "del"} /\ pc[i] \in {"send", "post", "del"}
      BY <1>0, <3>5 DEF BatchOf
    <3> QED
      BY <1>1, <3>1, <3>2, <3>3, <3>4, <3>5 DEF Stream, SendFromStore, PostOk, PostFails, Retry,
         PostRejected, DelSent, StreamType
  <2> QED
    BY <1>0, <2>1, <2>2 DEF Batches, BatchOf, Others
<1>2. CASE Crash
  <2>1. Len(<<>>) <= BatchSize
    OBVIOUS
  <2> QED
    BY <1>2, <2>1 DEF Crash, Batches
<1>3. CASE InitTarget
  <2>1. Len(<<>>) < BatchSize /\ Len(<<>>) <= BatchSize
    OBVIOUS
  <2>2. batch[made] = <<>> /\ made \in Targets
    BY <1>0, <1>3 DEF InitTarget, Phases, BatchOf, ReloadType
  <2>3. UNCHANGED batch /\ \A i \in Targets : pc'[i] = pc[i] \/ (i = made /\ pc'[i] = "keys")
    BY <1>3 DEF InitTarget, StreamType
  <2> QED
    BY <1>0, <2>1, <2>2, <2>3 DEF Batches, BatchOf
<1>4. CASE UNCHANGED <<pc, batch>>
  BY <1>4 DEF Batches
<1> QED
  BY <1>1, <1>2, <1>3, <1>4 DEF Next, Save, Raise, CheckLimit, CreateFile,
     WriteFile, Reload, CreateTarget, CreateFails, Publish, vars

-----------------------------------------------------------------------------
(* Saves, files and what the streams know of them. *)

\* A stream deletes only what it cannot read, or what the endpoint has accepted.
LEMMA StreamDeletes ==
  ASSUME TypeOK, Phases, Batches, Knowledge, NEW i \in Targets, Stream(i)
  PROVE  \/ UNCHANGED <<file, entries>>
         \/ \E e \in Events :
              /\ Del(i, e)
              /\ \/ TakeKey(i) /\ Known(i, e) /\ (file[e] = "whole" => e \in misread')
                 \/ DelSent(i) /\ e = batch[i][1] /\ saver[e] = "saved" /\ e \in accepted
<1> StreamType
  BY DEF TypeOK
<1>1. CASE TakeKey(i)
  <2>1. CASE ~UNCHANGED <<file, entries>>
    <3>1. /\ keys[i] # <<>> /\ Del(i, Head(keys[i]))
          /\ file[Head(keys[i])] = "whole" => Head(keys[i]) \in misread'
      BY <1>1, <2>1 DEF TakeKey
    <3>2. keys[i] \in Seq(Events)
      BY DEF StreamType
    <3>3. Head(keys[i]) \in Events /\ 1 \in 1..Len(keys[i]) /\ Head(keys[i]) = keys[i][1]
      BY <3>1, <3>2
    <3>4. Known(i, Head(keys[i]))
      BY <3>3 DEF Knowledge
    <3> QED
      BY <1>1, <3>1, <3>3, <3>4
  <2> QED
    BY <2>1
<1>2. CASE DelSent(i)
  <2>1. /\ batch[i] \in Seq(Events) /\ batch[i] # <<>> /\ pc[i] = "del"
        /\ Del(i, Head(batch[i])) \/ UNCHANGED <<file, entries>>
    BY <1>2 DEF DelSent, Batches, StreamType
  <2>2. Head(batch[i]) = batch[i][1] /\ batch[i][1] \in Events /\ 1 \in 1..Len(batch[i])
    BY <2>1
  <2>3. saver[batch[i][1]] = "saved" /\ batch[i][1] \in accepted
    BY <2>1, <2>2 DEF Knowledge
  <2> QED
    BY <1>2, <2>1, <2>2, <2>3
<1> QED
  BY <1>1, <1>2 DEF Stream, Top, CancelSeen, SendFromStore, PostOk, PostFails, PostRejected

LEMMA DelFrame ==
  ASSUME StoreType, NEW i \in Targets, NEW e \in Events, Del(i, e)
  PROVE  /\ file'[e] = "absent"
         /\ \A d \in Events \ {e} : file'[d] = file[d]
         /\ \A j \in Targets, d \in Events : d \in entries'[j] => d \in entries[j]
         /\ \A j \in Targets, d \in Events \ {e} : d \in entries[j] => d \in entries'[j]
BY DEF Del, StoreType

LEMMA StreamShrinks ==
  ASSUME TypeOK, Phases, Batches, Knowledge, NEW i \in Targets, Stream(i), NEW j \in Targets
  PROVE  entries'[j] \subseteq entries[j]
<1> StoreType
  BY DEF TypeOK
<1>1. ASSUME NEW e \in Events, Del(i, e) PROVE entries'[j] \subseteq entries[j]
  BY <1>1 DEF Del, StoreType
<1> QED
  BY <1>1, StreamDeletes

\* Saves for one event.
SaveOf(e) ==
  /\ via[e] <= made
  /\ saver[e] \in {"spawned", "checked", "writing"} => via[e] > 0
  /\ file[e] = "whole" => saver[e] = "saved"
  /\ file[e] = "torn" => saver[e] \in {"writing", "dropped"}
  /\ saver[e] = "writing" => file[e] = "torn" \/ (e \in torn /\ via[e] < made)

LEMMA SavesStep == ASSUME TypeOK, Phases, Batches, Saves, Knowledge, [Next]_vars PROVE Saves'
<1> SaveType /\ StoreType /\ ReloadType
  BY DEF TypeOK
<1>0. \A e \in Events : SaveOf(e)
  BY DEF Saves, SaveOf
<1>1. ASSUME NEW e \in Events, Raise(e) \/ CheckLimit(e) \/ CreateFile(e) \/ WriteFile(e),
             NEW d \in Events
      PROVE  SaveOf(d)'
  <2>1. CASE d = e
    <3>1. CASE Raise(e)
      BY <1>0, <2>1, <3>1 DEF Raise, SaveOf, SaveType, ReloadType, Phases
    <3>2. CASE CheckLimit(e)
      BY <1>0, <2>1, <3>2 DEF CheckLimit, SaveOf, SaveType, ReloadType
    <3>3. CASE CreateFile(e)
      BY <1>0, <2>1, <3>3 DEF CreateFile, SaveOf, SaveType, StoreType
    <3>4. CASE WriteFile(e)
      BY <1>0, <2>1, <3>4 DEF WriteFile, SaveOf, SaveType, StoreType, ReloadType
    <3> QED
      BY <1>1, <3>1, <3>2, <3>3, <3>4
  <2>2. CASE d # e
    <3>1. /\ saver'[d] = saver[d] /\ via'[d] = via[d] /\ file'[d] = file[d]
          /\ UNCHANGED <<made, torn>>
      BY <1>1, <2>2 DEF Raise, CheckLimit, CreateFile, WriteFile, SaveType, StoreType
    <3> QED
      BY <1>0, <3>1 DEF SaveOf
  <2> QED
    BY <2>1, <2>2
<1>2. ASSUME NEW i \in Targets, Stream(i), NEW d \in Events PROVE SaveOf(d)'
  <2>1. UNCHANGED <<saver, via, made, torn>> /\ pc[i] # "stopped"
    BY <1>2, StreamFrame
  <2>2. i <= made
    BY <2>1 DEF Phases, ReloadType
  <2>3. CASE file'[d] = file[d]
    BY <1>0, <2>1, <2>3 DEF SaveOf
  <2>4. CASE file'[d] # file[d]
    <3>1. PICK e \in Events :
            Del(i, e) /\ (Known(i, e) \/ saver[e] = "saved")
      BY <1>2, <2>4, StreamDeletes
    <3>2. d = e /\ file'[d] = "absent"
      BY <2>4, <3>1, DelFrame
    <3>3. saver[d] = "writing" => d \in torn /\ via[d] < i
      BY <3>1, <3>2 DEF Known
    <3>4. saver[d] = "writing" => d \in torn /\ via[d] < made
      BY <2>2, <3>3 DEF SaveType, ReloadType
    <3> QED
      BY <1>0, <2>1, <3>2, <3>4 DEF SaveOf
  <2> QED
    BY <2>3, <2>4
<1>3. ASSUME Crash, NEW d \in Events PROVE SaveOf(d)'
  BY <1>0, <1>3 DEF Crash, SaveOf, SaveType, ReloadType
<1>4. ASSUME CreateTarget, NEW d \in Events PROVE SaveOf(d)'
  <2>1. UNCHANGED <<saver, via, file>> /\ made' = made + 1 /\ (d \in torn => d \in torn')
    BY <1>4 DEF CreateTarget
  <2>2. via[d] < made' /\ via[d] <= made'
    BY <1>0, <2>1 DEF SaveOf, SaveType, ReloadType
  <2> QED
    BY <1>0, <2>1, <2>2 DEF SaveOf
<1>5. ASSUME UNCHANGED <<saver, via, file, made, torn>>, NEW d \in Events PROVE SaveOf(d)'
  BY <1>0, <1>5 DEF SaveOf
<1>6. \A d \in Events : SaveOf(d)'
  BY <1>1, <1>2, <1>3, <1>4, <1>5 DEF Next, Save, Reload, CreateFails, InitTarget, Publish, vars
<1> QED
  BY <1>6 DEF Saves, SaveOf

LEMMA KnownKept ==
  ASSUME TypeOK, [Next]_vars, NEW e \in Events
  PROVE  /\ saver[e] = "saved" => saver'[e] = "saved"
         /\ e \in accepted => e \in accepted'
         /\ \A i \in Targets : Known(i, e) => Known(i, e)'
<1> SaveType /\ RecordType
  BY DEF TypeOK
<1>1. e \in accepted => e \in accepted'
  BY DEF Next, Save, Stream, Raise, CheckLimit, CreateFile, WriteFile, Top, CancelSeen,
     TakeKey, SendFromStore, PostOk, MayBeReceived, PostFails, PostRejected, DelSent, Reload, Crash,
     CreateTarget, CreateFails, InitTarget, Publish, vars
<1>2. \/ saver'[e] = saver[e] /\ via'[e] = via[e]
      \/ saver[e] \in {"new", "spawned", "checked"}
      \/ saver[e] \in {"spawned", "checked", "writing"} /\ saver'[e] = "dropped"
      \/ saver[e] = "writing" /\ saver'[e] = "saved"
      \/ saver'[e] = saver[e] /\ saver[e] # "writing"
  <2>1. ASSUME NEW d \in Events, Raise(d) \/ Save(d)
        PROVE  \/ saver'[e] = saver[e] /\ via'[e] = via[e]
               \/ saver[e] \in {"new", "spawned", "checked"}
               \/ saver[e] = "writing" /\ saver'[e] = "saved"
    BY <2>1 DEF Raise, Save, CheckLimit, CreateFile, WriteFile, SaveType
  <2>2. ASSUME Crash
        PROVE  \/ saver[e] \in {"spawned", "checked", "writing"} /\ saver'[e] = "dropped"
               \/ saver'[e] = saver[e] /\ saver[e] # "writing"
    BY <2>2 DEF Crash, SaveType
  <2>3. ASSUME UNCHANGED saveVars PROVE saver'[e] = saver[e] /\ via'[e] = via[e]
    BY <2>3
  <2> QED
    BY <2>1, <2>2, <2>3 DEF Next, Stream, Top, CancelSeen,
       TakeKey, SendFromStore, PostOk, PostFails, PostRejected, DelSent, Reload,
       CreateTarget, CreateFails, InitTarget, Publish, vars
<1>3. e \in torn => e \in torn'
  BY DEF Next, Save, Stream, Raise, CheckLimit, CreateFile, WriteFile, Top, CancelSeen,
     TakeKey, SendFromStore, PostOk, PostFails, PostRejected, DelSent, Reload, Crash,
     CreateTarget, CreateFails, InitTarget, Publish, vars
<1> QED
  BY <1>1, <1>2, <1>3 DEF Known

\* Knowledge for one stream.
KnowledgeOf(i) ==
  /\ \A e \in entries[i] : Known(i, e)
  /\ \A n \in 1..Len(keys[i]) : Known(i, keys[i][n])
  /\ \A n \in 1..Len(batch[i]) : saver[batch[i][n]] = "saved"
  /\ pc[i] = "del" => batch[i][1] \in accepted

LEMMA EntriesKnown ==
  ASSUME TypeOK, Phases, Batches, Saves, Knowledge, [Next]_vars, NEW i \in Targets
  PROVE  \A e \in entries'[i] : Known(i, e)'
<1> SaveType /\ StoreType /\ ReloadType
  BY DEF TypeOK
<1>1. \A e \in Events : e \in entries[i] => Known(i, e)'
  BY KnownKept DEF Knowledge
<1>2. entries'[i] \subseteq Events
  BY StoreTypeStep DEF StoreType
<1>3. ASSUME NEW d \in Events, WriteFile(d) PROVE \A e \in entries'[i] : Known(i, e)'
  <2>1. saver'[d] = "saved" /\ \A e \in entries'[i] : e \in entries[i] \/ e = d
    BY <1>3 DEF WriteFile, SaveType, StoreType
  <2>2. Known(i, d)'
    BY <2>1 DEF Known
  <2> QED
    BY <1>1, <1>2, <2>1, <2>2
<1>4. ASSUME NEW j \in Targets, Stream(j) PROVE \A e \in entries'[i] : Known(i, e)'
  <2>1. \A e \in Events : e \in entries'[i] => e \in entries[i]
    BY <1>4, StreamDeletes, DelFrame
  <2> QED
    BY <1>1, <1>2, <2>1
<1>5. ASSUME CreateTarget, NEW e \in entries'[i] PROVE Known(i, e)'
  <2>1. CASE i = made + 1
    <3>1. /\ e \in Events /\ file[e] # "absent" /\ UNCHANGED <<saver, via>>
          /\ file[e] = "torn" => e \in torn'
      BY <1>2, <1>5, <2>1 DEF CreateTarget, StoreType
    <3>2. /\ file[e] = "whole" => saver[e] = "saved"
          /\ file[e] = "torn" => saver[e] \in {"writing", "dropped"}
      BY <3>1 DEF Saves
    <3>3. via[e] < i
      BY <2>1, <3>1 DEF Saves, SaveType, ReloadType
    <3> QED
      BY <3>1, <3>2, <3>3 DEF Known, StoreType
  <2>2. CASE i # made + 1
    BY <1>1, <1>2, <1>5, <2>2 DEF CreateTarget, StoreType
  <2> QED
    BY <2>1, <2>2
<1>6. CASE Crash
  BY <1>6 DEF Crash
<1>7. CASE UNCHANGED entries
  BY <1>1, <1>2, <1>7
<1> QED
  BY <1>3, <1>4, <1>5, <1>6, <1>7 DEF Next, Save, Raise, CheckLimit, CreateFile, Reload,
     CreateFails, InitTarget, Publish, vars

LEMMA StreamKnowledge ==
  ASSUME TypeOK, Phases, Batches, Saves, Knowledge, NEW i \in Targets, Stream(i)
  PROVE  /\ \A n \in 1..Len(keys'[i]) : Known(i, keys'[i][n])
         /\ \A n \in 1..Len(batch'[i]) : saver[batch'[i][n]] = "saved"
         /\ pc'[i] = "del" => batch'[i][1] \in accepted'
<1> StreamType /\ RecordType
  BY DEF TypeOK
<1>0. /\ \A e \in entries[i] : Known(i, e)
      /\ \A n \in 1..Len(keys[i]) : Known(i, keys[i][n])
      /\ \A n \in 1..Len(batch[i]) : saver[batch[i][n]] = "saved"
  BY DEF Knowledge
<1>e. \A n \in 1..Len(<<>>) : FALSE
  OBVIOUS
<1>1. CASE Top(i)
  <2>1. \A ks \in Listings(i) : \A n \in 1..Len(ks) : Known(i, ks[n])
    BY <1>0, ListingType
  <2>2. pc'[i] # "del" /\ (batch'[i] = batch[i] \/ batch'[i] = <<>>)
    BY <1>1 DEF Top, StreamType
  <2>3. keys'[i] = keys[i] \/ keys'[i] \in Listings(i)
    BY <1>1 DEF Top, StreamType
  <2> QED
    BY <1>0, <1>e, <2>1, <2>2, <2>3
<1>2. CASE CancelSeen(i)
  <2>1. keys'[i] = <<>> /\ batch'[i] = batch[i] /\ pc'[i] # "del"
    BY <1>2 DEF CancelSeen, StreamType
  <2> QED
    BY <1>0, <1>e, <2>1
<1>3. CASE TakeKey(i)
  <2>1. keys[i] \in Seq(Events) /\ keys[i] # <<>> /\ batch[i] \in Seq(Events)
    BY <1>3 DEF TakeKey, StreamType
  <2>2. keys'[i] = Tail(keys[i]) /\ pc'[i] # "del"
    BY <1>3 DEF TakeKey, StreamType
  <2>3. \A n \in 1..Len(Tail(keys[i])) : n + 1 \in 1..Len(keys[i]) /\ Tail(keys[i])[n] = keys[i][n + 1]
    BY <2>1
  <2>4. \A n \in 1..Len(keys'[i]) : Known(i, keys'[i][n])
    BY <1>0, <2>2, <2>3
  <2>5. \/ batch'[i] = batch[i]
        \/ batch'[i] = Append(batch[i], Head(keys[i])) /\ file[Head(keys[i])] = "whole"
    BY <1>3 DEF TakeKey, Readable, StreamType
  <2>6. Head(keys[i]) \in Events
    BY <2>1
  <2>7. file[Head(keys[i])] = "whole" => saver[Head(keys[i])] = "saved"
    BY <2>6 DEF Saves
  <2>8. \A n \in 1..Len(Append(batch[i], Head(keys[i]))) :
          \/ n \in 1..Len(batch[i]) /\ Append(batch[i], Head(keys[i]))[n] = batch[i][n]
          \/ Append(batch[i], Head(keys[i]))[n] = Head(keys[i])
    BY <2>1, <2>6
  <2> QED
    BY <1>0, <2>2, <2>4, <2>5, <2>7, <2>8
<1>4. CASE NextOfBatch(i) /\ UNCHANGED keys /\ pc[i] \in {"send", "post", "del"}
  <2>1. batch[i] # <<>>
    BY <1>4 DEF Batches
  <2>2. /\ \A n \in 1..Len(batch'[i]) : n + 1 \in 1..Len(batch[i]) /\ batch'[i][n] = batch[i][n + 1]
        /\ pc'[i] # "del"
    BY <1>4, <2>1, NextOfBatchShape
  <2>3. ASSUME NEW n \in 1..Len(batch'[i]) PROVE saver[batch'[i][n]] = "saved"
    <3>1. n + 1 \in 1..Len(batch[i]) /\ batch'[i][n] = batch[i][n + 1]
      BY <2>2
    <3>2. saver[batch[i][n + 1]] = "saved"
      BY <1>0, <3>1
    <3> QED
      BY <3>1, <3>2
  <2>4. \A n \in 1..Len(keys'[i]) : Known(i, keys'[i][n])
    BY <1>0, <1>4
  <2> QED
    BY <2>2, <2>3, <2>4
<1>5. CASE PostOk(i)
  <2>1. batch[i] \in Seq(Events) /\ batch[i] # <<>>
    BY <1>5 DEF PostOk, Batches, StreamType
  <2>2. Head(batch[i]) = batch[i][1] /\ batch[i][1] \in Events
    BY <2>1
  <2>3. batch[i][1] \in accepted'
    BY <1>5, <2>2 DEF PostOk
  <2> QED
    BY <1>0, <1>5, <2>3 DEF PostOk
<1>6. CASE UNCHANGED <<keys, batch>> /\ pc'[i] # "del"
  BY <1>0, <1>6
<1> QED
  BY <1>1, <1>2, <1>3, <1>4, <1>5, <1>6 DEF Stream, SendFromStore, PostFails, Retry,
     PostRejected, DelSent, StreamType

LEMMA KnowledgeStep ==
  ASSUME TypeOK, Phases, Batches, Saves, Knowledge, [Next]_vars PROVE Knowledge'
<1> StreamType /\ StreamType'
  BY StreamTypeStep DEF TypeOK
<1> SUFFICES ASSUME NEW i \in Targets PROVE KnowledgeOf(i)'
  BY DEF Knowledge, KnowledgeOf
<1>0. keys'[i] \in Seq(Events) /\ batch'[i] \in Seq(Events)
  BY DEF StreamType
<1>1. \A n \in 1..Len(keys'[i]) : keys'[i][n] \in Events
  BY <1>0
<1>2. \A n \in 1..Len(batch'[i]) : batch'[i][n] \in Events
  BY <1>0
<1>3. CASE Stream(i)
  <2>1. /\ \A n \in 1..Len(keys'[i]) : Known(i, keys'[i][n])
        /\ \A n \in 1..Len(batch'[i]) : saver[batch'[i][n]] = "saved"
        /\ pc'[i] = "del" => batch'[i][1] \in accepted'
    BY <1>3, StreamKnowledge
  <2>2. \A n \in 1..Len(keys'[i]) : Known(i, keys[i][n])'
    BY <1>1, <2>1, KnownKept DEF Known
  <2>3. \A n \in 1..Len(batch'[i]) : saver'[batch'[i][n]] = "saved"
    BY <1>2, <2>1, KnownKept
  <2> QED
    BY <2>1, <2>2, <2>3, EntriesKnown DEF KnowledgeOf
<1>4. CASE keys'[i] = keys[i] /\ batch'[i] = batch[i] /\ (pc'[i] = pc[i] \/ pc'[i] # "del")
  <2>1. /\ \A n \in 1..Len(keys'[i]) : Known(i, keys'[i][n])
        /\ \A n \in 1..Len(batch'[i]) : saver[batch'[i][n]] = "saved"
        /\ pc'[i] = "del" => batch'[i][1] \in accepted
    BY <1>4 DEF Knowledge
  <2>2. \A n \in 1..Len(keys'[i]) : Known(i, keys[i][n])'
    BY <1>1, <2>1, KnownKept DEF Known
  <2>3. \A n \in 1..Len(batch'[i]) : saver'[batch'[i][n]] = "saved"
    BY <1>2, <2>1, KnownKept
  <2>4. pc'[i] = "del" => 1 \in 1..Len(batch'[i])
    BY <1>4 DEF Batches, StreamType
  <2>5. pc'[i] = "del" => batch'[i][1] \in accepted'
    BY <1>2, <2>1, <2>4, KnownKept
  <2> QED
    BY <2>2, <2>3, <2>5, EntriesKnown DEF KnowledgeOf
<1>5. CASE Crash
  <2>1. keys'[i] = <<>> /\ batch'[i] = <<>> /\ pc'[i] = "stopped" /\ entries'[i] = {}
    BY <1>5 DEF Crash
  <2>2. \A n \in 1..Len(<<>>) : FALSE
    OBVIOUS
  <2> QED
    BY <2>1, <2>2 DEF KnowledgeOf
<1>6. ASSUME NEW j \in Targets, j # i, Stream(j)
      PROVE  keys'[i] = keys[i] /\ batch'[i] = batch[i] /\ pc'[i] = pc[i]
  BY <1>6, StreamFrame DEF Others
<1> QED
  BY <1>3, <1>4, <1>5, <1>6 DEF Next, Save, Raise, CheckLimit, CreateFile, WriteFile, Reload,
     CreateTarget, CreateFails, InitTarget, Publish, vars, StreamType

-----------------------------------------------------------------------------
(* Nothing saved is lost, and what is stored is listed. *)

LEMMA ReceivedStep ==
  ASSUME TypeOK, Phases, Batches, Saves, Knowledge, Received, [Next]_vars PROVE Received'
<1> StreamType /\ RecordType
  BY DEF TypeOK
<1>1. ASSUME NEW i \in Targets, pc[i] = "post",
             posted' = [posted EXCEPT ![Head(batch[i])] = @ + 1], NEW e \in Events, posted'[e] > 0
      PROVE  saver[e] = "saved"
  <2>1. batch[i] \in Seq(Events) /\ batch[i] # <<>>
    BY <1>1 DEF Batches, StreamType
  <2>2. Head(batch[i]) = batch[i][1] /\ 1 \in 1..Len(batch[i])
    BY <2>1
  <2>3. CASE e = batch[i][1]
    BY <2>2, <2>3 DEF Knowledge
  <2>4. CASE e # batch[i][1]
    BY <1>1, <2>2, <2>4 DEF Received, RecordType
  <2> QED
    BY <2>3, <2>4
<1>2. ASSUME UNCHANGED posted, NEW e \in Events, posted'[e] > 0 PROVE saver[e] = "saved"
  BY <1>2 DEF Received
<1>3. \A e \in Events : posted'[e] > 0 => saver[e] = "saved"
  BY <1>1, <1>2 DEF Next, Save, Stream, Raise, CheckLimit, CreateFile, WriteFile, Top, CancelSeen,
     TakeKey, SendFromStore, PostOk, MayBeReceived, PostFails, PostRejected, DelSent, Reload, Crash,
     CreateTarget, CreateFails, InitTarget, Publish, vars
<1> QED
  BY <1>3, KnownKept DEF Received

LEMMA NoLossStep ==
  ASSUME TypeOK, Phases, Batches, Saves, Knowledge, NoLoss, [Next]_vars PROVE NoLoss'
<1> SaveType /\ StoreType
  BY DEF TypeOK
<1> SUFFICES ASSUME NEW e \in Events, saver'[e] = "saved"
             PROVE  e \in accepted' \cup torn' \cup misread' \/ file'[e] = "whole"
  BY DEF NoLoss
<1>1. e \in accepted => e \in accepted'
  BY KnownKept
<1>2. /\ e \in torn => e \in torn'
      /\ e \in misread => e \in misread'
  BY DEF Next, Save, Stream, Raise, CheckLimit, CreateFile, WriteFile, Top, CancelSeen,
     TakeKey, SendFromStore, PostOk, PostFails, PostRejected, DelSent, Reload, Crash,
     CreateTarget, CreateFails, InitTarget, Publish, vars
<1>3. CASE WriteFile(e)
  <2>1. file[e] = "torn" \/ e \in torn
    BY <1>3 DEF WriteFile, Saves
  <2> QED
    BY <1>2, <1>3, <2>1 DEF WriteFile, StoreType
<1>4. CASE saver[e] = "saved" /\ file'[e] = file[e]
  BY <1>1, <1>2, <1>4 DEF NoLoss
<1>5. ASSUME NEW i \in Targets, Stream(i), file'[e] # file[e]
      PROVE  e \in accepted' \cup torn' \cup misread'
  <2>1. saver[e] = "saved"
    BY <1>5, StreamFrame
  <2>2. PICK d \in Events : Del(i, d) /\ (file[d] = "whole" => d \in accepted \cup misread')
    BY <1>5, StreamDeletes
  <2>3. d = e
    BY <1>5, <2>2, DelFrame
  <2> QED
    BY <1>1, <1>2, <2>1, <2>2, <2>3 DEF NoLoss
<1>6. ASSUME NEW i \in Targets, Stream(i) PROVE saver[e] = "saved"
  BY <1>6, StreamFrame
<1>7. ASSUME NEW d \in Events, Raise(d) \/ CheckLimit(d) \/ CreateFile(d)
      PROVE  saver[e] = "saved" /\ file'[e] = file[e]
  BY <1>7 DEF Raise, CheckLimit, CreateFile, SaveType, StoreType
<1>8. ASSUME NEW d \in Events, d # e, WriteFile(d)
      PROVE  saver[e] = "saved" /\ file'[e] = file[e]
  BY <1>8 DEF WriteFile, SaveType, StoreType
<1>9. ASSUME Crash PROVE saver[e] = "saved" /\ file'[e] = file[e]
  BY <1>9 DEF Crash, SaveType
<1> QED
  BY <1>3, <1>4, <1>5, <1>6, <1>7, <1>8, <1>9 DEF Next, Save, Reload, CreateTarget, CreateFails,
     InitTarget, Publish, vars

\* An event whose file is there, or is still being written through an older
\* target, is in the newest map or made late.
ListedOf(e) ==
  phase \notin {"create", "failed"} =>
    /\ saver[e] = "saved" /\ file[e] = "whole" => e \in entries[made] \cup late
    /\ saver[e] = "writing" /\ file[e] = "torn" /\ via[e] < made => e \in entries[made] \cup late

LEMMA ListedStep ==
  ASSUME TypeOK, Phases, Batches, Saves, Knowledge, StoredIsListed, WrittenIsListed, [Next]_vars
  PROVE  StoredIsListed' /\ WrittenIsListed'
<1> SaveType /\ StoreType /\ ReloadType
  BY DEF TypeOK
<1>0. phase \notin {"create", "failed"} => made \in Targets
  BY DEF Phases, ReloadType
<1> SUFFICES ASSUME NEW e \in Events, phase' \notin {"create", "failed"} PROVE ListedOf(e)'
  BY DEF StoredIsListed, WrittenIsListed, ListedOf
<1>1. ListedOf(e)
  BY <1>0 DEF StoredIsListed, WrittenIsListed, ListedOf, Phases
<1>2. ASSUME NEW d \in Events, Raise(d) \/ CheckLimit(d) PROVE ListedOf(e)'
  BY <1>1, <1>2 DEF Raise, CheckLimit, ListedOf, SaveType
<1>3. ASSUME NEW d \in Events, CreateFile(d) PROVE ListedOf(e)'
  BY <1>1, <1>3 DEF CreateFile, ListedOf, SaveType, StoreType
<1>4. ASSUME NEW d \in Events, WriteFile(d) PROVE ListedOf(e)'
  <2>0. via[d] \in Targets /\ via[d] <= made
    BY <1>4 DEF WriteFile, Saves, SaveType
  <2>1. /\ \A i \in Targets : entries[i] \subseteq entries'[i]
        /\ d \in entries'[via[d]]
        /\ UNCHANGED <<phase, made, late>>
    BY <1>4, <2>0 DEF WriteFile, StoreType
  <2>2. CASE e = d
    <3>1. saver[e] = "writing" /\ saver'[e] = "saved" /\ (file'[e] = "whole" => file[e] \in {"torn", "whole"})
      BY <1>4, <2>2 DEF WriteFile, SaveType, StoreType
    <3>2. file'[e] = "whole" => file[e] = "torn"
      BY <3>1 DEF Saves
    <3>3. CASE via[d] = made
      BY <2>1, <2>2, <3>1, <3>3 DEF ListedOf
    <3>4. CASE via[d] < made
      BY <1>0, <1>1, <2>1, <2>2, <3>1, <3>2, <3>4 DEF ListedOf
    <3> QED
      BY <2>0, <3>3, <3>4 DEF SaveType, ReloadType
  <2>3. CASE e # d
    <3>1. saver'[e] = saver[e] /\ via'[e] = via[e] /\ file'[e] = file[e]
      BY <1>4, <2>3 DEF WriteFile, SaveType, StoreType
    <3> QED
      BY <1>0, <1>1, <2>1, <3>1 DEF ListedOf
  <2> QED
    BY <2>2, <2>3
<1>5. ASSUME NEW i \in Targets, Stream(i) PROVE ListedOf(e)'
  <2>1. UNCHANGED <<saver, via, phase, made, late>>
    BY <1>5, StreamFrame
  <2>2. CASE UNCHANGED <<file, entries>>
    BY <1>1, <2>1, <2>2 DEF ListedOf
  <2>3. ASSUME NEW d \in Events, Del(i, d) PROVE ListedOf(e)'
    <3>1. CASE e = d
      <4>1. file'[e] = "absent"
        BY <2>3, <3>1, DelFrame
      <4> QED
        BY <4>1 DEF ListedOf
    <3>2. CASE e # d
      <4>1. file'[e] = file[e] /\ \A j \in Targets : e \in entries[j] => e \in entries'[j]
        BY <2>3, <3>2, DelFrame
      <4> QED
        BY <1>0, <1>1, <2>1, <4>1 DEF ListedOf
    <3> QED
      BY <3>1, <3>2
  <2> QED
    BY <1>5, <2>2, <2>3, StreamDeletes
<1>6. CASE CreateTarget
  <2>1. made' \in Targets /\ UNCHANGED <<saver, file>>
    BY <1>6 DEF CreateTarget, Phases, ReloadType
  <2>2. file[e] # "absent" => e \in entries'[made']
    BY <1>6, <2>1 DEF CreateTarget, StoreType
  <2> QED
    BY <2>1, <2>2 DEF ListedOf
<1>7. CASE InitTarget \/ Publish
  BY <1>1, <1>7 DEF InitTarget, Publish, ListedOf
<1>8. CASE UNCHANGED vars
  BY <1>1, <1>8 DEF ListedOf, vars
<1> QED
  BY <1>2, <1>3, <1>4, <1>5, <1>6, <1>7, <1>8 DEF Next, Save, Reload, Crash, CreateFails

LEMMA BaseInit == ASSUME Init PROVE Base
<1>1. TypeOK
  BY DEF Init, TypeOK, SaveType, StoreType, StreamType, ReloadType, RecordType
<1>2. Phases /\ Saves /\ Received /\ NoLoss /\ StoredIsListed /\ WrittenIsListed
  BY DEF Init, Phases, Saves, Received, NoLoss, StoredIsListed, WrittenIsListed
<1>3. Len(<<>>) <= BatchSize /\ \A n \in 1..Len(<<>>) : FALSE
  OBVIOUS
<1>4. Batches
  BY <1>3 DEF Init, Batches
<1>5. Knowledge
  BY <1>3 DEF Init, Knowledge
<1> QED
  BY <1>1, <1>2, <1>4, <1>5 DEF Base

LEMMA BaseStep == ASSUME Base, [Next]_vars PROVE Base'
BY TypeStep, PhasesStep, BatchesStep, SavesStep, KnowledgeStep, ReceivedStep, NoLossStep,
   ListedStep DEF Base

LEMMA BaseHolds == Spec => []Base
BY BaseInit, BaseStep, PTL DEF Spec

\* The state stays well formed.
THEOREM Typing == Spec => []TypeOK
BY BaseHolds, PTL DEF Base

\* An event whose save returned Ok is in its file until the endpoint accepted
\* it, except one whose file a new store found torn and one that a stream could
\* not read: for any number of events, reloads, crashes, failed posts and other
\* faults.
THEOREM Durable == Spec => []NoLoss
BY BaseHolds, PTL DEF Base

\* What is stored is in the newest target's map, or was made late by an older
\* target.
THEOREM Listed == Spec => []StoredIsListed
BY BaseHolds, PTL DEF Base

-----------------------------------------------------------------------------
(* The counting arguments. *)

LEMMA SmallerSet ==
  ASSUME NEW S, NEW T, T \subseteq S, IsFiniteSet(S)
  PROVE  IsFiniteSet(T) /\ Cardinality(T) \in Nat /\ Cardinality(S) \in Nat
         /\ Cardinality(T) <= Cardinality(S)
BY FS_Subset, FS_CardinalityType

LEMMA OneMore ==
  ASSUME NEW S, NEW T, NEW x, T \subseteq S \cup {x}, IsFiniteSet(S)
  PROVE  Cardinality(T) \in Nat /\ Cardinality(S) \in Nat /\ Cardinality(T) <= Cardinality(S) + 1
<1>1. IsFiniteSet(S \cup {x}) /\ (Cardinality(S \cup {x}) = Cardinality(S)
                                   \/ Cardinality(S \cup {x}) = Cardinality(S) + 1)
  BY FS_AddElement
<1>2. Cardinality(S) \in Nat
  BY FS_CardinalityType
<1>3. Cardinality(T) \in Nat /\ Cardinality(T) <= Cardinality(S \cup {x})
  BY <1>1, SmallerSet
<1> QED
  BY <1>1, <1>2, <1>3

LEMMA OneLess ==
  ASSUME NEW S, NEW T, NEW x \in S, T \subseteq S \ {x}, IsFiniteSet(S)
  PROVE  Cardinality(T) \in Nat /\ Cardinality(S) \in Nat /\ Cardinality(T) + 1 <= Cardinality(S)
<1>1. IsFiniteSet(S \ {x}) /\ Cardinality(S \ {x}) = Cardinality(S) - 1
  BY FS_RemoveElement
<1>2. Cardinality(S) \in Nat
  BY FS_CardinalityType
<1>3. Cardinality(T) \in Nat /\ Cardinality(T) <= Cardinality(S \ {x})
  BY <1>1, SmallerSet
<1> QED
  BY <1>1, <1>2, <1>3

LEMMA IntervalSize == \A n \in Nat : IsFiniteSet(1..n) /\ Cardinality(1..n) = n
BY FS_Interval

LEMMA Places ==
  ASSUME NEW m \in Nat
  PROVE  /\ IsFiniteSet((1..m) \X (1..BatchSize))
         /\ Cardinality((1..m) \X (1..BatchSize)) = BatchSize * m
<1>1. /\ IsFiniteSet(1..m) /\ Cardinality(1..m) = m
      /\ IsFiniteSet(1..BatchSize) /\ Cardinality(1..BatchSize) = BatchSize
  BY IntervalSize
<1>2. /\ IsFiniteSet((1..m) \X (1..BatchSize))
      /\ Cardinality((1..m) \X (1..BatchSize)) = Cardinality(1..m) * Cardinality(1..BatchSize)
  BY <1>1, FS_Product
<1>3. m * BatchSize = BatchSize * m
  OBVIOUS
<1> QED
  BY <1>1, <1>2, <1>3

LEMMA OwedFinite == ASSUME ReloadType, made > 0 PROVE IsFiniteSet(Owed)
<1>1. made - 1 \in Nat
  BY DEF ReloadType
<1>2. IsFiniteSet((1..(made - 1)) \X (1..BatchSize))
  BY <1>1, Places
<1>3. Owed \subseteq (1..(made - 1)) \X (1..BatchSize)
  BY DEF Owed
<1> QED
  BY <1>2, <1>3, SmallerSet

LEMMA PhantomsFinite == ASSUME TypeOK, made > 0 PROVE IsFiniteSet(Phantoms)
<1>1. Phantoms \subseteq Events
  BY DEF Phantoms, TypeOK, StoreType, ReloadType
<1> QED
  BY <1>1, FiniteEvents

\* The steps of an older stream.
LEMMA OlderStream ==
  ASSUME Base, NEW i \in Targets, Stream(i), i < made
  PROVE  \/ UNCHANGED <<file, entries>> /\ Len(batch'[i]) <= Len(batch[i])
         \/ /\ \E e \in Events : Del(i, e)
            /\ Len(batch[i]) \in 1..BatchSize
            /\ Len(batch'[i]) = Len(batch[i]) - 1
<1> /\ TypeOK /\ StreamType /\ Phases /\ Batches /\ Knowledge
  BY DEF Base, TypeOK
<1>1. cancel[i] # "no"
  BY StreamFrame DEF Phases
<1>2. ~TakeKey(i)
  BY <1>1 DEF TakeKey
<1>3. batch[i] \in Seq(Events) /\ Len(batch[i]) \in Nat /\ Len(batch[i]) <= BatchSize /\ Len(<<>>) = 0
  BY DEF StreamType, Batches
<1>4. ASSUME NextOfBatch(i), pc[i] \in {"send", "post", "del"}
      PROVE  Len(batch'[i]) = Len(batch[i]) - 1 /\ Len(batch[i]) \in Nat \ {0}
  <2>1. batch[i] # <<>>
    BY <1>4 DEF Batches
  <2> QED
    BY <1>4, <2>1, NextOfBatchShape
<1>5. CASE DelSent(i)
  <2>1. Len(batch'[i]) = Len(batch[i]) - 1 /\ Len(batch[i]) \in Nat \ {0}
    BY <1>4, <1>5 DEF DelSent
  <2>2. UNCHANGED <<file, entries>> \/ \E e \in Events : Del(i, e)
    BY StreamDeletes
  <2> QED
    BY <1>3, <2>1, <2>2
<1>6. CASE ~DelSent(i)
  <2>1. UNCHANGED <<file, entries>>
    BY <1>2, <1>6, StreamDeletes
  <2>2. \/ NextOfBatch(i) /\ pc[i] \in {"send", "post", "del"}
        \/ batch'[i] = batch[i]
        \/ batch'[i] = <<>>
    BY <1>2, <1>6 DEF Stream, Top, CancelSeen, SendFromStore, PostOk, PostFails, Retry, PostRejected,
       StreamType
  <2>3. Len(batch'[i]) <= Len(batch[i])
    BY <1>3, <1>4, <2>2
  <2> QED
    BY <2>1, <2>3
<1> QED
  BY <1>5, <1>6

LEMMA PhantomsPaidStep == ASSUME Base, PhantomsPaid, [Next]_vars PROVE PhantomsPaid'
<1> /\ TypeOK /\ StoreType /\ StreamType /\ ReloadType /\ SaveType /\ Phases /\ Saves /\ Batches /\ Knowledge
  BY DEF Base, TypeOK
<1> SUFFICES ASSUME made' > 0 
             PROVE  Cardinality(Phantoms') + Cardinality(Owed') <= BatchSize * (made' - 1)
  BY DEF PhantomsPaid
<1>1. ASSUME made' = made, Phantoms' \subseteq Phantoms, Owed' \subseteq Owed
      PROVE  Cardinality(Phantoms') + Cardinality(Owed') <= BatchSize * (made' - 1)
  <2>1. Cardinality(Phantoms) + Cardinality(Owed) <= BatchSize * (made - 1)
    BY <1>1 DEF PhantomsPaid
  <2>2. IsFiniteSet(Phantoms) /\ IsFiniteSet(Owed)
    BY <1>1, PhantomsFinite, OwedFinite
  <2>3. /\ Cardinality(Phantoms') \in Nat /\ Cardinality(Phantoms) \in Nat
        /\ Cardinality(Phantoms') <= Cardinality(Phantoms)
    BY <1>1, <2>2, SmallerSet
  <2>4. /\ Cardinality(Owed') \in Nat /\ Cardinality(Owed) \in Nat
        /\ Cardinality(Owed') <= Cardinality(Owed)
    BY <1>1, <2>2, SmallerSet
  <2>5. BatchSize * (made - 1) \in Int
    BY DEF ReloadType
  <2> QED
    BY <1>1, <2>1, <2>3, <2>4, <2>5
<1>2. ASSUME UNCHANGED <<made, entries, file, batch>>
      PROVE  Phantoms' \subseteq Phantoms /\ Owed' \subseteq Owed
  BY <1>2 DEF Phantoms, Owed
<1>3. ASSUME NEW e \in Events, CreateFile(e)
      PROVE  made' = made /\ Phantoms' \subseteq Phantoms /\ Owed' \subseteq Owed
  <2>1. UNCHANGED <<made, entries, batch>> /\ \A d \in Events : file'[d] = "absent" => file[d] = "absent"
    BY <1>3 DEF CreateFile, StoreType
  <2>2. entries[made] \subseteq Events
    BY <2>1 DEF StoreType, ReloadType
  <2> QED
    BY <2>1, <2>2 DEF Phantoms, Owed
<1>4. ASSUME NEW e \in Events, WriteFile(e)
      PROVE  made' = made /\ Phantoms' \subseteq Phantoms /\ Owed' \subseteq Owed
  <2>1. UNCHANGED <<made, batch>> /\ \A d \in Events : file'[d] = "absent" => file[d] = "absent"
    BY <1>4 DEF WriteFile, StoreType
  <2>2. via[e] = made => file'[e] = "whole"
    BY <1>4 DEF WriteFile, Saves, StoreType, SaveType, ReloadType
  <2>3. made \in Targets
    BY <2>1 DEF ReloadType
  <2>4. \A d \in entries'[made] : d \in Events /\ (d \in entries[made] \/ (d = e /\ via[e] = made))
    BY <1>4, <2>3 DEF WriteFile, StoreType
  <2>5. Phantoms' \subseteq Phantoms
    BY <2>1, <2>2, <2>4 DEF Phantoms
  <2> QED
    BY <2>1, <2>5 DEF Owed
<1>5. ASSUME NEW i \in Targets, Stream(i)
      PROVE  Cardinality(Phantoms') + Cardinality(Owed') <= BatchSize * (made' - 1)
  <2>1. Others(i) /\ made' = made /\ pc[i] # "stopped"
    BY <1>5, StreamFrame
  <2>2. i <= made /\ made \in Targets
    BY <2>1 DEF Phases, ReloadType
  <2>3. CASE i = made
    <3>1. \A j \in 1..(made - 1) : batch'[j] = batch[j]
      BY <2>1, <2>2, <2>3 DEF Others
    <3>2. Owed' \subseteq Owed
      BY <2>1, <3>1 DEF Owed
    <3>3. ASSUME NEW e \in Events, Del(i, e) PROVE Phantoms' \subseteq Phantoms
      <4>1. /\ \A d \in Events : d # e => file'[d] = file[d]
            /\ \A d \in entries'[i] : d \in entries[i]
            /\ file[e] # "absent" => e \notin entries'[i]
            /\ entries'[i] \subseteq Events
        BY <3>3 DEF Del, StoreType
      <4> QED
        BY <2>1, <2>3, <4>1 DEF Phantoms
    <3>4. Phantoms' \subseteq Phantoms
      <4>1. CASE UNCHANGED <<file, entries>>
        BY <2>1, <4>1 DEF Phantoms
      <4> QED
        BY <1>5, <3>3, <4>1, StreamDeletes
    <3> QED
      BY <1>1, <2>1, <3>2, <3>4
  <2>4. CASE i < made
    <3>1. \A j \in 1..(made - 1) : j # i => batch'[j] = batch[j]
      BY <2>1, <2>2 DEF Others
    <3>2. CASE UNCHANGED <<file, entries>> /\ Len(batch'[i]) <= Len(batch[i])
      <4>0. Len(batch[i]) \in Nat /\ Len(batch'[i]) \in Nat
        <5>1. StreamType'
          BY StreamTypeStep
        <5>2. batch[i] \in Seq(Events) /\ batch'[i] \in Seq(Events)
          BY <5>1 DEF StreamType
        <5> QED
          BY <5>2
      <4>1. ASSUME NEW p \in Owed' PROVE p \in Owed
        <5>1. p \in (1..(made - 1)) \X (1..BatchSize) /\ p[2] <= Len(batch'[p[1]])
          BY <2>1 DEF Owed
        <5>2. p[1] \in 1..(made - 1) /\ p[2] \in 1..BatchSize
          BY <5>1
        <5>3. CASE p[1] = i
          BY <3>2, <4>0, <5>1, <5>2, <5>3 DEF Owed
        <5>4. CASE p[1] # i
          BY <3>1, <5>1, <5>2, <5>4 DEF Owed
        <5> QED
          BY <5>3, <5>4
      <4>2. Phantoms' \subseteq Phantoms
        BY <2>1, <3>2 DEF Phantoms
      <4> QED
        BY <1>1, <2>1, <4>1, <4>2
    <3>3. ASSUME NEW e \in Events, Del(i, e), Len(batch[i]) \in 1..BatchSize,
                 Len(batch'[i]) = Len(batch[i]) - 1
          PROVE  Cardinality(Phantoms') + Cardinality(Owed') <= BatchSize * (made' - 1)
      <4>1. Cardinality(Phantoms) + Cardinality(Owed) <= BatchSize * (made - 1)
        BY <2>1 DEF PhantomsPaid
      <4>2. IsFiniteSet(Phantoms) /\ IsFiniteSet(Owed)
        BY <2>1, PhantomsFinite, OwedFinite
      <4>3. Phantoms' \subseteq Phantoms \cup {e}
        <5>1. /\ \A d \in Events : d # e => file'[d] = file[d]
              /\ \A d \in entries'[made] : d \in entries[made] /\ d \in Events
          BY <2>2, <3>3 DEF Del, StoreType
        <5> QED
          BY <2>1, <5>1 DEF Phantoms
      <4>4. <<i, Len(batch[i])>> \in Owed
        BY <2>2, <2>4, <3>3 DEF Owed, ReloadType
      <4>5. ASSUME NEW p \in Owed' PROVE p \in Owed \ {<<i, Len(batch[i])>>}
        <5>1. p \in (1..(made - 1)) \X (1..BatchSize) /\ p[2] <= Len(batch'[p[1]])
          BY <2>1 DEF Owed
        <5>2. p[1] \in 1..(made - 1) /\ p[2] \in 1..BatchSize
          BY <5>1
        <5>3. CASE p[1] = i
          <6>1. p[2] < Len(batch[i])
            BY <3>3, <5>1, <5>2, <5>3
          <6>2. p # <<i, Len(batch[i])>> /\ p[2] <= Len(batch[i])
            BY <3>3, <5>2, <6>1
          <6> QED
            BY <5>1, <5>3, <6>2 DEF Owed
        <5>4. CASE p[1] # i
          <6>1. p # <<i, Len(batch[i])>>
            BY <5>4
          <6> QED
            BY <3>1, <5>1, <5>2, <5>4, <6>1 DEF Owed
        <5> QED
          BY <5>3, <5>4
      <4>6. Cardinality(Phantoms') \in Nat /\ Cardinality(Phantoms) \in Nat
            /\ Cardinality(Phantoms') <= Cardinality(Phantoms) + 1
        BY <4>2, <4>3, OneMore
      <4>7. Cardinality(Owed') \in Nat /\ Cardinality(Owed) \in Nat
            /\ Cardinality(Owed') + 1 <= Cardinality(Owed)
        <5>1. Owed' \subseteq Owed \ {<<i, Len(batch[i])>>}
          BY <4>5
        <5> QED
          BY <4>2, <4>4, <5>1, OneLess
      <4>8. BatchSize * (made - 1) \in Int
        BY DEF ReloadType
      <4> QED
        BY <2>1, <4>1, <4>6, <4>7, <4>8
    <3> QED
      BY <1>5, <2>4, <3>2, <3>3, OlderStream
  <2> QED
    BY <2>2, <2>3, <2>4 DEF ReloadType
<1>6. ASSUME Crash PROVE Cardinality(Phantoms') + Cardinality(Owed') <= BatchSize * (made' - 1)
  <2>1. made' = made /\ made \in Targets
    BY <1>6 DEF Crash, ReloadType
  <2>2. Phantoms' = {}
    BY <1>6, <2>1 DEF Crash, Phantoms
  <2>3. \A i \in Targets : Len(batch'[i]) = 0
    BY <1>6 DEF Crash
  <2>4. ASSUME NEW p \in Owed' PROVE FALSE
    <3>1. p[1] \in Targets /\ p[2] \in 1..BatchSize /\ p[2] <= Len(batch'[p[1]])
      BY <2>1 DEF Owed
    <3> QED
      BY <2>3, <3>1
  <2>5. Cardinality(Phantoms') = 0 /\ Cardinality(Owed') = 0
    BY <2>2, <2>4, FS_EmptySet
  <2>6. BatchSize * (made - 1) \in Nat
    BY <2>1
  <2> QED
    BY <2>1, <2>5, <2>6
<1>7. ASSUME CreateTarget PROVE Cardinality(Phantoms') + Cardinality(Owed') <= BatchSize * (made' - 1)
  <2>1. made' = made + 1 /\ made' \in Targets /\ made \in Nat /\ made' - 1 = made /\ UNCHANGED <<file, batch>>
    BY <1>7 DEF CreateTarget, Phases, ReloadType
  <2>2. entries'[made'] = {e \in Events : file[e] # "absent"}
    BY <1>7, <2>1 DEF CreateTarget, StoreType
  <2>3. Phantoms' = {}
    BY <2>1, <2>2 DEF Phantoms
  <2>4. Owed' \subseteq (1..made) \X (1..BatchSize)
    BY <2>1 DEF Owed
  <2>5. /\ IsFiniteSet((1..made) \X (1..BatchSize))
        /\ Cardinality((1..made) \X (1..BatchSize)) = BatchSize * made
    BY <2>1, Places
  <2>6. Cardinality(Owed') \in Nat /\ Cardinality(Owed') <= BatchSize * made
    BY <2>4, <2>5, SmallerSet
  <2>7. Cardinality(Phantoms') = 0
    BY <2>3, FS_EmptySet
  <2> QED
    BY <2>1, <2>6, <2>7
<1> QED
  BY <1>1, <1>2, <1>3, <1>4, <1>5, <1>6, <1>7 DEF Next, Save, Raise, CheckLimit, Reload,
     CreateFails, InitTarget, Publish, vars

LEMMA PostersFinite == ASSUME ReloadType, NEW e PROVE IsFiniteSet(Posters(e)) /\ Posters(e) \subseteq 1..made
<1>1. IsFiniteSet(1..made)
  BY FS_Interval DEF ReloadType
<1>2. Posters(e) \subseteq 1..made
  BY DEF Posters
<1> QED
  BY <1>1, <1>2, SmallerSet

\* What makes stream i one that may still post e.
MayPost(i, e) ==
  \/ pc[i] \in {"keys", "send"} /\ file[e] # "absent"
  \/ pc[i] = "post" /\ (file[e] # "absent" \/ batch[i][1] = e)
  \/ pc[i] = "del" /\ file[e] # "absent" /\ batch[i][1] # e
  \/ phase = "init" /\ i = made

\* No step of a stream makes it, or another stream, one that may post e, except
\* a delete that fails.
Undeleted(i, e) == DelSent(i) /\ kept'[e] = kept[e] + 1 /\ UNCHANGED posted

LEMMA PostersShrink ==
  ASSUME Base, NEW i \in Targets, Stream(i), NEW e \in Events
  PROVE  \/ Posters(e)' \subseteq Posters(e)
         \/ Undeleted(i, e) /\ Posters(e)' \subseteq Posters(e) \cup {i}
<1> /\ TypeOK /\ StoreType /\ StreamType /\ ReloadType /\ RecordType /\ Phases /\ Batches /\ Knowledge
  BY DEF Base, TypeOK
<1>1. Others(i) /\ UNCHANGED <<made, phase>> /\ pc[i] # "stopped"
  BY StreamFrame
<1>2. file'[e] # "absent" => file'[e] = file[e]
  BY StreamDeletes, DelFrame
<1>3. \A j \in Targets : j # i => (MayPost(j, e)' => MayPost(j, e))
  BY <1>1, <1>2 DEF MayPost, Others
<1>4. ~(phase = "init" /\ i = made)
  BY <1>1 DEF Phases
<1>5. MayPost(i, e)' => MayPost(i, e) \/ Undeleted(i, e)
  <2>1. CASE Top(i)
    BY <1>1, <1>2, <1>4, <2>1 DEF Top, MayPost, StreamType
  <2>2. CASE CancelSeen(i)
    BY <1>1, <1>2, <1>4, <2>2 DEF CancelSeen, MayPost, StreamType
  <2>3. CASE TakeKey(i)
    <3>1. pc[i] = "keys" /\ pc'[i] \in {"keys", "send"}
      BY <2>3 DEF TakeKey, StreamType
    <3> QED
      BY <1>1, <1>2, <1>4, <3>1 DEF MayPost
  <2>4. ASSUME NextOfBatch(i), pc[i] \in {"send", "post"} PROVE MayPost(i, e)' => MayPost(i, e)
    <3>1. pc'[i] \in {"keys", "send", "stopped"}
      BY <2>4 DEF NextOfBatch, StreamType
    <3> QED
      BY <1>1, <1>2, <1>4, <2>4, <3>1 DEF MayPost
  <2>5. CASE SendFromStore(i)
    <3>1. CASE Readable(Head(batch[i])) /\ pc'[i] = "post" /\ UNCHANGED batch
      <4>1. batch[i] \in Seq(Events) /\ batch[i] # <<>>
        BY <2>5 DEF SendFromStore, Batches, StreamType
      <4>2. Head(batch[i]) = batch[i][1]
        BY <4>1
      <4> QED
        BY <1>1, <1>2, <1>4, <2>5, <3>1, <4>2 DEF SendFromStore, Readable, MayPost
    <3> QED
      BY <2>4, <2>5, <3>1 DEF SendFromStore, StreamType
  <2>6. CASE PostOk(i)
    BY <1>1, <1>2, <1>4, <2>6 DEF PostOk, MayPost, StreamType
  <2>7. CASE PostFails(i)
    <3>1. CASE pc'[i] = "send"
      BY <1>1, <1>2, <1>4, <2>7, <3>1 DEF PostFails, MayPost
    <3> QED
      BY <2>4, <2>7, <3>1 DEF PostFails, Retry, StreamType
  <2>8. CASE PostRejected(i)
    BY <2>4, <2>8 DEF PostRejected
  <2>9. CASE DelSent(i)
    <3>1. batch[i] \in Seq(Events) /\ batch[i] # <<>>
      BY <2>9 DEF DelSent, Batches, StreamType
    <3>2. Head(batch[i]) = batch[i][1] /\ batch[i][1] \in Events
      BY <3>1
    <3>3. batch[i][1] = e => file'[e] = "absent" \/ Undeleted(i, e)
      BY <2>9, <3>2, DelFrame DEF DelSent, Undeleted, RecordType
    <3>4. pc'[i] \in {"keys", "send", "stopped"} /\ pc[i] = "del"
      BY <2>9 DEF DelSent, NextOfBatch, StreamType
    <3> QED
      BY <1>1, <1>2, <1>4, <3>3, <3>4 DEF MayPost
  <2> QED
    BY <2>1, <2>2, <2>3, <2>5, <2>6, <2>7, <2>8, <2>9 DEF Stream
<1>6. 1..made \subseteq Targets
  BY DEF ReloadType
<1>7. \A j \in 1..made : j \in Posters(e) <=> MayPost(j, e)
  BY DEF Posters, MayPost
<1>8. \A j \in 1..made : j \in Posters(e)' <=> MayPost(j, e)'
  BY <1>1 DEF Posters, MayPost
<1>9. Posters(e)' \subseteq 1..made
  BY <1>1 DEF Posters
<1> QED
  BY <1>3, <1>5, <1>6, <1>7, <1>8, <1>9

LEMMA CopiesPaidStep == ASSUME Base, CopiesPaid, [Next]_vars PROVE CopiesPaid'
<1> /\ TypeOK /\ SaveType /\ StoreType /\ StreamType /\ ReloadType /\ RecordType
    /\ Phases /\ Saves /\ Batches /\ Knowledge /\ Received
  BY DEF Base, TypeOK
<1> SUFFICES ASSUME NEW e \in Events
             PROVE  posted'[e] + Cardinality(Posters(e)') <= made' + kept'[e]
  BY DEF CopiesPaid
<1>1. /\ posted[e] + Cardinality(Posters(e)) <= made + kept[e]
      /\ posted[e] \in Nat /\ made \in Nat /\ kept[e] \in Nat
  BY DEF CopiesPaid, RecordType, ReloadType
<1>2. IsFiniteSet(Posters(e)) /\ Cardinality(Posters(e)) \in Nat /\ Posters(e) \subseteq 1..made
  BY PostersFinite, FS_CardinalityType
<1>3. ASSUME Posters(e)' \subseteq Posters(e),
             made' = made, kept'[e] = kept[e], posted'[e] = posted[e]
      PROVE  posted'[e] + Cardinality(Posters(e)') <= made' + kept'[e]
  <2>1. Cardinality(Posters(e)') \in Nat /\ Cardinality(Posters(e)') <= Cardinality(Posters(e))
    BY <1>2, <1>3, SmallerSet
  <2> QED
    BY <1>1, <1>2, <1>3, <2>1
<1>4. ASSUME UNCHANGED <<pc, batch, file, made, phase, kept, posted>>
      PROVE  posted'[e] + Cardinality(Posters(e)') <= made' + kept'[e]
  <2>1. Posters(e)' \subseteq Posters(e)
    BY <1>4 DEF Posters
  <2> QED
    BY <1>3, <1>4, <2>1
<1>5. ASSUME NEW d \in Events, CreateFile(d)
      PROVE  posted'[e] + Cardinality(Posters(e)') <= made' + kept'[e]
  <2>1. UNCHANGED <<pc, batch, made, phase, kept, posted>>
    BY <1>5 DEF CreateFile
  <2>2. CASE e = d
    <3>1. posted[e] = 0
      BY <1>1, <1>5, <2>2 DEF CreateFile, Received
    <3>2. Posters(e)' \subseteq 1..made
      BY <2>1 DEF Posters
    <3>3. IsFiniteSet(1..made) /\ Cardinality(1..made) = made
      BY <1>1, IntervalSize
    <3>4. Cardinality(Posters(e)') \in Nat /\ Cardinality(Posters(e)') <= made
      BY <3>2, <3>3, SmallerSet
    <3> QED
      BY <1>1, <2>1, <3>1, <3>4
  <2>3. CASE e # d
    <3>1. file'[e] = file[e]
      BY <1>5, <2>3 DEF CreateFile, StoreType
    <3>2. Posters(e)' \subseteq Posters(e)
      BY <2>1, <3>1 DEF Posters
    <3> QED
      BY <1>3, <2>1, <3>2
  <2> QED
    BY <2>2, <2>3
<1>6. ASSUME NEW d \in Events, WriteFile(d)
      PROVE  posted'[e] + Cardinality(Posters(e)') <= made' + kept'[e]
  <2>1. UNCHANGED <<pc, batch, made, phase, kept, posted>>
    BY <1>6 DEF WriteFile
  <2>2. file'[e] # "absent" => file[e] # "absent"
    BY <1>6 DEF WriteFile, StoreType
  <2>3. Posters(e)' \subseteq Posters(e)
    BY <2>1, <2>2 DEF Posters
  <2> QED
    BY <1>3, <2>1, <2>3
<1>7. ASSUME NEW i \in Targets, Stream(i)
      PROVE  posted'[e] + Cardinality(Posters(e)') <= made' + kept'[e]
  <2>0. \/ Posters(e)' \subseteq Posters(e)
        \/ Undeleted(i, e) /\ Posters(e)' \subseteq Posters(e) \cup {i}
    BY <1>7, PostersShrink
  <2>1. ~Undeleted(i, e) => Posters(e)' \subseteq Posters(e)
    BY <2>0
  <2>2. made' = made /\ phase' = phase /\ pc[i] # "stopped"
    BY <1>7, StreamFrame
  <2>u. CASE Undeleted(i, e)
    <3>1. Cardinality(Posters(e)') \in Nat /\ Cardinality(Posters(e)') <= Cardinality(Posters(e)) + 1
      <4>1. Posters(e)' \subseteq Posters(e) \cup {i}
        BY <2>0
      <4> QED
        BY <1>2, <4>1, OneMore
    <3> QED
      BY <1>1, <1>2, <2>2, <2>u, <3>1 DEF Undeleted
  <2>3. CASE PostOk(i) /\ ~Undeleted(i, e)
    <3>1. batch[i] \in Seq(Events) /\ batch[i] # <<>> /\ pc[i] = "post"
      BY <2>3 DEF PostOk, Batches, StreamType
    <3>2. Head(batch[i]) = batch[i][1] /\ batch[i][1] \in Events
      BY <3>1
    <3>3. CASE e = batch[i][1]
      <4>1. posted'[e] = posted[e] + 1 /\ kept'[e] = kept[e]
        BY <2>3, <3>2, <3>3 DEF PostOk, RecordType
      <4>2. i \in 1..made
        BY <2>2 DEF Phases, ReloadType
      <4>3. i \in Posters(e)
        BY <3>1, <3>3, <4>2 DEF Posters
      <4>4. pc'[i] = "del" /\ batch'[i][1] = e /\ ~(phase' = "init" /\ i = made')
        BY <2>2, <2>3, <3>3 DEF PostOk, StreamType, Phases
      <4>5. i \notin Posters(e)'
        BY <4>4 DEF Posters
      <4>6. Posters(e)' \subseteq Posters(e) \ {i}
        BY <2>1, <2>3, <4>5
      <4>7. Cardinality(Posters(e)') \in Nat /\ Cardinality(Posters(e)') + 1 <= Cardinality(Posters(e))
        BY <1>2, <4>3, <4>6, OneLess
      <4> QED
        BY <1>1, <1>2, <2>2, <4>1, <4>7
    <3>4. CASE e # batch[i][1]
      <4>1. posted'[e] = posted[e] /\ kept'[e] = kept[e]
        BY <2>3, <3>2, <3>4 DEF PostOk, RecordType
      <4> QED
        BY <1>3, <2>1, <2>2, <2>3, <4>1
    <3> QED
      BY <3>3, <3>4
  <2>4. CASE (PostFails(i) \/ PostRejected(i)) /\ ~Undeleted(i, e)
    <3>1. batch[i] \in Seq(Events) /\ batch[i] # <<>> /\ MayBeReceived(i)
      BY <2>4 DEF PostFails, PostRejected, Batches, StreamType
    <3>2. Head(batch[i]) \in Events
      BY <3>1
    <3>3. CASE posted'[e] = posted[e] /\ kept'[e] = kept[e]
      BY <1>3, <2>1, <2>2, <2>4, <3>3
    <3>4. CASE posted'[e] = posted[e] + 1 /\ kept'[e] = kept[e] + 1
      <4>1. Cardinality(Posters(e)') \in Nat /\ Cardinality(Posters(e)') <= Cardinality(Posters(e))
        BY <1>2, <2>1, <2>4, SmallerSet
      <4> QED
        BY <1>1, <1>2, <2>2, <3>4, <4>1
    <3> QED
      BY <3>1, <3>2, <3>3, <3>4 DEF MayBeReceived, RecordType
  <2>5. CASE DelSent(i) /\ ~Undeleted(i, e)
    <3>1. batch[i] \in Seq(Events) /\ batch[i] # <<>>
      BY <2>5 DEF DelSent, Batches, StreamType
    <3>2. Head(batch[i]) \in Events
      BY <3>1
    <3>3. UNCHANGED posted /\ kept'[e] = kept[e]
      BY <2>5, <3>2 DEF DelSent, Undeleted, RecordType
    <3> QED
      BY <1>3, <2>1, <2>2, <2>5, <3>3
  <2>6. CASE ~PostOk(i) /\ ~PostFails(i) /\ ~PostRejected(i) /\ ~DelSent(i)
    <3>1. UNCHANGED <<posted, kept>>
      BY <1>7, <2>6 DEF Stream, Top, CancelSeen, TakeKey, SendFromStore
    <3>2. Posters(e)' \subseteq Posters(e)
      BY <2>1, <2>6 DEF Undeleted
    <3> QED
      BY <1>3, <2>2, <3>1, <3>2
  <2> QED
    BY <2>u, <2>3, <2>4, <2>5, <2>6
<1>8. ASSUME Crash PROVE posted'[e] + Cardinality(Posters(e)') <= made' + kept'[e]
  <2>1. UNCHANGED <<made, posted, kept>> /\ phase' = "create"
    BY <1>8 DEF Crash
  <2>2. \A i \in 1..made : pc'[i] = "stopped"
    BY <1>8 DEF Crash, ReloadType
  <2>3. Posters(e)' \subseteq Posters(e)
    BY <2>1, <2>2 DEF Posters
  <2> QED
    BY <1>3, <2>1, <2>3
<1>9. ASSUME CreateTarget PROVE posted'[e] + Cardinality(Posters(e)') <= made' + kept'[e]
  <2>1. /\ made' = made + 1 /\ UNCHANGED <<pc, batch, file, posted, kept>>
        /\ made' \in Targets /\ made' > made
    BY <1>9 DEF CreateTarget, Phases, ReloadType
  <2>2. \A i \in 1..made' : i # made' => i \in 1..made
    BY <1>1, <2>1
  <2>3. Posters(e)' \subseteq Posters(e) \cup {made'}
    BY <2>1, <2>2 DEF Posters
  <2>4. Cardinality(Posters(e)') \in Nat /\ Cardinality(Posters(e)') <= Cardinality(Posters(e)) + 1
    BY <1>2, <2>3, OneMore
  <2> QED
    BY <1>1, <1>2, <2>1, <2>4
<1>10. ASSUME InitTarget PROVE posted'[e] + Cardinality(Posters(e)') <= made' + kept'[e]
  <2>1. /\ UNCHANGED <<made, batch, file, posted, kept>> /\ phase = "init" /\ phase' = "publish"
        /\ \A i \in Targets : i # made => pc'[i] = pc[i]
    BY <1>10 DEF InitTarget, StreamType
  <2>2. 1..made \subseteq Targets
    BY DEF ReloadType
  <2>3. Posters(e)' \subseteq Posters(e)
    BY <2>1, <2>2 DEF Posters
  <2> QED
    BY <1>3, <2>1, <2>3
<1>11. ASSUME Publish \/ Reload \/ CreateFails PROVE posted'[e] + Cardinality(Posters(e)') <= made' + kept'[e]
  <2>1. UNCHANGED <<made, pc, batch, file, posted, kept>> /\ phase' # "init"
    BY <1>11 DEF Publish, Reload, CreateFails
  <2>2. Posters(e)' \subseteq Posters(e)
    BY <2>1 DEF Posters
  <2> QED
    BY <1>3, <2>1, <2>2
<1> QED
  BY <1>4, <1>5, <1>6, <1>7, <1>8, <1>9, <1>10, <1>11 DEF Next, Save, Raise, CheckLimit, vars

LEMMA InFlightStep == ASSUME Base, Room, [Next]_vars PROVE Cardinality(InFlight') <= MaxInflight
<1> SaveType
  BY DEF Base, TypeOK
<1>1. IsFiniteSet(InFlight) /\ Cardinality(InFlight) \in Nat
  BY FiniteEvents DEF InFlight
<1>2. ASSUME NEW e \in Events, CheckLimit(e) PROVE Cardinality(InFlight') <= MaxInflight
  <2>1. InFlight' \subseteq InFlight \cup {e} /\ Cardinality(InFlight) < MaxInflight
    BY <1>2 DEF CheckLimit, InFlight, SaveType
  <2>2. Cardinality(InFlight') \in Nat /\ Cardinality(InFlight') <= Cardinality(InFlight) + 1
    BY <1>1, <2>1, OneMore
  <2> QED
    BY <1>1, <2>1, <2>2
<1>3. ASSUME InFlight' \subseteq InFlight PROVE Cardinality(InFlight') <= MaxInflight
  <2>1. Cardinality(InFlight') \in Nat /\ Cardinality(InFlight') <= Cardinality(InFlight)
    BY <1>1, <1>3, SmallerSet
  <2> QED
    BY <1>1, <2>1 DEF Room
<1>4. ASSUME NEW e \in Events, Raise(e) \/ CreateFile(e) \/ WriteFile(e) PROVE InFlight' \subseteq InFlight
  BY <1>4 DEF Raise, CreateFile, WriteFile, InFlight, SaveType
<1>5. ASSUME Crash PROVE InFlight' \subseteq InFlight
  BY <1>5 DEF Crash, InFlight
<1>6. ASSUME UNCHANGED saver PROVE InFlight' \subseteq InFlight
  BY <1>6 DEF InFlight
<1>7. ASSUME NEW i \in Targets, Stream(i) PROVE UNCHANGED saver
  BY <1>7, StreamFrame DEF Base
<1> QED
  BY <1>2, <1>3, <1>4, <1>5, <1>6, <1>7 DEF Next, Save, Reload, CreateTarget, CreateFails, InitTarget, Publish, vars

LEMMA RoomStep == ASSUME Base, Room, [Next]_vars PROVE Room'
<1> TypeOK /\ SaveType /\ StoreType /\ ReloadType /\ Phases /\ Batches /\ Saves /\ Knowledge
  BY DEF Base, TypeOK
<1>0. Cardinality(InFlight') <= MaxInflight
  BY InFlightStep
<1> SUFFICES ASSUME NEW i \in Targets, Saving(i)' # {}
             PROVE  Cardinality(entries'[i] \cup Saving(i)') < EntryLimit + MaxInflight
  BY <1>0 DEF Room
<1>1. /\ IsFiniteSet(entries[i]) /\ Cardinality(entries[i]) \in Nat
      /\ IsFiniteSet(Saving(i)) /\ IsFiniteSet(entries[i] \cup Saving(i))
  BY FiniteEvents DEF StoreType, Saving
<1>2. ASSUME Saving(i)' \subseteq Saving(i),
             entries'[i] \cup Saving(i)' \subseteq entries[i] \cup Saving(i)
      PROVE  Cardinality(entries'[i] \cup Saving(i)') < EntryLimit + MaxInflight
  <2>1. /\ Cardinality(entries'[i] \cup Saving(i)') \in Nat
        /\ Cardinality(entries[i] \cup Saving(i)) \in Nat
        /\ Cardinality(entries'[i] \cup Saving(i)') <= Cardinality(entries[i] \cup Saving(i))
    BY <1>1, <1>2, SmallerSet
  <2>2. Cardinality(entries[i] \cup Saving(i)) < EntryLimit + MaxInflight
    BY <1>2 DEF Room
  <2> QED
    BY <2>1, <2>2
<1>3. ASSUME UNCHANGED saveVars, entries'[i] \subseteq entries[i]
      PROVE  Cardinality(entries'[i] \cup Saving(i)') < EntryLimit + MaxInflight
  <2>1. Saving(i)' = Saving(i)
    BY <1>3 DEF Saving
  <2> QED
    BY <1>2, <1>3, <2>1
<1>4. ASSUME NEW e \in Events, CheckLimit(e)
      PROVE  Cardinality(entries'[i] \cup Saving(i)') < EntryLimit + MaxInflight
  <2>1. UNCHANGED entries
    BY <1>4 DEF CheckLimit
  <2>2. CASE i = via[e] /\ Cardinality(entries[via[e]]) < EntryLimit
    <3>1. IsFiniteSet(InFlight') /\ Cardinality(InFlight') \in Nat
      <4>1. InFlight' \subseteq Events
        BY DEF InFlight
      <4> QED
        BY <4>1, FiniteEvents
    <3>2. entries'[i] \cup Saving(i)' \subseteq entries[i] \cup InFlight'
      BY <2>1 DEF Saving, InFlight
    <3>3. /\ IsFiniteSet(entries[i] \cup InFlight')
          /\ Cardinality(entries[i] \cup InFlight') =
               Cardinality(entries[i]) + Cardinality(InFlight') - Cardinality(entries[i] \cap InFlight')
      BY <1>1, <3>1, FS_Union
    <3>4. Cardinality(entries[i] \cap InFlight') \in Nat
      <4>1. entries[i] \cap InFlight' \subseteq entries[i]
        OBVIOUS
      <4> QED
        BY <1>1, <4>1, SmallerSet
    <3>5. /\ Cardinality(entries'[i] \cup Saving(i)') \in Nat
          /\ Cardinality(entries'[i] \cup Saving(i)') <= Cardinality(entries[i] \cup InFlight')
      BY <3>2, <3>3, SmallerSet
    <3> QED
      BY <1>0, <1>1, <2>2, <3>1, <3>3, <3>4, <3>5
  <2>3. CASE ~(i = via[e] /\ Cardinality(entries[via[e]]) < EntryLimit)
    <3>1. i # via[e] \/ saver'[e] = "dropped"
      BY <1>4, <2>3 DEF CheckLimit, SaveType
    <3>2. Saving(i)' \subseteq Saving(i)
      BY <1>4, <3>1 DEF CheckLimit, Saving, SaveType
    <3> QED
      BY <1>2, <2>1, <3>2
  <2> QED
    BY <2>2, <2>3
<1>5. ASSUME NEW e \in Events, Raise(e) \/ CreateFile(e)
      PROVE  Cardinality(entries'[i] \cup Saving(i)') < EntryLimit + MaxInflight
  <2>1. UNCHANGED entries /\ Saving(i)' \subseteq Saving(i)
    BY <1>5 DEF Raise, CreateFile, Saving, SaveType
  <2> QED
    BY <1>2, <2>1
<1>6. ASSUME NEW e \in Events, WriteFile(e)
      PROVE  Cardinality(entries'[i] \cup Saving(i)') < EntryLimit + MaxInflight
  <2>1. Saving(i)' \subseteq Saving(i)
    BY <1>6 DEF WriteFile, Saving, SaveType
  <2>2. entries'[i] \subseteq entries[i] \cup Saving(i)
    BY <1>6 DEF WriteFile, Saving, StoreType
  <2> QED
    BY <1>2, <2>1, <2>2
<1>7. ASSUME NEW j \in Targets, Stream(j) PROVE UNCHANGED saveVars /\ entries'[i] \subseteq entries[i]
  <2>1. UNCHANGED saveVars
    BY <1>7, StreamFrame
  <2>2. entries'[i] \subseteq entries[i]
    BY <1>7, StreamShrinks
  <2> QED
    BY <2>1, <2>2
<1>8. ASSUME Crash PROVE FALSE
  BY <1>8 DEF Crash, Saving
<1>9. ASSUME CreateTarget PROVE UNCHANGED saveVars /\ entries'[i] \subseteq entries[i]
  <2>1. \A e \in Events : via'[e] <= made
    BY <1>9 DEF CreateTarget, Saves
  <2>2. i # made + 1
    BY <2>1 DEF Saving, ReloadType
  <2> QED
    BY <1>9, <2>2 DEF CreateTarget, StoreType
<1> QED
  BY <1>3, <1>4, <1>5, <1>6, <1>7, <1>8, <1>9 DEF Next, Save, Reload, CreateFails, InitTarget, Publish, vars

\* Only the insertion of a save that passed the check makes a map larger.
LEMMA Insertion ==
  ASSUME Base, Room, [Next]_vars, NEW i \in 1..made,
         Cardinality(entries'[i]) > Cardinality(entries[i])
  PROVE  Cardinality(entries'[i]) < EntryLimit + MaxInflight
<1> TypeOK /\ SaveType /\ StoreType /\ ReloadType /\ Phases /\ Batches /\ Knowledge
  BY DEF Base, TypeOK
<1>0. i \in Targets
  BY DEF ReloadType
<1>1. /\ IsFiniteSet(entries[i]) /\ Cardinality(entries[i]) \in Nat
      /\ IsFiniteSet(entries[i] \cup Saving(i))
  BY <1>0, FiniteEvents DEF StoreType, Saving
<1>2. ~(entries'[i] \subseteq entries[i])
  <2>1. SUFFICES ASSUME entries'[i] \subseteq entries[i] PROVE FALSE
    OBVIOUS
  <2>2. Cardinality(entries'[i]) \in Nat /\ Cardinality(entries'[i]) <= Cardinality(entries[i])
    BY <1>1, <2>1, SmallerSet
  <2> QED
    BY <1>1, <2>2
<1>3. ASSUME NEW e \in Events, WriteFile(e) PROVE Cardinality(entries'[i]) < EntryLimit + MaxInflight
  <2>1. via[e] = i
    BY <1>0, <1>2, <1>3 DEF WriteFile, StoreType
  <2>2. e \in Saving(i) /\ entries'[i] \subseteq entries[i] \cup Saving(i)
    BY <1>0, <1>3, <2>1 DEF WriteFile, Saving, StoreType
  <2>3. Cardinality(entries[i] \cup Saving(i)) < EntryLimit + MaxInflight
    BY <1>0, <2>2 DEF Room
  <2>4. /\ Cardinality(entries'[i]) \in Nat /\ Cardinality(entries[i] \cup Saving(i)) \in Nat
        /\ Cardinality(entries'[i]) <= Cardinality(entries[i] \cup Saving(i))
    BY <1>1, <2>2, SmallerSet
  <2> QED
    BY <2>3, <2>4
<1>4. ASSUME NEW j \in Targets, Stream(j) PROVE FALSE
  <2>1. entries'[i] \subseteq entries[i]
    BY <1>0, <1>4, StreamShrinks
  <2> QED
    BY <1>2, <2>1
<1>5. ASSUME CreateTarget PROVE FALSE
  BY <1>0, <1>2, <1>5 DEF CreateTarget, StoreType, ReloadType
<1>6. ASSUME Crash PROVE FALSE
  BY <1>0, <1>2, <1>6 DEF Crash
<1>7. ASSUME UNCHANGED entries PROVE FALSE
  BY <1>2, <1>7
<1> QED
  BY <1>3, <1>4, <1>5, <1>6, <1>7 DEF Next, Save, Raise, CheckLimit, CreateFile, Reload,
     CreateFails, InitTarget, Publish, vars

LEMMA CountsInit == ASSUME Init PROVE PhantomsPaid /\ CopiesPaid /\ Room
<1>1. PhantomsPaid
  BY DEF Init, PhantomsPaid
<1>2. CopiesPaid
  <2>1. \A e \in Events : Posters(e) = {}
    BY DEF Init, Posters
  <2>2. \A e \in Events : Cardinality(Posters(e)) = 0
    BY <2>1, FS_EmptySet
  <2>3. made = 0 /\ \A e \in Events : posted[e] = 0 /\ kept[e] = 0
    BY DEF Init
  <2> QED
    BY <2>2, <2>3 DEF CopiesPaid
<1>3. Room
  <2>1. InFlight = {} /\ \A i \in Targets : Saving(i) = {}
    BY DEF Init, InFlight, Saving
  <2> QED
    BY <2>1, FS_EmptySet DEF Room
<1> QED
  BY <1>1, <1>2, <1>3

LEMMA CountsHold == Spec => [](Base /\ PhantomsPaid /\ CopiesPaid /\ Room)
<1>1. ASSUME Base, PhantomsPaid, CopiesPaid, Room, [Next]_vars
      PROVE  PhantomsPaid' /\ CopiesPaid' /\ Room'
  BY <1>1, PhantomsPaidStep, CopiesPaidStep, RoomStep
<1> QED
  BY <1>1, BaseInit, BaseStep, CountsInit, PTL DEF Spec

\* Entries without a file, which nothing removes, are at most a batch for each
\* earlier target.
THEOREM FewPhantoms == Spec => []PhantomsBounded
<1>1. ASSUME Base, PhantomsPaid PROVE PhantomsBounded
  <2> TypeOK /\ ReloadType
    BY <1>1 DEF Base, TypeOK
  <2> SUFFICES ASSUME made > 0 PROVE Cardinality(Phantoms) <= BatchSize * (made - 1)
    BY DEF PhantomsBounded, Phantoms
  <2>1. Cardinality(Phantoms) \in Nat /\ Cardinality(Owed) \in Nat
    BY PhantomsFinite, OwedFinite, FS_CardinalityType
  <2>2. BatchSize * (made - 1) \in Int
    BY DEF ReloadType
  <2> QED
    BY <1>1, <2>1, <2>2 DEF PhantomsPaid
<1> QED
  BY <1>1, CountsHold, PTL

\* The endpoint receives an event at most once for each target made and each
\* time its file stayed although the endpoint had it.
THEOREM FewCopies == Spec => []CopiesBounded
<1>1. ASSUME Base, CopiesPaid PROVE CopiesBounded
  <2> ReloadType /\ RecordType
    BY <1>1 DEF Base, TypeOK
  <2> SUFFICES ASSUME NEW e \in Events PROVE posted[e] <= made + kept[e]
    BY DEF CopiesBounded
  <2>1. Cardinality(Posters(e)) \in Nat
    BY PostersFinite, FS_CardinalityType
  <2>2. posted[e] + Cardinality(Posters(e)) <= made + kept[e]
    BY <1>1 DEF CopiesPaid
  <2> QED
    BY <2>1, <2>2 DEF ReloadType, RecordType
<1> QED
  BY <1>1, CountsHold, PTL

\* Concurrent saves exceed the limit of their map by fewer entries than
\* send_limiter has permits.
THEOREM Insertions == Spec => StoreBounded
<1>1. ASSUME Base, Room, [Next]_vars
      PROVE  [\A i \in 1..made :
                Cardinality(entries'[i]) > Cardinality(entries[i]) =>
                  Cardinality(entries'[i]) < EntryLimit + MaxInflight]_vars
  BY <1>1, Insertion
<1> QED
  BY <1>1, CountsHold, PTL DEF Spec, StoreBounded

=============================================================================
