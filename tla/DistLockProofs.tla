--------------------------- MODULE DistLockProofs ---------------------------
(***************************************************************************)
(* Mutual exclusion of the quorum lock for any number of nodes, clients,   *)
(* processes, attempts, lost calls and abandoned acquisitions, as long as  *)
(* no lock server loses its memory (MaxRestarts = 0).                      *)
(***************************************************************************)
EXTENDS DistLock, FiniteSetTheorems, SequenceTheorems, TLAPS

USE DistLockAssumption DEF DistLockAssumption

LEMMA ReleaseAtType ==
  ASSUME TypeOK, NEW n \in Nodes, NEW g, ReleaseAt(n, g)
  PROVE  /\ guards' \in [Nodes -> SUBSET Guards]
         /\ faults' \in 0..MaxFaults
         /\ cancels' = cancels
         /\ restarts' = restarts
<1>1. CASE guards' = [guards EXCEPT ![n] = @ \ {g}] /\ UNCHANGED faultVars
  BY <1>1 DEF TypeOK, faultVars
<1>2. CASE CountFault /\ UNCHANGED <<guards, cancels, restarts>>
  BY <1>2 DEF TypeOK, CountFault
<1> QED
  BY <1>1, <1>2 DEF ReleaseAt

LEMMA SetCallType ==
  ASSUME TypeOK, NEW c \in Clients, NEW n \in Nodes, NEW s \in CallStates,
         SetCall(c, n, s)
  PROVE  call' \in [Clients -> [Nodes -> CallStates]]
BY DEF SetCall, TypeOK

\* Every reachable state is well typed.
THEOREM Typing == Spec => []TypeOK
<1>1. Init => TypeOK
  BY DEF Init, TypeOK, CallStates, Modes
<1>2. TypeOK /\ [Next]_vars => TypeOK'
  <2> SUFFICES ASSUME TypeOK, [Next]_vars PROVE TypeOK'
    OBVIOUS
  <2>0. \A c \in Clients : GuardOf(c) \in Guards
    BY DEF GuardOf, Guards, TypeOK
  <2>1. ASSUME NEW c \in Clients, NEW m \in Modes, Begin(c, m) PROVE TypeOK'
    BY <2>1 DEF Begin, TypeOK, CallStates, unlockVars, faultVars
  <2>2. ASSUME NEW c \in Clients, NEW n \in Nodes, Grant(c, n) PROVE TypeOK'
    <3>1. guards' \in [Nodes -> SUBSET Guards]
      BY <2>0, <2>2 DEF Grant, TypeOK
    <3>2. call' \in [Clients -> [Nodes -> CallStates]]
      BY <2>2, SetCallType DEF Grant, CallStates
    <3> QED
      BY <2>2, <3>1, <3>2 DEF Grant, TypeOK, unlockVars, faultVars
  <2>3. ASSUME NEW c \in Clients, NEW n \in Nodes, Refuse(c, n) \/ Reply(c, n)
        PROVE TypeOK'
    <3>1. call' \in [Clients -> [Nodes -> CallStates]]
      BY <2>3, SetCallType DEF Refuse, Reply, CallStates
    <3> QED
      BY <2>3, <3>1 DEF Refuse, Reply, TypeOK, unlockVars, faultVars
  <2>4. ASSUME NEW c \in Clients, Decide(c) PROVE TypeOK'
    BY <2>4 DEF Decide, DecideWith, Outcome, Locked, NoCalls, TypeOK, CallStates,
                unlockVars, faultVars
  <2>5. ASSUME NEW c \in Clients, Rollback(c) PROVE TypeOK'
    <3>1. PICK n \in entries[c] :
            /\ ReleaseAt(n, GuardOf(c))
            /\ entries' = [entries EXCEPT ![c] = @ \ {n}]
            /\ pc' = [pc EXCEPT ![c] = IF entries[c] = {n} THEN "idle" ELSE @]
      BY <2>5 DEF Rollback
    <3>2. n \in Nodes
      BY DEF TypeOK
    <3> QED
      BY <2>5, <3>1, <3>2, ReleaseAtType DEF Rollback, TypeOK, unlockVars
  <2>6. ASSUME NEW c \in Clients, Drop(c) PROVE TypeOK'
    <3>1. Job(c) \in SUBSET Releases
      BY <2>0 DEF Job, Releases, TypeOK
    <3>2. ProcOf[c] \in Procs
      OBVIOUS
    <3>3. queue' \in [Procs -> Seq(SUBSET Releases)]
      <4>1. Append(queue[ProcOf[c]], Job(c)) \in Seq(SUBSET Releases)
        BY <3>1, <3>2 DEF TypeOK
      <4> QED
        BY <2>6, <3>2, <4>1 DEF Drop, TypeOK
    <3>4. detached' \in SUBSET Releases
      BY <2>6, <3>1 DEF Drop, TypeOK
    <3> QED
      BY <2>6, <3>1, <3>2, <3>3, <3>4 DEF Drop, TypeOK, faultVars
  <2>7. ASSUME NEW c \in Clients, NEW n \in Nodes, CallFails(c, n) PROVE TypeOK'
    <3>1. late' \in SUBSET Releases
      BY <2>0, <2>7 DEF CallFails, TypeOK, Releases
    <3>2. call' \in [Clients -> [Nodes -> CallStates]]
      BY <2>7, SetCallType DEF CallFails, CallStates
    <3>3. faults' \in 0..MaxFaults
      BY <2>7 DEF CallFails, CountFault, TypeOK
    <3> QED
      BY <2>7, <3>1, <3>2, <3>3 DEF CallFails, TypeOK, unlockVars
  <2>8. ASSUME NEW c \in Clients, Cancel(c) PROVE TypeOK'
    <3>1. late' \in SUBSET Releases
      BY <2>0, <2>8 DEF Cancel, TypeOK, Releases
    <3>2. call' \in [Clients -> [Nodes -> CallStates]]
      BY <2>8 DEF Cancel, NoCalls, TypeOK, CallStates
    <3>3. cancels' \in 0..MaxCancels
      BY <2>8 DEF Cancel, TypeOK
    <3> QED
      BY <2>8, <3>1, <3>2, <3>3 DEF Cancel, TypeOK, unlockVars
  <2>9. ASSUME NEW l \in late, LateGrant(l) \/ LateTimeout(l) PROVE TypeOK'
    <3>1. l.node \in Nodes /\ l.guard \in Guards
      BY DEF TypeOK, Releases
    <3>a. guards[l.node] \cup {l.guard} \in SUBSET Guards /\ guards \in [Nodes -> SUBSET Guards]
      BY <3>1 DEF TypeOK
    <3>b. guards' \in [Nodes -> SUBSET Guards]
      BY <2>9, <3>a DEF LateGrant, LateTimeout
    <3>2. guards' \in [Nodes -> SUBSET Guards] /\ late' \in SUBSET Releases
      BY <2>9, <3>b DEF LateGrant, LateTimeout, TypeOK
    <3> QED
      BY <2>9, <3>2 DEF LateGrant, LateTimeout, TypeOK, clientVars, unlockVars, faultVars
  <2>10. ASSUME NEW p \in Procs, Worker(p) PROVE TypeOK'
    <3>1. PICK r \in Head(queue[p]) :
            /\ ReleaseAt(r.node, r.guard)
            /\ queue' = [queue EXCEPT ![p] = IF Head(@) = {r} THEN Tail(@)
                                             ELSE <<Head(@) \ {r}>> \o Tail(@)]
      BY <2>10 DEF Worker
    <3>2. queue[p] \in Seq(SUBSET Releases) /\ queue[p] # <<>>
      BY <2>10 DEF Worker, TypeOK
    <3>3. Head(queue[p]) \in SUBSET Releases /\ Tail(queue[p]) \in Seq(SUBSET Releases)
      BY <3>2
    <3>4. r.node \in Nodes
      BY <3>3 DEF Releases
    <3>5. <<Head(queue[p]) \ {r}>> \o Tail(queue[p]) \in Seq(SUBSET Releases)
      BY <3>3
    <3>6. queue' \in [Procs -> Seq(SUBSET Releases)]
      BY <3>1, <3>3, <3>5 DEF TypeOK
    <3> QED
      BY <2>10, <3>1, <3>4, <3>6, ReleaseAtType DEF Worker, TypeOK, clientVars
  <2>11. ASSUME NEW r \in detached, DetachedRelease(r) PROVE TypeOK'
    <3>1. r.node \in Nodes
      BY DEF TypeOK, Releases
    <3> QED
      BY <2>11, <3>1, ReleaseAtType DEF DetachedRelease, TypeOK, clientVars
  <2>12. ASSUME NEW n \in Nodes, Restart(n) PROVE TypeOK'
    BY <2>12 DEF Restart, TypeOK, CallStates, unlockVars
  <2>13. CASE UNCHANGED vars
    BY <2>13 DEF vars, clientVars, unlockVars, faultVars, TypeOK
  <2> QED
    BY <2>1, <2>2, <2>3, <2>4, <2>5, <2>6, <2>7, <2>8, <2>9, <2>10, <2>11, <2>12,
       <2>13 DEF Next, ClientStep
<1> QED
  BY <1>1, <1>2, PTL DEF Spec

-----------------------------------------------------------------------------
\* A release removes nothing but the guard it names.
LEMMA ReleaseAtRemoves ==
  ASSUME TypeOK, NEW n \in Nodes, NEW g, ReleaseAt(n, g), NEW k \in Nodes
  PROVE  /\ guards'[k] \subseteq guards[k]
         /\ \A h \in guards[k] : h # g => h \in guards'[k]
BY DEF ReleaseAt, TypeOK, CountFault, faultVars

\* A stale release never names the guard of a client that is at work.
LEMMA StaleNamesNoActive ==
  ASSUME TypeOK, NEW r \in Releases, Stale(r), NEW c \in Clients, pc[c] # "idle"
  PROVE  GuardOf(c) # r.guard
BY DEF TypeOK, Stale, GuardOf, Releases, Guards

\* Two guards of different clients are different.
LEMMA GuardsDiffer ==
  ASSUME NEW c \in Clients, NEW d \in Clients, c # d
  PROVE  GuardOf(c) # GuardOf(d)
BY DEF GuardOf

\* Releasing a guard that no client counts on keeps the stored-guard parts.
LEMMA StaleReleaseKeeps ==
  ASSUME TypeOK, Inductive, UNCHANGED clientVars,
         NEW r \in Releases, Stale(r), ReleaseAt(r.node, r.guard)
  PROVE  (NodesExclude /\ CallsOfAcquirers /\ CallsStored /\ EntriesStored /\ HeldQuorum)'
<1>0. r.node \in Nodes
  BY DEF Releases
<1>1. \A k \in Nodes : /\ guards'[k] \subseteq guards[k]
                       /\ \A h \in guards[k] : h # r.guard => h \in guards'[k]
  BY <1>0, ReleaseAtRemoves
<1>2. \A c \in Clients : pc[c] # "idle" => GuardOf(c) # r.guard
  BY StaleNamesNoActive
<1>3. \A c \in Clients : GuardOf(c)' = GuardOf(c)
  BY DEF GuardOf, clientVars
<1>4. NodesExclude'
  BY <1>1 DEF NodesExclude, Inductive
<1>5. CallsOfAcquirers'
  BY DEF CallsOfAcquirers, Inductive, clientVars
<1>6. CallsStored'
  BY <1>1, <1>2, <1>3 DEF CallsStored, CallsOfAcquirers, Inductive, clientVars
<1>7. EntriesStored'
  <2> SUFFICES ASSUME NEW c \in Clients, NEW n \in entries[c]
               PROVE  pc[c] \in {"rollback", "held"} /\ GuardOf(c) \in guards'[n]
    BY <1>3 DEF EntriesStored, clientVars
  <2>1. n \in Nodes
    BY DEF TypeOK
  <2>2. pc[c] \in {"rollback", "held"} /\ GuardOf(c) \in guards[n]
    BY DEF EntriesStored, Inductive
  <2> QED
    BY <1>1, <1>2, <2>1, <2>2
<1>8. HeldQuorum'
  BY DEF HeldQuorum, Inductive, clientVars
<1> QED
  BY <1>4, <1>5, <1>6, <1>7, <1>8

\* Every step keeps the inductive invariant while no server restarts.
LEMMA InductiveStep ==
  ASSUME MaxRestarts = 0, TypeOK, TypeOK', Inductive, [Next]_vars
  PROVE  Inductive'
<1> USE DEF Inductive
<1>1. ASSUME NEW c \in Clients, NEW m \in Modes, Begin(c, m) PROVE Inductive'
  <2>1. entries[c] = {}
    BY <1>1 DEF Begin, EntriesStored, TypeOK
  <2>2. \A d \in Clients : d # c =>
          GuardOf(d)' = GuardOf(d) /\ pc'[d] = pc[d] /\ call'[d] = call[d] /\ attempt'[d] = attempt[d]
    BY <1>1 DEF Begin, GuardOf, TypeOK
  <2>3. pc'[c] = "acquiring" /\ call'[c] = [n \in Nodes |-> "sent"] /\ attempt'[c] = attempt[c] + 1
    BY <1>1 DEF Begin, TypeOK
  <2>4. entries' = entries /\ guards' = guards /\ queue' = queue /\ detached' = detached
    BY <1>1 DEF Begin, unlockVars
  <2>5. ASSUME NEW r \in Releases, Stale(r) PROVE Stale(r)'
    BY <2>2, <2>3, <2>5, <1>1 DEF Stale, TypeOK, Releases, Guards, Begin
  <2>6. NodesExclude' /\ CallsOfAcquirers' /\ CallsStored'
    BY <2>2, <2>3, <2>4 DEF NodesExclude, CallsOfAcquirers, CallsStored
  <2>7. EntriesStored' /\ HeldQuorum'
    BY <2>1, <2>2, <2>3, <2>4 DEF EntriesStored, HeldQuorum
  <2>8. ReleasesStale'
    BY <2>4, <2>5 DEF ReleasesStale, TypeOK
  <2> QED
    BY <2>6, <2>7, <2>8
<1>2. ASSUME NEW c \in Clients, NEW n \in Nodes, Grant(c, n) PROVE Inductive'
  <2>1. /\ pc' = pc /\ entries' = entries /\ queue' = queue /\ detached' = detached
        /\ mode' = mode /\ attempt' = attempt
        /\ guards' = [guards EXCEPT ![n] = @ \cup {GuardOf(c)}]
        /\ call' = [call EXCEPT ![c][n] = "granted"]
        /\ Compatible(n, mode[c])
        /\ call[c][n] = "sent"
    BY <1>2 DEF Grant, SetCall, unlockVars
  <2>2. \A d \in Clients : GuardOf(d)' = GuardOf(d)
    BY <2>1 DEF GuardOf
  <2>3. \A k \in Nodes : guards[k] \subseteq guards'[k]
    BY <2>1 DEF TypeOK
  <2>4. NodesExclude'
    BY <2>1 DEF NodesExclude, Compatible, TypeOK, GuardOf
  <2>5. CallsOfAcquirers'
    BY <2>1 DEF CallsOfAcquirers, TypeOK
  <2>6. CallsStored'
    <3> SUFFICES ASSUME NEW d \in Clients, NEW k \in Nodes, call'[d][k] \in {"granted", "ok"}
                 PROVE  GuardOf(d) \in guards'[k]
      BY <2>2 DEF CallsStored
    <3>1. CASE d = c /\ k = n
      BY <2>1, <3>1 DEF TypeOK
    <3>2. CASE ~(d = c /\ k = n)
      <4>1. call[d][k] \in {"granted", "ok"}
        BY <2>1, <3>2 DEF TypeOK
      <4> QED
        BY <4>1, <2>3 DEF CallsStored
    <3> QED
      BY <3>1, <3>2
  <2>7. EntriesStored' /\ HeldQuorum' /\ ReleasesStale'
    BY <2>1, <2>2, <2>3 DEF EntriesStored, HeldQuorum, ReleasesStale, Stale, TypeOK
  <2> QED
    BY <2>4, <2>5, <2>6, <2>7
<1>3. ASSUME NEW c \in Clients, NEW n \in Nodes, Refuse(c, n) \/ Reply(c, n) \/ CallFails(c, n)
      PROVE Inductive'
  <2>1. /\ pc' = pc /\ entries' = entries /\ queue' = queue /\ detached' = detached
        /\ mode' = mode /\ attempt' = attempt /\ guards' = guards
    BY <1>3 DEF Refuse, Reply, CallFails, unlockVars
  <2>2. \/ call' = [call EXCEPT ![c][n] = "failed"] /\ call[c][n] # "none"
        \/ call' = [call EXCEPT ![c][n] = "ok"] /\ call[c][n] = "granted"
    BY <1>3 DEF Refuse, Reply, CallFails, SetCall
  <2>3. \A d \in Clients : GuardOf(d)' = GuardOf(d)
    BY <2>1 DEF GuardOf
  <2>4. NodesExclude' /\ EntriesStored' /\ HeldQuorum' /\ ReleasesStale'
    BY <2>1, <2>3 DEF NodesExclude, EntriesStored, HeldQuorum, ReleasesStale, Stale
  <2>5. ASSUME NEW d \in Clients, NEW k \in Nodes
        PROVE  /\ call'[d][k] # "none" => call[d][k] # "none"
               /\ call'[d][k] \in {"granted", "ok"} => call[d][k] \in {"granted", "ok"}
    <3>1. CASE d = c /\ k = n
      BY <2>2, <3>1 DEF TypeOK
    <3>2. CASE ~(d = c /\ k = n)
      <4>1. call'[d][k] = call[d][k]
        BY <2>2, <3>2 DEF TypeOK
      <4> QED
        BY <4>1
    <3> QED
      BY <3>1, <3>2
  <2>6. CallsOfAcquirers' /\ CallsStored'
    BY <2>1, <2>3, <2>5 DEF CallsOfAcquirers, CallsStored
  <2> QED
    BY <2>4, <2>6
<1>4. ASSUME NEW c \in Clients, Decide(c) PROVE Inductive'
  <2>1. /\ pc[c] = "acquiring"
        /\ pc' = [pc EXCEPT ![c] = Outcome(c, Quorum)]
        /\ entries' = [entries EXCEPT ![c] = Locked(c)]
        /\ call' = [call EXCEPT ![c] = NoCalls]
        /\ mode' = mode /\ attempt' = attempt /\ guards' = guards
        /\ queue' = queue /\ detached' = detached
    BY <1>4 DEF Decide, DecideWith, unlockVars
  <2>2. \A d \in Clients : GuardOf(d)' = GuardOf(d)
    BY <2>1 DEF GuardOf
  <2>3. NodesExclude' /\ CallsOfAcquirers' /\ CallsStored'
    BY <2>1, <2>2 DEF NodesExclude, CallsOfAcquirers, CallsStored, NoCalls, TypeOK
  <2>4. EntriesStored'
    <3> SUFFICES ASSUME NEW d \in Clients, NEW k \in entries'[d]
                 PROVE  pc'[d] \in {"rollback", "held"} /\ GuardOf(d) \in guards[k]
      BY <2>1, <2>2 DEF EntriesStored
    <3>1. CASE d = c
      <4>1. k \in Locked(c)
        BY <2>1, <3>1 DEF TypeOK
      <4>2. pc'[c] \in {"rollback", "held"}
        BY <2>1, <4>1 DEF Outcome, TypeOK
      <4> QED
        BY <3>1, <4>1, <4>2 DEF Locked, CallsStored
    <3>2. CASE d # c
      BY <2>1, <3>2 DEF EntriesStored, TypeOK
    <3> QED
      BY <3>1, <3>2
  <2>5. HeldQuorum'
    <3> SUFFICES ASSUME NEW d \in Clients, pc'[d] = "held"
                 PROVE  Cardinality(entries'[d]) >= Quorum
      BY DEF HeldQuorum
    <3>1. CASE d = c
      BY <2>1, <3>1 DEF Outcome, TypeOK
    <3>2. CASE d # c
      BY <2>1, <3>2 DEF HeldQuorum, TypeOK
    <3> QED
      BY <3>1, <3>2
  <2>6. ReleasesStale'
    <3>1. ASSUME NEW r \in Releases, Stale(r) PROVE Stale(r)'
      BY <2>1, <3>1 DEF Stale, TypeOK, Releases, Guards
    <3> QED
      BY <2>1, <3>1 DEF ReleasesStale, TypeOK
  <2> QED
    BY <2>3, <2>4, <2>5, <2>6
<1>5. ASSUME NEW c \in Clients, Rollback(c) PROVE Inductive'
  <2>1. PICK n \in entries[c] :
          /\ ReleaseAt(n, GuardOf(c))
          /\ entries' = [entries EXCEPT ![c] = @ \ {n}]
          /\ pc' = [pc EXCEPT ![c] = IF entries[c] = {n} THEN "idle" ELSE @]
    BY <1>5 DEF Rollback
  <2>2. /\ pc[c] = "rollback" /\ call' = call /\ mode' = mode /\ attempt' = attempt
        /\ queue' = queue /\ detached' = detached /\ n \in Nodes
    BY <1>5 DEF Rollback, unlockVars, TypeOK
  <2>3. \A d \in Clients : GuardOf(d)' = GuardOf(d)
    BY <2>2 DEF GuardOf
  <2>4. \A k \in Nodes : /\ guards'[k] \subseteq guards[k]
                         /\ \A h \in guards[k] : h # GuardOf(c) => h \in guards'[k]
    BY <2>1, <2>2, ReleaseAtRemoves
  <2>5. \A k \in Nodes : k # n => guards'[k] = guards[k]
    BY <2>1, <2>2 DEF ReleaseAt, TypeOK
  <2>6. \A k \in Nodes : call[c][k] = "none"
    BY <2>2 DEF CallsOfAcquirers
  <2>7. NodesExclude' /\ CallsOfAcquirers'
    BY <2>1, <2>2, <2>4, <2>6 DEF NodesExclude, CallsOfAcquirers, TypeOK
  <2>8. CallsStored'
    BY <2>2, <2>3, <2>4, <2>6, GuardsDiffer DEF CallsStored
  <2>9. EntriesStored'
    <3> SUFFICES ASSUME NEW d \in Clients, NEW k \in entries'[d]
                 PROVE  pc'[d] \in {"rollback", "held"} /\ GuardOf(d) \in guards'[k]
      BY <2>3 DEF EntriesStored
    <3>0. k \in Nodes
      BY DEF TypeOK
    <3>1. CASE d = c
      <4>1. k \in entries[c] /\ k # n
        BY <2>1, <3>1 DEF TypeOK
      <4> QED
        BY <2>1, <2>2, <2>5, <3>0, <3>1, <4>1 DEF EntriesStored, TypeOK
    <3>2. CASE d # c
      <4>1. k \in entries[d] /\ pc'[d] = pc[d]
        BY <2>1, <3>2 DEF TypeOK
      <4> QED
        BY <2>4, <3>0, <3>2, <4>1, GuardsDiffer DEF EntriesStored
    <3> QED
      BY <3>1, <3>2
  <2>10. HeldQuorum'
    BY <2>1, <2>2 DEF HeldQuorum, TypeOK
  <2>11. ReleasesStale'
    <3>1. ASSUME NEW r \in Releases, Stale(r) PROVE Stale(r)'
      BY <2>1, <2>2, <3>1 DEF Stale, TypeOK, Releases, Guards
    <3> QED
      BY <2>2, <3>1 DEF ReleasesStale, TypeOK
  <2> QED
    BY <2>7, <2>8, <2>9, <2>10, <2>11
<1>6. ASSUME NEW c \in Clients, Cancel(c) PROVE Inductive'
  <2>1. /\ pc[c] \in {"acquiring", "rollback"}
        /\ pc' = [pc EXCEPT ![c] = "idle"]
        /\ entries' = [entries EXCEPT ![c] = {}]
        /\ call' = [call EXCEPT ![c] = NoCalls]
        /\ mode' = mode /\ attempt' = attempt /\ guards' = guards
        /\ queue' = queue /\ detached' = detached
    BY <1>6 DEF Cancel, unlockVars
  <2>2. \A d \in Clients : GuardOf(d)' = GuardOf(d)
    BY <2>1 DEF GuardOf
  <2>3. NodesExclude' /\ CallsOfAcquirers' /\ CallsStored'
    BY <2>1, <2>2 DEF NodesExclude, CallsOfAcquirers, CallsStored, NoCalls, TypeOK
  <2>4. EntriesStored' /\ HeldQuorum'
    BY <2>1, <2>2 DEF EntriesStored, HeldQuorum, TypeOK
  <2>5. ReleasesStale'
    <3>1. ASSUME NEW r \in Releases, Stale(r) PROVE Stale(r)'
      BY <2>1, <3>1 DEF Stale, TypeOK, Releases, Guards
    <3> QED
      BY <2>1, <3>1 DEF ReleasesStale, TypeOK
  <2> QED
    BY <2>3, <2>4, <2>5
<1>7. ASSUME NEW c \in Clients, Drop(c) PROVE Inductive'
  <2>1. /\ pc[c] = "held"
        /\ pc' = [pc EXCEPT ![c] = "idle"]
        /\ entries' = [entries EXCEPT ![c] = {}]
        /\ call' = call /\ mode' = mode /\ attempt' = attempt /\ guards' = guards
    BY <1>7 DEF Drop
  <2>2. \A d \in Clients : GuardOf(d)' = GuardOf(d)
    BY <2>1 DEF GuardOf
  <2>3. NodesExclude' /\ CallsOfAcquirers' /\ CallsStored'
    BY <2>1, <2>2 DEF NodesExclude, CallsOfAcquirers, CallsStored, TypeOK
  <2>4. EntriesStored' /\ HeldQuorum'
    BY <2>1, <2>2 DEF EntriesStored, HeldQuorum, TypeOK
  <2>5. ASSUME NEW r \in Releases, Stale(r) PROVE Stale(r)'
    BY <2>1, <2>5 DEF Stale, TypeOK, Releases, Guards
  <2>6. \A r \in Job(c) : Stale(r)'
    BY <2>1 DEF Job, Stale, GuardOf, TypeOK
  <2>7. \A r \in detached' : Stale(r)'
    <3> SUFFICES ASSUME NEW r \in detached' PROVE Stale(r)'
      OBVIOUS
    <3>1. r \in detached \/ r \in Job(c)
      BY <1>7 DEF Drop
    <3> QED
      BY <2>5, <2>6, <3>1 DEF ReleasesStale, TypeOK
  <2>8. ASSUME NEW p \in Procs, NEW i \in 1..Len(queue'[p]), NEW r \in queue'[p][i]
        PROVE  Stale(r)'
    <3>1. CASE queue' = queue
      <4>1. r \in Releases /\ Stale(r)
        BY <3>1 DEF ReleasesStale, TypeOK
      <4> QED
        BY <2>5, <4>1
    <3>2. CASE queue' = [queue EXCEPT ![ProcOf[c]] = Append(@, Job(c))]
      <4>1. CASE p # ProcOf[c]
        <5>1. r \in Releases /\ Stale(r)
          BY <3>2, <4>1 DEF ReleasesStale, TypeOK
        <5> QED
          BY <2>5, <5>1
      <4>2. CASE p = ProcOf[c]
        <5>1. queue[p] \in Seq(SUBSET Releases) /\ queue'[p] = Append(queue[p], Job(c))
          BY <3>2, <4>2 DEF TypeOK
        <5>2. CASE i = Len(queue[p]) + 1
          BY <2>6, <5>1, <5>2
        <5>3. CASE i # Len(queue[p]) + 1
          <6>1. i \in 1..Len(queue[p]) /\ queue'[p][i] = queue[p][i]
            BY <5>1, <5>3
          <6>2. r \in Releases /\ Stale(r)
            BY <6>1, <5>1 DEF ReleasesStale
          <6> QED
            BY <2>5, <6>2
        <5> QED
          BY <5>2, <5>3
      <4> QED
        BY <4>1, <4>2
    <3> QED
      BY <1>7, <3>1, <3>2 DEF Drop
  <2>9. ReleasesStale'
    BY <2>7, <2>8 DEF ReleasesStale
  <2> QED
    BY <2>3, <2>4, <2>9
<1>8. ASSUME NEW l \in late, LateGrant(l) \/ LateTimeout(l) PROVE Inductive'
  <2>1. /\ UNCHANGED clientVars /\ queue' = queue /\ detached' = detached
        /\ l.node \in Nodes /\ l.guard \in Guards
        /\ \/ guards' = guards
           \/ /\ guards' = [guards EXCEPT ![l.node] = @ \cup {l.guard}]
              /\ Compatible(l.node, l.guard.mode)
    BY <1>8 DEF LateGrant, LateTimeout, unlockVars, TypeOK, Releases
  <2>2. \A d \in Clients : GuardOf(d)' = GuardOf(d)
    BY <2>1 DEF GuardOf, clientVars
  <2>3. \A k \in Nodes : guards[k] \subseteq guards'[k]
    BY <2>1 DEF TypeOK
  <2>4. NodesExclude'
    <3>1. CASE guards' = guards
      BY <3>1 DEF NodesExclude
    <3>2. CASE /\ guards' = [guards EXCEPT ![l.node] = @ \cup {l.guard}]
               /\ Compatible(l.node, l.guard.mode)
      <4>1. \A k \in Nodes : k # l.node => guards'[k] = guards[k]
        BY <3>2 DEF TypeOK
      <4>2. guards'[l.node] = guards[l.node] \cup {l.guard}
        BY <2>1, <3>2 DEF TypeOK
      <4>3. \A g \in guards[l.node] : g.mode = "Shared" /\ l.guard.mode = "Shared"
        BY <3>2 DEF Compatible
      <4> QED
        BY <4>1, <4>2, <4>3 DEF NodesExclude
    <3> QED
      BY <2>1, <3>1, <3>2
  <2>5. CallsOfAcquirers' /\ CallsStored'
    BY <2>1, <2>2, <2>3 DEF CallsOfAcquirers, CallsStored, clientVars
  <2>6. EntriesStored' /\ HeldQuorum' /\ ReleasesStale'
    BY <2>1, <2>2, <2>3 DEF EntriesStored, HeldQuorum, ReleasesStale, Stale, TypeOK, clientVars
  <2> QED
    BY <2>4, <2>5, <2>6
<1>9. ASSUME NEW p \in Procs, Worker(p) PROVE Inductive'
  <2>1. PICK r \in Head(queue[p]) :
          /\ ReleaseAt(r.node, r.guard)
          /\ queue' = [queue EXCEPT ![p] = IF Head(@) = {r} THEN Tail(@)
                                           ELSE <<Head(@) \ {r}>> \o Tail(@)]
    BY <1>9 DEF Worker
  <2>2. queue[p] \in Seq(SUBSET Releases) /\ queue[p] # <<>>
    BY <1>9 DEF Worker, TypeOK
  <2>3. UNCHANGED clientVars /\ detached' = detached
    BY <1>9 DEF Worker
  <2>4. r \in Releases /\ Stale(r)
    <3>1. Head(queue[p]) = queue[p][1] /\ 1 \in 1..Len(queue[p]) /\ queue[p][1] \in SUBSET Releases
      BY <2>2
    <3> QED
      BY <3>1 DEF ReleasesStale
  <2>5. (NodesExclude /\ CallsOfAcquirers /\ CallsStored /\ EntriesStored /\ HeldQuorum)'
    BY <2>1, <2>3, <2>4, StaleReleaseKeeps
  <2>6. ASSUME NEW i \in 1..Len(queue'[p]), NEW q \in queue'[p][i]
        PROVE  \E j \in 1..Len(queue[p]) : q \in queue[p][j]
    <3>1. CASE queue'[p] = Tail(queue[p])
      BY <2>2, <2>6, <3>1
    <3>2. CASE queue'[p] = <<Head(queue[p]) \ {r}>> \o Tail(queue[p])
      <4>1. CASE i = 1
        BY <2>2, <2>6, <3>2, <4>1
      <4>2. CASE i # 1
        <5>1. i \in 1..Len(queue[p]) /\ queue'[p][i] = queue[p][i]
          BY <2>2, <3>2, <4>2
        <5> QED
          BY <5>1
      <4> QED
        BY <4>1, <4>2
    <3> QED
      BY <2>1, <3>1, <3>2 DEF TypeOK
  <2>7. \A q : Stale(q)' = Stale(q)
    BY <2>3 DEF Stale, clientVars
  <2>8. ReleasesStale'
    <3>1. \A k \in Procs : k # p => queue'[k] = queue[k]
      BY <2>1 DEF TypeOK
    <3> QED
      BY <2>3, <2>6, <2>7, <3>1 DEF ReleasesStale
  <2> QED
    BY <2>5, <2>8
<1>10. ASSUME NEW r \in detached, DetachedRelease(r) PROVE Inductive'
  <2>1. /\ UNCHANGED clientVars /\ queue' = queue /\ detached' = detached \ {r}
        /\ ReleaseAt(r.node, r.guard) /\ r \in Releases /\ Stale(r)
    BY <1>10 DEF DetachedRelease, TypeOK, ReleasesStale
  <2>2. (NodesExclude /\ CallsOfAcquirers /\ CallsStored /\ EntriesStored /\ HeldQuorum)'
    BY <2>1, StaleReleaseKeeps
  <2>3. \A q : Stale(q)' = Stale(q)
    BY <2>1 DEF Stale, clientVars
  <2>4. ReleasesStale'
    BY <2>1, <2>3 DEF ReleasesStale
  <2> QED
    BY <2>2, <2>4
<1>11. ASSUME NEW n \in Nodes, Restart(n) PROVE FALSE
  BY <1>11 DEF Restart, TypeOK
<1>12. CASE UNCHANGED vars
  <2>1. \A c \in Clients : GuardOf(c)' = GuardOf(c)
    BY <1>12 DEF GuardOf, vars, clientVars
  <2> QED
    BY <1>12, <2>1 DEF vars, clientVars, unlockVars, NodesExclude, CallsOfAcquirers, CallsStored,
               EntriesStored, HeldQuorum, ReleasesStale, Stale
<1> QED
  BY <1>1, <1>2, <1>3, <1>4, <1>5, <1>6, <1>7, <1>8, <1>9, <1>10, <1>11, <1>12
     DEF Next, ClientStep

-----------------------------------------------------------------------------
LEMMA InductiveInit == Init => Inductive
BY DEF Init, Inductive, NodesExclude, CallsOfAcquirers, CallsStored, EntriesStored,
       HeldQuorum, ReleasesStale

\* The inductive invariant holds in every state reached without a restart.
THEOREM Invariance == ASSUME MaxRestarts = 0 PROVE Spec => []Inductive
<1>1. TypeOK /\ TypeOK' /\ Inductive /\ [Next]_vars => Inductive'
  BY InductiveStep
<1> QED
  BY <1>1, InductiveInit, Typing, PTL DEF Spec

\* Two quorums of nodes have a node in common.
LEMMA QuorumsIntersect ==
  ASSUME NEW S \in SUBSET Nodes, NEW T \in SUBSET Nodes,
         Cardinality(S) >= Quorum, Cardinality(T) >= Quorum
  PROVE  S \cap T # {}
<1>1. Cardinality(S) \in Nat /\ Cardinality(T) \in Nat /\ Cardinality(Nodes) \in Nat
  BY FS_Subset, FS_CardinalityType
<1>2. Cardinality(S) + Cardinality(T) > Cardinality(Nodes)
  BY <1>1
<1> QED
  BY <1>2, FS_MajoritiesIntersect

LEMMA InductiveExcludes == TypeOK /\ Inductive => MutualExclusion
<1> SUFFICES ASSUME TypeOK, Inductive, NEW c \in Clients, NEW d \in Clients,
                    c # d, pc[c] = "held", pc[d] = "held"
             PROVE  mode[c] = "Shared" /\ mode[d] = "Shared"
  BY DEF MutualExclusion
<1>1. /\ entries[c] \in SUBSET Nodes /\ Cardinality(entries[c]) >= Quorum
      /\ entries[d] \in SUBSET Nodes /\ Cardinality(entries[d]) >= Quorum
  BY DEF Inductive, HeldQuorum, TypeOK
<1>2. PICK n \in Nodes : n \in entries[c] /\ n \in entries[d]
  BY <1>1, QuorumsIntersect
<1>3. GuardOf(c) \in guards[n] /\ GuardOf(d) \in guards[n]
  BY <1>2 DEF Inductive, EntriesStored
<1>4. GuardOf(c).mode = "Shared" /\ GuardOf(d).mode = "Shared"
  BY <1>3, GuardsDiffer DEF Inductive, NodesExclude
<1> QED
  BY <1>4 DEF GuardOf

\* While no server loses its memory, an exclusive guard of the quorum lock
\* excludes every other guard, for any number of nodes and clients and
\* whatever calls fail, releases get lost or acquisitions are abandoned.
THEOREM Exclusion == ASSUME MaxRestarts = 0 PROVE Spec => []MutualExclusion
BY Invariance, Typing, InductiveExcludes, PTL

\* Nobody else's release, rollback or late answer takes a holder's quorum of
\* stored guards away.
THEOREM QuorumKept == ASSUME MaxRestarts = 0 PROVE Spec => []HolderKeepsQuorum
<1>1. Inductive => HolderKeepsQuorum
  BY DEF Inductive, HeldQuorum, EntriesStored, HolderKeepsQuorum
<1> QED
  BY <1>1, Invariance, PTL

-----------------------------------------------------------------------------
LEMMA StepRefines ==
  ASSUME TypeOK, TypeOK', MutualExclusion', [Next]_vars
  PROVE  [Abstract!RWNext]_HeldMode
<1>0. \A c \in Clients : HeldMode[c] = IF pc[c] = "held" THEN mode[c] ELSE NoMode
  BY DEF HeldMode
<1>1. \A c \in Clients : HeldMode'[c] = IF pc'[c] = "held" THEN mode'[c] ELSE NoMode
  BY DEF HeldMode
<1>2. ASSUME \A c \in Clients : HeldMode'[c] = HeldMode[c]
      PROVE  HeldMode' = HeldMode
  BY <1>2 DEF HeldMode
<1>3. ASSUME NEW c \in Clients, NEW m \in Modes, Begin(c, m) PROVE HeldMode' = HeldMode
  BY <1>0, <1>1, <1>2, <1>3 DEF Begin, TypeOK
<1>4. ASSUME NEW c \in Clients, Rollback(c) \/ Cancel(c) PROVE HeldMode' = HeldMode
  <2>1. pc[c] # "held" /\ mode' = mode
    BY <1>4 DEF Rollback, Cancel
  <2>2. \E v \in {"idle", "rollback"} : pc' = [pc EXCEPT ![c] = v]
    BY <1>4 DEF Rollback, Cancel
  <2> QED
    BY <1>0, <1>1, <1>2, <2>1, <2>2 DEF TypeOK
<1>5. ASSUME pc' = pc, mode' = mode PROVE HeldMode' = HeldMode
  BY <1>5 DEF HeldMode
<1>6. ASSUME NEW c \in Clients, Decide(c) PROVE [Abstract!RWNext]_HeldMode
  <2>1. /\ pc[c] = "acquiring" /\ pc' = [pc EXCEPT ![c] = Outcome(c, Quorum)] /\ mode' = mode
    BY <1>6 DEF Decide, DecideWith
  <2>2. CASE pc'[c] # "held"
    <3>1. HeldMode' = HeldMode
      BY <1>0, <1>1, <1>2, <2>1, <2>2 DEF TypeOK
    <3> QED
      BY <3>1
  <2>3. CASE pc'[c] = "held"
    <3>1. HeldMode[c] = NoMode /\ HeldMode'[c] = mode[c] /\ mode[c] \in Modes
      BY <1>0, <1>1, <2>1, <2>3 DEF TypeOK
    <3>2. \A d \in Clients : d # c => HeldMode'[d] = HeldMode[d] /\ pc'[d] = pc[d]
      BY <1>0, <1>1, <2>1 DEF TypeOK
    <3>3. HeldMode' = [HeldMode EXCEPT ![c] = mode[c]]
      BY <3>1, <3>2 DEF HeldMode
    <3>4. \A d \in Clients : d # c /\ pc[d] = "held" => mode[d] = "Shared" /\ mode[c] = "Shared"
      BY <2>1, <2>3, <3>2 DEF MutualExclusion
    <3>5. Abstract!Compatible(c, mode[c])
      BY <1>0, <3>4 DEF Abstract!Compatible
    <3>6. Abstract!Acquire(c, mode[c])
      BY <3>1, <3>3, <3>5 DEF Abstract!Acquire
    <3> QED
      BY <3>1, <3>6 DEF Abstract!RWNext, Abstract!RWModes, Modes
  <2> QED
    BY <2>2, <2>3
<1>7. ASSUME NEW c \in Clients, Drop(c) PROVE [Abstract!RWNext]_HeldMode
  <2>1. pc[c] = "held" /\ pc' = [pc EXCEPT ![c] = "idle"] /\ mode' = mode
    BY <1>7 DEF Drop
  <2>2. HeldMode[c] \in Modes /\ HeldMode'[c] = NoMode
    BY <1>0, <1>1, <2>1 DEF TypeOK
  <2>3. \A d \in Clients : d # c => HeldMode'[d] = HeldMode[d]
    BY <1>0, <1>1, <2>1 DEF TypeOK
  <2>4. HeldMode' = [HeldMode EXCEPT ![c] = NoMode]
    BY <2>2, <2>3 DEF HeldMode
  <2>5. Abstract!Release(c)
    BY <2>2, <2>4 DEF Abstract!Release, Modes
  <2> QED
    BY <2>5 DEF Abstract!RWNext
<1>8. ASSUME NEW c \in Clients, NEW n \in Nodes,
             Grant(c, n) \/ Refuse(c, n) \/ Reply(c, n) \/ CallFails(c, n)
      PROVE  pc' = pc /\ mode' = mode
  BY <1>8 DEF Grant, Refuse, Reply, CallFails
<1>9. ASSUME \/ \E l \in late : LateGrant(l) \/ LateTimeout(l)
             \/ \E p \in Procs : Worker(p)
             \/ \E r \in detached : DetachedRelease(r)
             \/ \E n \in Nodes : Restart(n)
             \/ UNCHANGED vars
      PROVE  pc' = pc /\ mode' = mode
  BY <1>9 DEF LateGrant, LateTimeout, Worker, DetachedRelease, Restart, vars, clientVars
<1> QED
  BY <1>3, <1>4, <1>5, <1>6, <1>7, <1>8, <1>9 DEF Next, ClientStep

\* While no server loses its memory, the quorum lock over any set of servers
\* implements the abstract reader-writer lock.
THEOREM Refinement == ASSUME MaxRestarts = 0 PROVE Spec => ImplementsRWLock
<1>1. Init => Abstract!RWInit
  BY DEF Init, Abstract!RWInit, HeldMode
<1>2. TypeOK /\ TypeOK' /\ MutualExclusion' /\ [Next]_vars => [Abstract!RWNext]_HeldMode
  BY StepRefines
<1> QED
  BY <1>1, <1>2, Typing, Exclusion, PTL DEF Spec, ImplementsRWLock, Abstract!RWSpec

-----------------------------------------------------------------------------
(* Stored guards are remembered.  A request that goes on without its caller *)
(* will be one more forgotten guard, so it is counted already while it      *)
(* waits.  Restarts are allowed here.                                       *)

LatePairs == {<<l.node, l.guard>> : l \in late}

Stranded == Forgotten \cup LatePairs

StrandedBounded == cancels = 0 => IsFiniteSet(Stranded) /\ Cardinality(Stranded) <= faults

\* Clients without a request have no calls and no locks.
Quiet ==
  \A c \in Clients :
    /\ \A n \in Nodes : call[c][n] # "none" => pc[c] = "acquiring"
    /\ \A n \in entries[c] : pc[c] \in {"rollback", "held"}

LEMMA QuietStep == ASSUME TypeOK, Quiet, [Next]_vars PROVE Quiet'
<1>1. ASSUME NEW c \in Clients, NEW m \in Modes, Begin(c, m) PROVE Quiet'
  BY <1>1 DEF Begin, Quiet, TypeOK
<1>2. ASSUME NEW c \in Clients, NEW n \in Nodes,
             Grant(c, n) \/ Refuse(c, n) \/ Reply(c, n) \/ CallFails(c, n)
      PROVE  Quiet'
  <2>1. UNCHANGED <<pc, entries>> /\ call[c][n] # "none" /\ \E s : SetCall(c, n, s)
    BY <1>2 DEF Grant, Refuse, Reply, CallFails
  <2>2. \A d \in Clients, k \in Nodes : call'[d][k] = call[d][k] \/ (d = c /\ k = n)
    BY <2>1 DEF SetCall, TypeOK
  <2> QED
    BY <2>1, <2>2 DEF Quiet
<1>3. ASSUME NEW c \in Clients, Decide(c) PROVE Quiet'
  BY <1>3 DEF Decide, DecideWith, Outcome, NoCalls, Locked, Quiet, TypeOK
<1>4. ASSUME NEW c \in Clients, Rollback(c) PROVE Quiet'
  BY <1>4 DEF Rollback, Quiet, TypeOK
<1>5. ASSUME NEW c \in Clients, Drop(c) PROVE Quiet'
  BY <1>5 DEF Drop, Quiet, TypeOK
<1>6. ASSUME NEW c \in Clients, Cancel(c) PROVE Quiet'
  BY <1>6 DEF Cancel, NoCalls, Quiet, TypeOK
<1>7. ASSUME NEW n \in Nodes, Restart(n) PROVE Quiet'
  BY <1>7 DEF Restart, Quiet, TypeOK
<1>8. ASSUME UNCHANGED clientVars PROVE Quiet'
  BY <1>8 DEF clientVars, Quiet
<1> QED
  BY <1>1, <1>2, <1>3, <1>4, <1>5, <1>6, <1>7, <1>8 DEF Next, ClientStep, LateGrant, LateTimeout,
     Worker, DetachedRelease, vars

\* The releases left in a queue after the worker performed r.
LEMMA JobsLeft ==
  ASSUME NEW T, NEW q \in Seq(SUBSET T), q # <<>>, NEW r \in Head(q),
         NEW i \in 1..Len(q), NEW x \in q[i], x # r,
         NEW q2, q2 = IF Head(q) = {r} THEN Tail(q) ELSE <<Head(q) \ {r}>> \o Tail(q)
  PROVE  \E j \in 1..Len(q2) : x \in q2[j]
<1> DEFINE t == Tail(q)
           h == <<Head(q) \ {r}>>
<1>1. /\ Len(q) \in Nat /\ Head(q) = q[1] /\ t \in Seq(SUBSET T) /\ Len(t) = Len(q) - 1
      /\ \A k \in 1..Len(t) : t[k] = q[k + 1]
  OBVIOUS
<1>2. i > 1 => i - 1 \in 1..Len(t) /\ (i - 1) + 1 = i
  BY <1>1
<1>3. i > 1 => t[i - 1] = q[i]
  BY <1>1, <1>2
<1>4. CASE Head(q) = {r}
  <2>1. i # 1
    BY <1>1, <1>4
  <2>2. i > 1
    BY <1>1, <2>1
  <2> QED
    BY <1>2, <1>3, <1>4, <2>2
<1>5. CASE Head(q) # {r}
  <2>1. h \in Seq(SUBSET T) /\ Len(h) = 1 /\ h[1] = Head(q) \ {r}
    <3>1. Head(q) \ {r} \in SUBSET T
      <4>1. Head(q) \in SUBSET T
        OBVIOUS
      <4> QED
        BY <4>1
    <3> QED
      BY <3>1
  <2> HIDE DEF h, t
  <2>a. h \in Seq(SUBSET T) /\ t \in Seq(SUBSET T)
    BY <1>1, <2>1
  <2>2. /\ Len(h \o t) = Len(h) + Len(t)
        /\ \A k \in 1..(Len(h) + Len(t)) : (h \o t)[k] = IF k <= Len(h) THEN h[k] ELSE t[k - Len(h)]
    BY <2>a, ConcatProperties, Zenon
  <2>3. q2 = h \o t
    BY <1>5 DEF h, t
  <2>4. CASE i = 1
    <3>1. x \in h[1]
      BY <1>1, <2>1, <2>4
    <3>2. 1 \in 1..(Len(h) + Len(t)) /\ 1 <= Len(h)
      BY <1>1, <2>1
    <3> QED
      BY <2>2, <2>3, <3>1, <3>2
  <2>5. CASE i > 1
    <3>1. i \in 1..(Len(h) + Len(t)) /\ ~(i <= Len(h)) /\ i - Len(h) = i - 1
      BY <1>1, <2>1, <2>5
    <3>2. (h \o t)[i] = t[i - 1]
      BY <2>2, <3>1
    <3> QED
      BY <1>3, <2>2, <2>3, <2>5, <3>1, <3>2
  <2> QED
    BY <1>1, <2>4, <2>5
<1> QED
  BY <1>4, <1>5

\* No guard is forgotten by a step that keeps what is remembered.
LEMMA KeepsRemembered ==
  ASSUME TypeOK, TypeOK', NEW x,
         \A n \in Nodes : \A g \in guards'[n] :
           <<n, g>> # x => (g \in guards[n] /\ (Remembered(n, g) => Remembered(n, g)')) \/ Remembered(n, g)'
  PROVE  Forgotten' \subseteq Forgotten \cup {x}
<1> SUFFICES ASSUME NEW f \in Forgotten', f # x PROVE f \in Forgotten
  OBVIOUS
<1>0. PICK n \in Nodes : f \in {n} \X ForgottenAt(n)'
  BY DEF Forgotten
<1>1. PICK g \in guards'[n] : f = <<n, g>> /\ ~Remembered(n, g)'
  BY <1>0 DEF ForgottenAt
<1>2. g \in guards[n] /\ ~Remembered(n, g)
  BY <1>1
<1> QED
  BY <1>1, <1>2 DEF Forgotten, ForgottenAt

\* A guard stays remembered when each reason to remember it stays or is
\* replaced by another.
LEMMA StaysRemembered ==
  ASSUME UNCHANGED <<mode, attempt>>, NEW n \in Nodes, NEW g,
         \A c \in Clients :
           GuardOf(c) = g /\ (call[c][n] \in {"granted", "ok"} \/ n \in entries[c])
             => \/ call'[c][n] \in {"granted", "ok"} \/ n \in entries'[c]
                \/ [node |-> n, guard |-> g] \in PendingReleases',
         [node |-> n, guard |-> g] \in PendingReleases => [node |-> n, guard |-> g] \in PendingReleases'
  PROVE  Remembered(n, g) => Remembered(n, g)'
<1>1. \A c \in Clients : GuardOf(c)' = GuardOf(c)
  BY DEF GuardOf
<1> QED
  BY <1>1 DEF Remembered

\* A release removes its guard, or is lost and forgets at most that one.
LEMMA ReleaseForgets ==
  ASSUME TypeOK, TypeOK', NEW n \in Nodes, NEW g, ReleaseAt(n, g),
         \A k \in Nodes, h \in Guards : <<k, h>> # <<n, g>> => (Remembered(k, h) => Remembered(k, h)')
  PROVE  /\ cancels' = cancels
         /\ \/ faults' = faults /\ Forgotten' \subseteq Forgotten
            \/ faults' = faults + 1 /\ Forgotten' \subseteq Forgotten \cup {<<n, g>>}
<1>0. \A k \in Nodes : guards[k] \subseteq Guards /\ guards'[k] \subseteq guards[k]
  BY ReleaseAtRemoves DEF TypeOK
<1>1. Forgotten' \subseteq Forgotten \cup {<<n, g>>}
  BY <1>0, KeepsRemembered
<1>2. CASE guards' = [guards EXCEPT ![n] = @ \ {g}] /\ UNCHANGED faultVars
  <2>1. g \notin guards'[n]
    BY <1>2 DEF TypeOK
  <2>2. <<n, g>> \notin Forgotten'
    BY <2>1 DEF Forgotten, ForgottenAt
  <2> QED
    BY <1>1, <1>2, <2>2 DEF faultVars
<1>3. CASE CountFault /\ UNCHANGED <<guards, cancels, restarts>>
  BY <1>1, <1>3 DEF CountFault
<1> QED
  BY <1>2, <1>3 DEF ReleaseAt

\* What a step adds to the stranded guards: nothing, or one for a fault.
LEMMA StrandedStep ==
  ASSUME TypeOK, TypeOK', Quiet, [Next]_vars, cancels' = 0
  PROVE  /\ cancels = 0
         /\ \/ faults' = faults /\ Stranded' \subseteq Stranded
            \/ faults' = faults + 1 /\ \E x : Stranded' \subseteq Stranded \cup {x}
<1> DEFINE Free == faults' = faults /\ Stranded' \subseteq Stranded
           Paid == faults' = faults + 1 /\ \E x : Stranded' \subseteq Stranded \cup {x}
           Goal == cancels = 0 /\ (Free \/ Paid)
<1> SUFFICES Goal
  OBVIOUS
<1>0. \A n \in Nodes : guards[n] \subseteq Guards
  BY DEF TypeOK
<1>a. ASSUME UNCHANGED unlockVars PROVE PendingReleases' = PendingReleases
  BY <1>a DEF unlockVars, PendingReleases
<1>b. ASSUME NEW x, Forgotten' \subseteq Forgotten \cup {x}, late' = late PROVE Stranded' \subseteq Stranded \cup {x}
  BY <1>b DEF Stranded, LatePairs
<1>c. ASSUME Forgotten' \subseteq Forgotten, late' \subseteq late PROVE Stranded' \subseteq Stranded
  BY <1>c DEF Stranded, LatePairs
<1>d. ASSUME \A n \in Nodes : \A g \in guards'[n] :
               (g \in guards[n] /\ (Remembered(n, g) => Remembered(n, g)')) \/ Remembered(n, g)'
      PROVE  Forgotten' \subseteq Forgotten
  <2>1. ASSUME NEW x PROVE Forgotten' \subseteq Forgotten \cup {x}
    BY <1>d, KeepsRemembered
  <2> QED
    BY <2>1
<1>1. ASSUME NEW c \in Clients, NEW m \in Modes, Begin(c, m) PROVE Goal
  <2>1. UNCHANGED <<entries, guards, late, unlockVars, faultVars>>
    BY <1>1 DEF Begin
  <2>2. \A d \in Clients : d # c => GuardOf(d)' = GuardOf(d) /\ call'[d] = call[d]
    BY <1>1 DEF Begin, GuardOf, TypeOK
  <2>3. \A n \in Nodes : call[c][n] = "none" /\ n \notin entries[c]
    BY <1>1 DEF Begin, Quiet
  <2>4. \A n \in Nodes, g \in Guards : Remembered(n, g) => Remembered(n, g)'
    BY <1>a, <2>1, <2>2, <2>3 DEF Remembered
  <2>5. Forgotten' \subseteq Forgotten
    BY <1>0, <1>d, <2>1, <2>4
  <2> QED
    BY <1>c, <2>1, <2>5 DEF faultVars
<1>2. ASSUME NEW c \in Clients, NEW n \in Nodes, Grant(c, n) PROVE Goal
  <2>1. UNCHANGED <<mode, attempt, entries, late, unlockVars, faultVars>> /\ SetCall(c, n, "granted")
    BY <1>2 DEF Grant
  <2>2. \A d \in Clients, k \in Nodes : call'[d][k] = IF d = c /\ k = n THEN "granted" ELSE call[d][k]
    BY <2>1 DEF SetCall, TypeOK
  <2>3. \A k \in Nodes, g \in Guards : Remembered(k, g) => Remembered(k, g)'
    BY <1>a, <2>1, <2>2, StaysRemembered
  <2>4. GuardOf(c)' = GuardOf(c)
    BY <2>1 DEF GuardOf
  <2>5. Remembered(n, GuardOf(c))'
    BY <2>2, <2>4 DEF Remembered
  <2>6. \A k \in Nodes : \A g \in guards'[k] : g \in guards[k] \/ (k = n /\ g = GuardOf(c))
    BY <1>2 DEF Grant, TypeOK
  <2>7. \A k \in Nodes : \A g \in guards'[k] :
          (g \in guards[k] /\ (Remembered(k, g) => Remembered(k, g)')) \/ Remembered(k, g)'
    <3> SUFFICES ASSUME NEW k \in Nodes, NEW g \in guards'[k]
                 PROVE  (g \in guards[k] /\ (Remembered(k, g) => Remembered(k, g)')) \/ Remembered(k, g)'
      OBVIOUS
    <3>1. CASE g \in guards[k]
      BY <1>0, <2>3, <3>1
    <3>2. CASE k = n /\ g = GuardOf(c)
      BY <2>4, <2>5, <3>2
    <3> QED
      BY <2>6, <3>1, <3>2
  <2> QED
    BY <1>c, <1>d, <2>1, <2>7 DEF faultVars
<1>3. ASSUME NEW c \in Clients, NEW n \in Nodes, Refuse(c, n) \/ Reply(c, n) PROVE Goal
  <2>1. UNCHANGED <<mode, attempt, entries, guards, late, unlockVars, faultVars>>
    BY <1>3 DEF Refuse, Reply
  <2>2. \A d \in Clients, k \in Nodes :
          call[d][k] \in {"granted", "ok"} => call'[d][k] \in {"granted", "ok"}
    <3>1. \A d \in Clients, k \in Nodes : (d = c /\ k = n) \/ call'[d][k] = call[d][k]
      BY <1>3 DEF Refuse, Reply, SetCall, TypeOK
    <3>2. call[c][n] = "sent" \/ call'[c][n] = "ok"
      BY <1>3 DEF Refuse, Reply, SetCall, TypeOK
    <3> QED
      BY <3>1, <3>2
  <2>3. \A k \in Nodes, g \in Guards : Remembered(k, g) => Remembered(k, g)'
    BY <1>a, <2>1, <2>2, StaysRemembered
  <2>4. Forgotten' \subseteq Forgotten
    BY <1>0, <1>d, <2>1, <2>3
  <2> QED
    BY <1>c, <2>1, <2>4 DEF faultVars
<1>4. ASSUME NEW c \in Clients, NEW n \in Nodes, CallFails(c, n) PROVE Goal
  <2>1. UNCHANGED <<mode, attempt, entries, guards, unlockVars, cancels>> /\ faults' = faults + 1
    BY <1>4 DEF CallFails, CountFault
  <2>2. \A d \in Clients, k \in Nodes : call'[d][k] = call[d][k] \/ (d = c /\ k = n)
    BY <1>4 DEF CallFails, SetCall, TypeOK
  <2>3. \A k \in Nodes, g \in Guards :
          <<k, g>> # <<n, GuardOf(c)>> => (Remembered(k, g) => Remembered(k, g)')
    <3> SUFFICES ASSUME NEW k \in Nodes, NEW g \in Guards, <<k, g>> # <<n, GuardOf(c)>>
                 PROVE  Remembered(k, g) => Remembered(k, g)'
      OBVIOUS
    <3>1. k # n \/ g # GuardOf(c)
      OBVIOUS
    <3>2. \A d \in Clients : GuardOf(d) = g => call'[d][k] = call[d][k]
      BY <2>2, <3>1
    <3> QED
      BY <1>a, <2>1, <3>2, StaysRemembered
  <2>4. Forgotten' \subseteq Forgotten \cup {<<n, GuardOf(c)>>}
    BY <1>0, <2>1, <2>3, KeepsRemembered
  <2>5. LatePairs' \subseteq LatePairs \cup {<<n, GuardOf(c)>>}
    <3>1. \A l \in late' : l \in late \/ l = [node |-> n, guard |-> GuardOf(c)]
      BY <1>4 DEF CallFails
    <3> QED
      BY <3>1 DEF LatePairs
  <2>6. Stranded' \subseteq Stranded \cup {<<n, GuardOf(c)>>}
    BY <2>4, <2>5 DEF Stranded
  <2> QED
    BY <2>1, <2>6
<1>5. ASSUME NEW l \in late, LateGrant(l) PROVE Goal
  <2>0. l \in Releases /\ l.node \in Nodes /\ l.guard \in Guards
    BY DEF TypeOK, Releases
  <2>1. UNCHANGED <<clientVars, unlockVars, faultVars>> /\ late' = late \ {l}
    BY <1>5 DEF LateGrant
  <2>2. UNCHANGED <<mode, attempt, entries, call>>
    BY <2>1 DEF clientVars
  <2>3. \A k \in Nodes, g \in Guards : Remembered(k, g) => Remembered(k, g)'
    BY <1>a, <2>1, <2>2, StaysRemembered
  <2>4. \A k \in Nodes : \A g \in guards'[k] : <<k, g>> # <<l.node, l.guard>> => g \in guards[k]
    BY <1>5, <2>0 DEF LateGrant, TypeOK
  <2>5. Forgotten' \subseteq Forgotten \cup {<<l.node, l.guard>>}
    BY <1>0, <2>3, <2>4, KeepsRemembered
  <2>6. <<l.node, l.guard>> \in LatePairs /\ LatePairs' \subseteq LatePairs
    BY <2>1 DEF LatePairs
  <2>7. Stranded' \subseteq Stranded
    BY <2>5, <2>6 DEF Stranded
  <2> QED
    BY <2>1, <2>7 DEF faultVars
<1>6. ASSUME NEW l \in late, LateTimeout(l) PROVE Goal
  <2>1. UNCHANGED <<clientVars, guards, unlockVars, faultVars>> /\ late' \subseteq late
    BY <1>6 DEF LateTimeout
  <2>2. UNCHANGED <<mode, attempt, entries, call>>
    BY <2>1 DEF clientVars
  <2>3. \A k \in Nodes, g \in Guards : Remembered(k, g) => Remembered(k, g)'
    BY <1>a, <2>1, <2>2, StaysRemembered
  <2>4. Forgotten' \subseteq Forgotten
    BY <1>0, <1>d, <2>1, <2>3
  <2> QED
    BY <1>c, <2>1, <2>4 DEF faultVars
<1>7. ASSUME NEW c \in Clients, Decide(c) PROVE Goal
  <2>1. UNCHANGED <<mode, attempt, guards, late, unlockVars, faultVars>>
    BY <1>7 DEF Decide, DecideWith
  <2>2. \A d \in Clients : d # c => call'[d] = call[d] /\ entries'[d] = entries[d]
    BY <1>7 DEF Decide, DecideWith, TypeOK
  <2>3. \A n \in Nodes : n \notin entries[c] /\ (call[c][n] \in {"granted", "ok"} => n \in entries'[c])
    BY <1>7 DEF Decide, DecideWith, Locked, Quiet, TypeOK
  <2>4. \A k \in Nodes, g \in Guards : Remembered(k, g) => Remembered(k, g)'
    BY <1>a, <2>1, <2>2, <2>3, StaysRemembered
  <2>5. Forgotten' \subseteq Forgotten
    BY <1>0, <1>d, <2>1, <2>4
  <2> QED
    BY <1>c, <2>1, <2>5 DEF faultVars
<1>8. ASSUME NEW c \in Clients, Rollback(c) PROVE Goal
  <2>1. UNCHANGED <<mode, attempt, call, late, unlockVars>>
    BY <1>8 DEF Rollback
  <2>2. PICK n \in entries[c] :
          ReleaseAt(n, GuardOf(c)) /\ entries' = [entries EXCEPT ![c] = @ \ {n}]
    BY <1>8 DEF Rollback
  <2>3. n \in Nodes
    BY DEF TypeOK
  <2>4. \A k \in Nodes, g \in Guards :
          <<k, g>> # <<n, GuardOf(c)>> => (Remembered(k, g) => Remembered(k, g)')
    <3> SUFFICES ASSUME NEW k \in Nodes, NEW g \in Guards, <<k, g>> # <<n, GuardOf(c)>>
                 PROVE  Remembered(k, g) => Remembered(k, g)'
      OBVIOUS
    <3>1. k # n \/ g # GuardOf(c)
      OBVIOUS
    <3>2. \A d \in Clients : GuardOf(d) = g /\ k \in entries[d] => k \in entries'[d]
      BY <2>2, <3>1 DEF TypeOK
    <3> QED
      BY <1>a, <2>1, <3>2, StaysRemembered
  <2>5. /\ cancels' = cancels
        /\ \/ faults' = faults /\ Forgotten' \subseteq Forgotten
           \/ faults' = faults + 1 /\ Forgotten' \subseteq Forgotten \cup {<<n, GuardOf(c)>>}
    BY <2>2, <2>3, <2>4, ReleaseForgets
  <2> QED
    BY <1>b, <1>c, <2>1, <2>5
<1>9. ASSUME NEW c \in Clients, Drop(c) PROVE Goal
  <2>1. UNCHANGED <<mode, attempt, call, guards, late, faultVars>>
    BY <1>9 DEF Drop
  <2>2. \A d \in Clients : d # c => entries'[d] = entries[d]
    BY <1>9 DEF Drop, TypeOK
  <2>3. PendingReleases \subseteq PendingReleases' /\ Job(c) \subseteq PendingReleases'
    <3>1. CASE detached' = detached \cup Job(c) /\ UNCHANGED queue
      BY <3>1 DEF PendingReleases
    <3>2. CASE queue' = [queue EXCEPT ![ProcOf[c]] = Append(@, Job(c))] /\ UNCHANGED detached
      <4>0. ProcOf[c] \in Procs /\ queue[ProcOf[c]] \in Seq(SUBSET Releases)
        BY DEF TypeOK
      <4> DEFINE q == queue[ProcOf[c]]
                 qj == Append(q, Job(c))
      <4>1. /\ Len(q) \in Nat /\ Len(qj) = Len(q) + 1
            /\ \A i \in 1..Len(q) : qj[i] = q[i]
            /\ qj[Len(q) + 1] = Job(c)
        BY <4>0
      <4>2. queue'[ProcOf[c]] = qj /\ \A p \in Procs : p # ProcOf[c] => queue'[p] = queue[p]
        BY <3>2 DEF TypeOK
      <4> HIDE DEF qj
      <4>3. \A p \in Procs : \A i \in 1..Len(queue[p]) : i \in 1..Len(queue'[p]) /\ queue'[p][i] = queue[p][i]
        <5>1. \A i \in 1..Len(q) : i \in 1..Len(qj)
          BY <4>1
        <5> QED
          BY <4>1, <4>2, <5>1
      <4>4. \E i \in 1..Len(queue'[ProcOf[c]]) : queue'[ProcOf[c]][i] = Job(c)
        <5>1. Len(q) + 1 \in 1..Len(qj)
          BY <4>1
        <5> QED
          BY <4>1, <4>2, <5>1
      <4> QED
        BY <3>2, <4>0, <4>3, <4>4 DEF PendingReleases
    <3> QED
      BY <1>9, <3>1, <3>2 DEF Drop
  <2>4. \A n \in entries[c] : [node |-> n, guard |-> GuardOf(c)] \in PendingReleases'
    BY <2>3 DEF Job
  <2>5. \A k \in Nodes, g \in Guards : Remembered(k, g) => Remembered(k, g)'
    BY <2>1, <2>2, <2>3, <2>4, StaysRemembered
  <2>6. Forgotten' \subseteq Forgotten
    BY <1>0, <1>d, <2>1, <2>5
  <2> QED
    BY <1>c, <2>1, <2>6 DEF faultVars
<1>10. ASSUME NEW r \in Releases, ReleaseAt(r.node, r.guard), UNCHANGED <<clientVars, late>>,
              \A x \in PendingReleases : x # r => x \in PendingReleases'
       PROVE  Goal
  <2>0. r.node \in Nodes /\ r = [node |-> r.node, guard |-> r.guard]
    BY DEF Releases
  <2>1. UNCHANGED <<mode, attempt, entries, call>>
    BY <1>10 DEF clientVars
  <2>2. \A k \in Nodes, g \in Guards :
          <<k, g>> # <<r.node, r.guard>> => (Remembered(k, g) => Remembered(k, g)')
    <3> SUFFICES ASSUME NEW k \in Nodes, NEW g \in Guards, <<k, g>> # <<r.node, r.guard>>
                 PROVE  Remembered(k, g) => Remembered(k, g)'
      OBVIOUS
    <3>1. [node |-> k, guard |-> g] # r
      BY <2>0
    <3> QED
      BY <1>10, <2>1, <3>1, StaysRemembered
  <2>3. /\ cancels' = cancels
        /\ \/ faults' = faults /\ Forgotten' \subseteq Forgotten
           \/ faults' = faults + 1 /\ Forgotten' \subseteq Forgotten \cup {<<r.node, r.guard>>}
    BY <1>10, <2>0, <2>2, ReleaseForgets
  <2> QED
    BY <1>b, <1>c, <1>10, <2>3
<1>11. ASSUME NEW p \in Procs, Worker(p) PROVE Goal
  <2>1. UNCHANGED <<clientVars, late, detached>> /\ queue[p] # <<>>
    BY <1>11 DEF Worker
  <2>2. PICK r \in Head(queue[p]) :
          /\ ReleaseAt(r.node, r.guard)
          /\ queue' = [queue EXCEPT ![p] = IF Head(@) = {r} THEN Tail(@) ELSE <<Head(@) \ {r}>> \o Tail(@)]
    BY <1>11 DEF Worker
  <2>3. queue[p] \in Seq(SUBSET Releases)
    BY DEF TypeOK
  <2>4. r \in Releases
    BY <2>1, <2>3
  <2>5. queue'[p] = IF Head(queue[p]) = {r} THEN Tail(queue[p])
                    ELSE <<Head(queue[p]) \ {r}>> \o Tail(queue[p])
    BY <2>2 DEF TypeOK
  <2>6. \A q \in Procs : q # p => queue'[q] = queue[q]
    BY <2>2 DEF TypeOK
  <2>7. ASSUME NEW x \in PendingReleases, x # r PROVE x \in PendingReleases'
    <3>1. CASE x \in detached
      BY <2>1, <3>1 DEF PendingReleases
    <3>2. CASE x \notin detached
      <4>1. PICK q \in Procs : \E i \in 1..Len(queue[q]) : x \in queue[q][i]
        BY <3>2 DEF PendingReleases
      <4>2. \E i \in 1..Len(queue'[q]) : x \in queue'[q][i]
        <5>1. CASE q = p
          <6>1. PICK i \in 1..Len(queue[p]) : x \in queue[p][i]
            BY <4>1, <5>1
          <6>2. \E j \in 1..Len(queue'[p]) : x \in queue'[p][j]
            BY <2>1, <2>2, <2>3, <2>5, <2>7, <6>1, JobsLeft, Zenon
          <6> QED
            BY <5>1, <6>2
        <5>2. CASE q # p
          BY <2>6, <4>1, <5>2
        <5> QED
          BY <5>1, <5>2
      <4> QED
        BY <4>2 DEF PendingReleases
    <3> QED
      BY <3>1, <3>2
  <2> QED
    BY <1>10, <2>1, <2>2, <2>4, <2>7
<1>12. ASSUME NEW r \in detached, DetachedRelease(r) PROVE Goal
  <2>1. UNCHANGED <<clientVars, late, queue>> /\ detached' = detached \ {r} /\ ReleaseAt(r.node, r.guard)
    BY <1>12 DEF DetachedRelease
  <2>2. r \in Releases
    BY DEF TypeOK
  <2>3. \A x \in PendingReleases : x # r => x \in PendingReleases'
    BY <2>1 DEF PendingReleases
  <2> QED
    BY <1>10, <2>1, <2>2, <2>3
<1>13. ASSUME NEW n \in Nodes, Restart(n) PROVE Goal
  <2>1. UNCHANGED <<mode, attempt, entries, unlockVars, faults, cancels>> /\ late' \subseteq late
    BY <1>13 DEF Restart
  <2>2. \A k \in Nodes : k # n => guards'[k] = guards[k] /\ \A d \in Clients : call'[d][k] = call[d][k]
    BY <1>13 DEF Restart, TypeOK
  <2>3. guards'[n] = {}
    BY <1>13 DEF Restart, TypeOK
  <2>4. \A k \in Nodes, g \in Guards : k # n => (Remembered(k, g) => Remembered(k, g)')
    BY <1>a, <2>1, <2>2, StaysRemembered
  <2>5. Forgotten' \subseteq Forgotten
    BY <1>0, <1>d, <2>2, <2>3, <2>4
  <2> QED
    BY <1>c, <2>1, <2>5
<1>14. ASSUME NEW c \in Clients, Cancel(c) PROVE FALSE
  BY <1>14 DEF Cancel, TypeOK
<1>15. ASSUME UNCHANGED vars PROVE Goal
  <2>1. UNCHANGED <<clientVars, unlockVars, guards, late, faultVars>>
    BY <1>15 DEF vars
  <2>2. UNCHANGED <<mode, attempt, entries, call>>
    BY <2>1 DEF clientVars
  <2>3. \A k \in Nodes, g \in Guards : Remembered(k, g) => Remembered(k, g)'
    BY <1>a, <2>1, <2>2, StaysRemembered
  <2>4. Forgotten' \subseteq Forgotten
    BY <1>0, <1>d, <2>1, <2>3
  <2> QED
    BY <1>c, <2>1, <2>4 DEF faultVars
<1> QED
  BY <1>1, <1>2, <1>3, <1>4, <1>5, <1>6, <1>7, <1>8, <1>9, <1>11, <1>12, <1>13, <1>14, <1>15
     DEF Next, ClientStep

LEMMA StrandedKept == ASSUME TypeOK, TypeOK', Quiet, StrandedBounded, [Next]_vars PROVE StrandedBounded'
<1> SUFFICES ASSUME cancels' = 0 PROVE IsFiniteSet(Stranded') /\ Cardinality(Stranded') <= faults'
  BY DEF StrandedBounded
<1>1. /\ cancels = 0
      /\ \/ faults' = faults /\ Stranded' \subseteq Stranded
         \/ faults' = faults + 1 /\ \E x : Stranded' \subseteq Stranded \cup {x}
  BY StrandedStep
<1>2. IsFiniteSet(Stranded) /\ Cardinality(Stranded) <= faults
  BY <1>1 DEF StrandedBounded
<1>3. Cardinality(Stranded) \in Nat /\ faults \in Nat
  BY <1>2, FS_CardinalityType DEF TypeOK
<1>4. CASE faults' = faults /\ Stranded' \subseteq Stranded
  <2>1. IsFiniteSet(Stranded') /\ Cardinality(Stranded') <= Cardinality(Stranded)
    BY <1>2, <1>4, FS_Subset
  <2>2. Cardinality(Stranded') \in Nat
    BY <2>1, FS_CardinalityType
  <2> QED
    BY <1>2, <1>3, <1>4, <2>1, <2>2
<1>5. CASE faults' = faults + 1 /\ \E x : Stranded' \subseteq Stranded \cup {x}
  <2>1. PICK x : Stranded' \subseteq Stranded \cup {x}
    BY <1>5
  <2>2. /\ IsFiniteSet(Stranded \cup {x})
        /\ \/ Cardinality(Stranded \cup {x}) = Cardinality(Stranded)
           \/ Cardinality(Stranded \cup {x}) = Cardinality(Stranded) + 1
    BY <1>2, FS_AddElement
  <2>3. IsFiniteSet(Stranded') /\ Cardinality(Stranded') <= Cardinality(Stranded \cup {x})
    BY <2>1, <2>2, FS_Subset
  <2>4. Cardinality(Stranded') \in Nat
    BY <2>3, FS_CardinalityType
  <2> QED
    BY <1>2, <1>3, <1>5, <2>2, <2>3, <2>4
<1> QED
  BY <1>1, <1>4, <1>5

\* Unless an acquisition was abandoned, the guards nobody will release are at
\* most as many as the calls and releases that failed: for any set of servers,
\* through restarts, rollbacks and late grants.
THEOREM FewForgotten == Spec => []GuardsRemembered
<1>1. ASSUME Init PROVE Quiet /\ StrandedBounded
  <2>1. Quiet
    BY <1>1 DEF Init, Quiet
  <2>2. Stranded = {}
    BY <1>1 DEF Init, Stranded, Forgotten, ForgottenAt, LatePairs
  <2>3. faults = 0
    BY <1>1 DEF Init
  <2> QED
    BY <2>1, <2>2, <2>3, FS_EmptySet DEF StrandedBounded
<1>2. TypeOK /\ Quiet /\ [Next]_vars => Quiet'
  BY QuietStep
<1>3. TypeOK /\ TypeOK' /\ Quiet /\ StrandedBounded /\ [Next]_vars => StrandedBounded'
  BY StrandedKept
<1>4. ASSUME TypeOK, StrandedBounded PROVE GuardsRemembered
  <2> SUFFICES ASSUME cancels = 0 PROVE Cardinality(Forgotten) <= faults
    BY DEF GuardsRemembered
  <2>1. IsFiniteSet(Stranded) /\ Cardinality(Stranded) <= faults /\ Forgotten \subseteq Stranded
    BY <1>4 DEF StrandedBounded, Stranded
  <2>2. IsFiniteSet(Forgotten) /\ Cardinality(Forgotten) <= Cardinality(Stranded)
    BY <2>1, FS_Subset
  <2>3. Cardinality(Forgotten) \in Nat /\ Cardinality(Stranded) \in Nat /\ faults \in Nat
    BY <1>4, <2>1, <2>2, FS_CardinalityType DEF TypeOK
  <2> QED
    BY <2>1, <2>2, <2>3
<1> QED
  BY <1>1, <1>2, <1>3, <1>4, Typing, PTL DEF Spec

=============================================================================
