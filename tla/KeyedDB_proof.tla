---------------------------- MODULE KeyedDB_proof ----------------------------
(***************************************************************************)
(* The callers of KeyedDB and its commit coordinator: where a request is,  *)
(* that none is stranded and no wake-up missed, which does not depend on   *)
(* what the store does; and what makes the results right that              *)
(* processCommitGroup gives to the requests of a group, in terms of a few  *)
(* facts about the store (StoreFacts).  Then the database as a whole: what *)
(* is proved about the store holds with callers and coordinator on top of  *)
(* it, it has those facts, and the answers are faithful.                   *)
(***************************************************************************)
EXTENDS KeyedDB, KeyedPromise_proof

\* A leaf is tried with Zenon and then with the SMT solver, unless it names a prover.
USE ZenonT(2), SMTT(20), ZenonT(30)

-----------------------------------------------------------------------------
(* Requests *)

\* A request is in one place, the queue or the running group, once, and its caller waits
\* with the command it submitted.
InCall == {"submit", "queued", "waiting"}
Requests ==
    /\ queue \in Seq(Clients) /\ group \in Seq(Clients)
    /\ DOMAIN pc = Clients /\ DOMAIN command = Clients
    /\ \A c \in Clients : pc[c] \in InCall => command[c] \in CommandIDs
    /\ \A i \in DOMAIN queue : pc[queue[i]] \in InCall \ {"submit"}
    /\ \A i \in DOMAIN group : pc[group[i]] \in InCall \ {"submit"}
    /\ \A i, j \in DOMAIN queue : queue[i] = queue[j] => i = j
    /\ \A i \in DOMAIN queue, j \in DOMAIN group : queue[i] # group[j]

\* The first n elements of a sequence.
LEMMA FrontProperties ==
    ASSUME NEW S, NEW s \in Seq(S), NEW n \in Nat, n <= Len(s)
    PROVE  /\ SubSeq(s, 1, n) \in Seq(S) /\ Len(SubSeq(s, 1, n)) = n
           /\ \A i \in 1..n : SubSeq(s, 1, n)[i] = s[i]
<1>1. \A i \in 1..n : s[i] \in S
  OBVIOUS
<1> QED
  BY <1>1, SMT

\* The elements behind the first m.
LEMMA SuffixProperties ==
    ASSUME NEW S, NEW s \in Seq(S), NEW m \in Nat, m <= Len(s)
    PROVE  /\ SubSeq(s, m + 1, Len(s)) \in Seq(S) /\ Len(SubSeq(s, m + 1, Len(s))) = Len(s) - m
           /\ \A i \in 1..Len(s) - m : SubSeq(s, m + 1, Len(s))[i] = s[m + i]
<1>1. \A i \in 1..Len(s) - m : s[m + i] \in S
  OBVIOUS
<1> QED
  BY <1>1, SMT

\* Each result of processCommitGroup moves its loop on and leaves queue, group and callers.
Resulting ==
    \/ executePoisoned \/ executeCancelled \/ executeAttached \/ executeDuplicate \/ executeAborts
    \/ \E applied \in BOOLEAN, w \in Writes : executeKeyed(applied, w) \/ executeAppendFails(applied, w)

\* No other part of the coordinator moves.
LEMMA ResultEffect ==
    Resulting => index' = index + 1 /\ UNCHANGED <<coord, queue, group, clientVars>>
BY Zenon
   DEF Resulting, executePoisoned, executeCancelled, executeAttached, executeDuplicate, executeAborts,
       executeKeyed, executeAppendFails, Result

\* A group is a non-empty front part of the queue.
LEMMA GroupSize ==
    ASSUME NEW n \in Nat \ {0}
    PROVE  Min({MaxGroup, n}) \in 1..n
<1>1. MaxGroup \in Nat \ {0}
  BY CoordinatorAssumption
<1>2. \E x \in {MaxGroup, n} : \A y \in {MaxGroup, n} : x <= y
  <2>1. CASE MaxGroup <= n
    BY <1>1, <2>1
  <2>2. CASE n <= MaxGroup
    BY <1>1, <2>2
  <2> QED
    BY <1>1, <2>1, <2>2
<1>3. Min({MaxGroup, n}) \in {MaxGroup, n} /\ \A y \in {MaxGroup, n} : Min({MaxGroup, n}) <= y
  BY <1>2 DEF Min
<1> QED
  BY <1>1, <1>3

\* Requests move from caller to queue to group, and leave when they are answered.
LEMMA RequestsStep == Requests /\ [Next]_vars => Requests'
<1> SUFFICES ASSUME Requests, [Next]_vars PROVE Requests'
  OBVIOUS
<1> USE DEF Requests, InCall
<1>1. ASSUME queue' = <<>>, group' = <<>>, DOMAIN pc' = Clients, DOMAIN command' = Clients,
             \A c \in Clients : pc'[c] \in InCall => command'[c] \in CommandIDs
      PROVE  Requests'
  BY <1>1
<1>2. CASE UNCHANGED <<queue, group, clientVars>>
  BY <1>2 DEF clientVars
\* A step of a client that is in no queue.
<1>3. ASSUME NEW c \in Clients, NEW to, pc[c] \notin {"queued", "waiting"}, to \notin {"queued", "waiting"},
             pc' = [pc EXCEPT ![c] = to], UNCHANGED <<queue, group>>, DOMAIN command' = Clients,
             to = "submit" => command'[c] \in CommandIDs,
             \A d \in Clients \ {c} : command'[d] = command[d]
      PROVE  Requests'
  <2>1. \A i \in DOMAIN queue : queue[i] \in Clients /\ queue[i] # c
    BY <1>3
  <2>2. \A i \in DOMAIN group : group[i] \in Clients /\ group[i] # c
    BY <1>3
  <2>3. \A d \in Clients \ {c} : pc'[d] = pc[d]
    BY <1>3
  <2>4. pc'[c] = to /\ DOMAIN pc' = Clients
    BY <1>3
  <2> QED
    BY <1>3, <2>1, <2>2, <2>3, <2>4
<1>4. CASE \E h \in DedupeHorizons : Open(h)
  BY <1>1, <1>4 DEF Open, NoHandle, clientVars
<1>5. CASE crash
  BY <1>1, <1>5 DEF crash, NoHandle
<1>6. CASE Recover \/ StartCoordinator \/ snapshotStep
  BY <1>2, <1>6 DEF Recover, StartCoordinator, snapshotStep, coordVars
<1>7. ASSUME NEW c \in Clients, NEW id \in CommandIDs, submitBegin(c, id) PROVE Requests'
  BY <1>3, <1>7 DEF submitBegin, ClientAt, coordVars
<1>8. ASSUME NEW c \in Clients, NEW call \in Calls, enterKeyed(c, call) PROVE Requests'
  BY <1>3, <1>8 DEF enterKeyed, ClientAt, coordVars
<1>9. ASSUME NEW c \in Clients, closeBegin(c) \/ closeWake(c) PROVE Requests'
  BY <1>3, <1>9 DEF closeBegin, closeWake, ClientAt
<1>10. ASSUME NEW c \in Clients, getAdmitted(c) \/ snapshotAdmitted(c) PROVE Requests'
  BY <1>3, <1>10 DEF getAdmitted, snapshotAdmitted, ClientAt, coordVars
<1>11. ASSUME NEW c \in Clients, enterKeyedFails(c) PROVE Requests'
  BY <1>3, <1>11 DEF enterKeyedFails, coordVars
<1>12. ASSUME NEW c \in Clients, snapshotReturns(c) PROVE Requests'
  BY <1>3, <1>12 DEF snapshotReturns, ClientAt, coordVars
<1>13. ASSUME NEW c \in Clients, closeAdmitted(c) PROVE Requests'
  BY <1>3, <1>13 DEF closeAdmitted, ClientAt, coordVars
<1>14. ASSUME NEW c \in Clients, submitEnqueue(c) PROVE Requests'
  <2>1. CASE closed
    BY <1>3, <1>14, <2>1 DEF submitEnqueue, ClientAt
  <2>2. CASE ~closed
    <3>1. /\ pc[c] = "submit" /\ pc' = [pc EXCEPT ![c] = "queued"] /\ queue' = Append(queue, c)
          /\ UNCHANGED <<command, group>>
      BY <1>14, <2>2 DEF submitEnqueue, ClientAt
    <3>2. \A i \in DOMAIN queue : queue[i] \in Clients /\ queue[i] # c
      BY <3>1
    <3>3. \A i \in DOMAIN group : group[i] \in Clients /\ group[i] # c
      BY <3>1
    <3>4. /\ queue' \in Seq(Clients) /\ DOMAIN queue' = DOMAIN queue \cup {Len(queue) + 1}
          /\ queue'[Len(queue) + 1] = c /\ \A i \in DOMAIN queue : queue'[i] = queue[i]
      BY <3>1
    <3>5. pc'[c] = "queued" /\ DOMAIN pc' = Clients /\ \A d \in Clients \ {c} : pc'[d] = pc[d]
      BY <3>1
    <3> QED
      BY <3>1, <3>2, <3>3, <3>4, <3>5
  <2> QED
    BY <2>1, <2>2
<1>15. ASSUME NEW c \in Clients, submitWake(c) PROVE Requests'
  BY <1>15 DEF submitWake, ClientAt
<1>16. CASE coordTake
  <2>1. CASE queue = <<>>
    BY <1>2, <1>16, <2>1 DEF coordTake
  <2>2. CASE queue # <<>>
    <3>1. PICK limit \in 1..Len(queue) : limit = Min({MaxGroup, Len(queue)})
      <4>1. Len(queue) \in Nat \ {0}
        BY <2>2
      <4>2. Min({MaxGroup, Len(queue)}) \in 1..Len(queue)
        BY <4>1, GroupSize
      <4> QED
        BY <4>2
    <3>2. /\ group' = SubSeq(queue, 1, limit) /\ queue' = SubSeq(queue, limit + 1, Len(queue))
          /\ UNCHANGED clientVars
      BY Zenon, <1>16, <2>2, <3>1 DEF coordTake
    <3>3. /\ group' \in Seq(Clients) /\ DOMAIN group' = 1..limit
          /\ \A i \in 1..limit : group'[i] = queue[i]
      <4>1. limit \in Nat /\ limit <= Len(queue)
        OBVIOUS
      <4>2. /\ SubSeq(queue, 1, limit) \in Seq(Clients) /\ Len(SubSeq(queue, 1, limit)) = limit
            /\ \A i \in 1..limit : SubSeq(queue, 1, limit)[i] = queue[i]
        BY <4>1, FrontProperties
      <4> QED
        BY <3>2, <4>2
    <3>4. /\ queue' \in Seq(Clients) /\ DOMAIN queue' = 1..Len(queue) - limit
          /\ \A i \in 1..Len(queue) - limit : queue'[i] = queue[limit + i]
      <4>1. limit \in Nat /\ limit <= Len(queue)
        OBVIOUS
      <4>2. queue \in Seq(Clients)
        OBVIOUS
      <4>3. /\ SubSeq(queue, limit + 1, Len(queue)) \in Seq(Clients)
            /\ Len(SubSeq(queue, limit + 1, Len(queue))) = Len(queue) - limit
            /\ \A i \in 1..Len(queue) - limit : SubSeq(queue, limit + 1, Len(queue))[i] = queue[limit + i]
        BY <4>1, <4>2, SuffixProperties
      <4> QED
        BY <3>2, <4>3
    <3>5. \A i \in 1..Len(queue) - limit : limit + i \in DOMAIN queue /\ limit + i \notin 1..limit /\ i \in Nat
      OBVIOUS
    <3>6. \A i \in 1..limit : i \in DOMAIN queue
      OBVIOUS
    <3>7. \A i, j \in DOMAIN queue' : queue'[i] = queue'[j] => i = j
      <4> TAKE i, j \in DOMAIN queue'
      <4> HAVE queue'[i] = queue'[j]
      <4>1. i \in 1..Len(queue) - limit /\ j \in 1..Len(queue) - limit
        BY <3>4
      <4>2. queue[limit + i] = queue[limit + j]
        BY <3>4, <4>1
      <4>3. limit + i = limit + j
        BY <3>5, <4>1, <4>2
      <4> QED
        BY <3>1, <3>5, <4>1, <4>3
    <3>8. \A i \in DOMAIN queue', j \in DOMAIN group' : queue'[i] # group'[j]
      <4> TAKE i \in DOMAIN queue', j \in DOMAIN group'
      <4>1. i \in 1..Len(queue) - limit /\ j \in 1..limit
        BY <3>3, <3>4
      <4>2. queue'[i] = queue[limit + i] /\ group'[j] = queue[j]
        BY <3>3, <3>4, <4>1
      <4>3. limit + i # j /\ limit + i \in DOMAIN queue /\ j \in DOMAIN queue
        BY <3>5, <3>6, <4>1
      <4> QED
        BY <4>2, <4>3
    <3> QED
      BY <3>2, <3>3, <3>4, <3>5, <3>6, <3>7, <3>8 DEF clientVars
  <2> QED
    BY <2>1, <2>2
<1>17. CASE deliver
  <2>1. /\ group' = <<>> /\ queue' = queue
        /\ pc' = [c \in Clients |-> IF c \in Range(group) THEN "idle" ELSE pc[c]]
        /\ command' = [c \in Clients |-> IF c \in Range(group) THEN NoCommand ELSE command[c]]
    BY <1>17 DEF deliver
  <2>2. \A i \in DOMAIN queue : queue[i] \in Clients /\ queue[i] \notin Range(group)
    BY DEF Range
  <2> QED
    BY <2>1, <2>2
<1>18. CASE coordinator /\ ~coordTake /\ ~deliver
  <2>1. CASE Resulting
    BY <1>2, <2>1, ResultEffect
  <2>2. CASE coordWake \/ coordAdmit \/ groupSync \/ groupSyncFails \/ groupSkipSync
    BY <1>2, <2>2 DEF coordWake, coordAdmit, groupSync, groupSyncFails, groupSkipSync
  <2> QED
    BY ZenonT(40), <1>18, <2>1, <2>2 DEF coordinator, Resulting
<1> QED
  BY Zenon, <1>2, <1>4, <1>5, <1>6, <1>7, <1>8, <1>9, <1>10, <1>11, <1>12, <1>13, <1>14, <1>15, <1>16,
     <1>17, <1>18
     DEF Next, returning, vars, coordVars

\* The loop of processCommitGroup starts at its first request.
Loop == index \in Nat /\ (coord = "execute" => index # 0)

\* coordAdmit starts the loop, each result moves it on, deliver and a new handle reset it.
LEMMA LoopStep == Loop /\ [Next]_vars => Loop'
<1> SUFFICES ASSUME Loop, [Next]_vars PROVE Loop'
  OBVIOUS
<1> USE DEF Loop
<1>1. CASE UNCHANGED <<index, coord>>
  BY <1>1
<1>2. CASE (\E h \in DedupeHorizons : Open(h)) \/ crash
  BY <1>2 DEF Open, crash, NoHandle
<1>3. CASE Recover \/ StartCoordinator \/ snapshotStep
  BY <1>3 DEF Recover, StartCoordinator, snapshotStep, coordVars
<1>4. ASSUME NEW c \in Clients,
             \/ \E id \in CommandIDs : submitBegin(c, id)
             \/ \E call \in Calls : enterKeyed(c, call)
             \/ closeBegin(c) \/ returning(c)
      PROVE  UNCHANGED <<index, coord>>
  BY <1>4 DEF submitBegin, enterKeyed, closeBegin, returning, submitEnqueue, submitWake, enterKeyedFails,
              getAdmitted, snapshotAdmitted, snapshotReturns, closeWake, closeAdmitted, coordVars
<1>5. CASE \/ coordWake \/ coordTake \/ coordAdmit \/ groupSync \/ groupSyncFails \/ groupSkipSync \/ deliver
  <2>1. CASE coordWake \/ coordTake
    BY <2>1 DEF coordWake, coordTake
  <2>2. CASE coordAdmit \/ deliver
    BY <2>2 DEF coordAdmit, deliver
  <2>3. CASE groupSync \/ groupSyncFails \/ groupSkipSync
    BY <2>3 DEF groupSync, groupSyncFails, groupSkipSync
  <2> QED
    BY <1>5, <2>1, <2>2, <2>3
<1>6. CASE Resulting
  BY <1>6, ResultEffect
<1>7. CASE coordinator
  BY ZenonT(40), <1>5, <1>6, <1>7 DEF coordinator, Resulting
<1> QED
  BY <1>1, <1>2, <1>3, <1>4, <1>7 DEF Next, vars, coordVars

-----------------------------------------------------------------------------
(* Queue, coordinator and Close *)

\* A caller that waits has its request in the queue or in the running group.
Waiting == {"queued", "waiting"}
Placed(c) == (\E i \in DOMAIN queue : queue[i] = c) \/ (\E i \in DOMAIN group : group[i] = c)

\* A group exists only while the coordinator handles it; nobody is in a call without a
\* handle; the coordinator leaves an empty queue, which closed keeps empty; every waiting
\* request has its place and none sleeps unnoticed.
Coordination ==
    /\ coord \in {"none", "wait", "check", "done"} => group = <<>>
    /\ coord = "none" => queue = <<>> /\ \A c \in Clients : pc[c] = "idle"
    /\ coord = "done" => closed /\ queue = <<>>
    /\ \A c \in Clients : pc[c] \in Waiting => Placed(c)
    /\ NoLostWakeup

\* A handle that is still being opened has no coordinator.
Opening == phase \in Recovering => coord = "none"

\* Only openKeyed enters recovery, and the coordinator starts when recovery is over.
LEMMA OpeningStep == Opening /\ [Next]_vars => Opening'
<1> SUFFICES ASSUME Opening, [Next]_vars PROVE Opening'
  OBVIOUS
<1> USE DEF Opening, Recovering
<1>1. CASE UNCHANGED <<phase, coord>>
  BY <1>1
<1>2. CASE (\E h \in DedupeHorizons : Open(h)) \/ crash
  BY <1>2 DEF Open, crash
<1>3. CASE Recover
  <2>1. phase \in Recovering /\ coord' = coord
    BY <1>3 DEF Recover, coordVars, loadKeyedSnapshot, replayKeyedWAL, truncateKeyedTail, openStorageFails
  <2> QED
    BY <2>1
<1>4. CASE StartCoordinator
  BY <1>4 DEF StartCoordinator, replayDone, truncateKeyedTailSync, Opened
<1>5. ASSUME NEW c \in Clients,
             \/ \E id \in CommandIDs : submitBegin(c, id)
             \/ \E call \in Calls : enterKeyed(c, call)
             \/ closeBegin(c) \/ submitEnqueue(c) \/ submitWake(c) \/ enterKeyedFails(c) \/ closeWake(c)
             \/ getAdmitted(c)
      PROVE  UNCHANGED <<phase, coord>>
  BY ZenonT(40), <1>5 DEF submitBegin, enterKeyed, closeBegin, submitEnqueue, submitWake, enterKeyedFails, closeWake,
              getAdmitted, GetKeyed, coordVars, storageVars
<1>6. ASSUME NEW c \in Clients, snapshotAdmitted(c) \/ snapshotReturns(c) \/ closeAdmitted(c)
      PROVE  phase' \notin Recovering
  BY <1>6 DEF snapshotAdmitted, snapshotReturns, closeAdmitted, SnapshotKeyed, snapshotSync, snapshotFails, Close
<1>7. CASE snapshotStep
  BY <1>7 DEF snapshotStep, snapshotRename, snapshotSyncDirectory, snapshotTruncate
<1>8. CASE Resulting
  <2>1. UNCHANGED phase
    BY Zenon, <1>8
       DEF Resulting, executePoisoned, executeCancelled, executeAttached, executeDuplicate, executeAborts,
           executeKeyed, executeAppendFails, retry, stage, stageFails, storageVars
  <2> QED
    BY <1>1, <1>8, <2>1, ResultEffect
<1>9. CASE coordWake \/ coordTake \/ coordAdmit \/ groupSync \/ groupSyncFails \/ groupSkipSync \/ deliver
  <2>1. CASE coordWake \/ coordTake
    BY <2>1 DEF coordWake, coordTake, storageVars
  <2>2. CASE coordAdmit \/ deliver
    BY <2>2 DEF coordAdmit, deliver, beginGroup, reply
  <2>3. CASE groupSync \/ groupSyncFails \/ groupSkipSync
    BY <2>3 DEF groupSync, groupSyncFails, groupSkipSync, syncKeyed, syncKeyedFails, skipSync
  <2> QED
    BY <1>9, <2>1, <2>2, <2>3
<1>10. CASE coordinator
  BY Zenon, <1>8, <1>9, <1>10 DEF coordinator, Resulting
<1> QED
  BY <1>1, <1>2, <1>3, <1>4, <1>5, <1>6, <1>7, <1>10 DEF Next, returning, vars, coordVars, storageVars

\* Requests are placed under the lock, taken from the queue in front, and answered by deliver.
LEMMA CoordinationStep == Requests /\ Opening /\ Coordination /\ [Next]_vars => Coordination'
<1> SUFFICES ASSUME Requests, Opening, Coordination, [Next]_vars PROVE Coordination'
  OBVIOUS
<1> USE DEF Coordination, Waiting, Placed, NoLostWakeup
<1>1. CASE UNCHANGED <<closed, queue, wake, coord, group, pc>>
  BY <1>1
<1>2. CASE (\E h \in DedupeHorizons : Open(h)) \/ crash
  BY <1>2 DEF Open, crash, NoHandle, clientVars
<1>3. CASE Recover \/ snapshotStep
  BY <1>1, <1>3 DEF Recover, snapshotStep, coordVars, clientVars
<1>4. CASE StartCoordinator
  <2>1. coord = "none" /\ coord' = "wait" /\ UNCHANGED <<closed, queue, wake, group, pc>>
    BY <1>4 DEF StartCoordinator, replayDone, truncateKeyedTailSync, Opening, Recovering, clientVars
  <2> QED
    BY <2>1
\* A step of a client that is not waiting and does not begin to; it may set closed or wake.
<1>5. ASSUME NEW c \in Clients, NEW to, coord # "none", pc[c] \notin Waiting, to \notin Waiting,
             pc' = [pc EXCEPT ![c] = to], UNCHANGED <<queue, group, coord>>,
             closed => closed', wake => wake', pc[c] = "closing" => wake'
      PROVE  Coordination'
  <2>1. pc'[c] = to /\ \A d \in Clients \ {c} : pc'[d] = pc[d]
    BY <1>5 DEF Requests
  <2>2. \A d \in Clients : pc'[d] \in Waiting => Placed(d)'
    BY <1>5, <2>1
  <2>3. NoLostWakeup'
    BY <1>5, <2>1
  <2> QED
    BY <1>5, <2>2, <2>3
<1>6. ASSUME NEW c \in Clients, pc[c] # "idle" PROVE coord # "none"
  BY <1>6
<1>7. ASSUME NEW c \in Clients, NEW id \in CommandIDs, submitBegin(c, id) PROVE Coordination'
  BY <1>5, <1>7 DEF submitBegin, ClientAt, Handle, coordVars
<1>8. ASSUME NEW c \in Clients, NEW call \in Calls, enterKeyed(c, call) PROVE Coordination'
  BY <1>5, <1>8 DEF enterKeyed, ClientAt, Handle, coordVars
<1>9. ASSUME NEW c \in Clients, closeBegin(c) \/ closeWake(c) PROVE Coordination'
  BY <1>5, <1>6, <1>9 DEF closeBegin, closeWake, ClientAt, Handle
<1>10. ASSUME NEW c \in Clients, getAdmitted(c) \/ snapshotAdmitted(c) PROVE Coordination'
  <2>1. PICK to \in {"idle", "snapshotting"} : pc' = [pc EXCEPT ![c] = to]
    BY <1>10 DEF getAdmitted, snapshotAdmitted, ClientAt
  <2>2. pc[c] \in {"get", "snapshot"} /\ UNCHANGED <<closed, queue, wake, coord, group>>
    BY <1>10 DEF getAdmitted, snapshotAdmitted, ClientAt, coordVars
  <2> QED
    BY <1>5, <1>6, <2>1, <2>2
<1>11. ASSUME NEW c \in Clients, enterKeyedFails(c) PROVE Coordination'
  BY <1>5, <1>6, <1>11 DEF enterKeyedFails, coordVars
<1>12. ASSUME NEW c \in Clients, snapshotReturns(c) PROVE Coordination'
  BY <1>5, <1>6, <1>12 DEF snapshotReturns, ClientAt, coordVars
<1>13. ASSUME NEW c \in Clients, closeAdmitted(c) PROVE Coordination'
  BY <1>5, <1>6, <1>13 DEF closeAdmitted, ClientAt, coordVars
<1>14. ASSUME NEW c \in Clients, submitEnqueue(c) PROVE Coordination'
  <2>1. CASE closed
    BY ZenonT(40), <1>5, <1>6, <1>14, <2>1 DEF submitEnqueue, ClientAt
  <2>2. CASE ~closed
    <3>1. /\ pc[c] = "submit" /\ pc' = [pc EXCEPT ![c] = "queued"] /\ queue' = Append(queue, c)
          /\ UNCHANGED <<closed, wake, coord, group>>
      BY <1>14, <2>2 DEF submitEnqueue, ClientAt
    <3>2. /\ DOMAIN queue' = DOMAIN queue \cup {Len(queue) + 1} /\ queue'[Len(queue) + 1] = c
          /\ \A i \in DOMAIN queue : queue'[i] = queue[i]
      BY <3>1 DEF Requests
    <3>3. pc'[c] = "queued" /\ \A d \in Clients \ {c} : pc'[d] = pc[d]
      BY <3>1 DEF Requests
    <3>4. coord \notin {"none", "done"}
      BY <1>6, <2>2, <3>1
    <3>5. \A d \in Clients : pc'[d] \in Waiting => Placed(d)'
      BY <3>1, <3>2, <3>3
    <3> QED
      BY <3>1, <3>3, <3>4, <3>5
  <2> QED
    BY ZenonT(40), <2>1, <2>2
<1>15. ASSUME NEW c \in Clients, submitWake(c) PROVE Coordination'
  <2>1. /\ pc[c] = "queued" /\ pc' = [pc EXCEPT ![c] = "waiting"] /\ wake'
        /\ UNCHANGED <<closed, queue, coord, group>>
    BY <1>15 DEF submitWake, ClientAt
  <2>2. pc'[c] = "waiting" /\ \A d \in Clients \ {c} : pc'[d] = pc[d]
    BY <2>1 DEF Requests
  <2>3. \A d \in Clients : pc'[d] \in Waiting => Placed(d)'
    BY <2>1, <2>2
  <2> QED
    BY <1>6, <2>1, <2>3
<1>16. CASE coordWake
  BY <1>16 DEF coordWake, clientVars
<1>17. CASE coordTake
  <2>1. CASE queue = <<>>
    BY <1>17, <2>1 DEF coordTake, clientVars
  <2>2. CASE queue # <<>>
    <3>1. PICK limit \in 1..Len(queue) : limit = Min({MaxGroup, Len(queue)})
      <4>1. Len(queue) \in Nat \ {0}
        BY <2>2 DEF Requests
      <4> QED
        BY <4>1, GroupSize
    <3>2. /\ group' = SubSeq(queue, 1, limit) /\ queue' = SubSeq(queue, limit + 1, Len(queue))
          /\ coord' = "admit" /\ coord = "check" /\ UNCHANGED clientVars
      BY ZenonT(40), <1>17, <2>2, <3>1 DEF coordTake
    <3>3. limit \in Nat /\ limit <= Len(queue) /\ queue \in Seq(Clients)
      BY DEF Requests
    <3>4. DOMAIN group' = 1..limit /\ \A i \in 1..limit : group'[i] = queue[i]
      BY <3>2, <3>3, FrontProperties
    <3>5. /\ DOMAIN queue' = 1..Len(queue) - limit
          /\ \A i \in 1..Len(queue) - limit : queue'[i] = queue[limit + i]
      BY <3>2, <3>3, SuffixProperties
    <3>6. ASSUME NEW i \in DOMAIN queue
          PROVE  \/ \E j \in DOMAIN group' : group'[j] = queue[i]
                 \/ \E j \in DOMAIN queue' : queue'[j] = queue[i]
      <4>1. CASE i <= limit
        BY <3>3, <3>4, <4>1
      <4>2. CASE i > limit
        <5>1. i - limit \in 1..Len(queue) - limit /\ limit + (i - limit) = i
          BY <3>3, <4>2
        <5> QED
          BY <3>5, <5>1
      <4> QED
        BY <3>3, <4>1, <4>2
    <3>7. \A d \in Clients : pc'[d] \in Waiting => Placed(d)'
      <4> SUFFICES ASSUME NEW d \in Clients, pc'[d] \in Waiting PROVE Placed(d)'
        OBVIOUS
      <4>1. PICK i \in DOMAIN queue : queue[i] = d
        BY <3>2 DEF clientVars
      <4> QED
        BY <3>6, <4>1
    <3> QED
      BY <3>2, <3>7
  <2> QED
    BY <2>1, <2>2
<1>18. CASE coordAdmit \/ groupSync \/ groupSyncFails \/ groupSkipSync
  <2>1. /\ coord \in {"admit", "execute"} /\ coord' \in {"execute", "deliver"}
        /\ UNCHANGED <<closed, queue, wake, group, pc>>
    BY <1>18 DEF coordAdmit, groupSync, groupSyncFails, groupSkipSync, Executed, clientVars
  <2> QED
    BY <2>1
<1>19. CASE Resulting
  <2>1. Executing /\ UNCHANGED <<closed, queue, wake, coord, group, clientVars>>
    BY Zenon, <1>19
       DEF Resulting, executePoisoned, executeCancelled, executeAttached, executeDuplicate, executeAborts,
           executeKeyed, executeAppendFails, Result
  <2> QED
    BY <1>1, <2>1 DEF clientVars
<1>20. CASE deliver
  <2>1. /\ coord = "deliver" /\ coord' = "check" /\ group' = <<>> /\ queue' = queue
        /\ pc' = [c \in Clients |-> IF c \in Range(group) THEN "idle" ELSE pc[c]]
    BY <1>20 DEF deliver
  <2>2. \A d \in Clients : pc'[d] \in Waiting => Placed(d)'
    BY <2>1 DEF Range
  <2> QED
    BY <2>1, <2>2
<1>21. CASE coordinator
  BY Zenon, <1>16, <1>17, <1>18, <1>19, <1>20, <1>21 DEF coordinator, Resulting
<1> QED
  BY Zenon, <1>1, <1>2, <1>3, <1>4, <1>7, <1>8, <1>9, <1>10, <1>11, <1>12, <1>13, <1>14, <1>15, <1>21
     DEF Next, returning, vars, coordVars, clientVars

\* Requests and coordinator at every moment of the database's life.
LEMMA CoordinationInvariant == Spec => [](Requests /\ Coordination)
<1> DEFINE Inv == Requests /\ Opening /\ Coordination
<1>1. Init => Inv
  BY DEF Init, StorageInit, Requests, InCall, Opening, Recovering, Coordination, Waiting, NoLostWakeup
<1>2. Inv /\ [Next]_vars => Inv'
  BY RequestsStep, OpeningStep, CoordinationStep
<1>3. Inv => Requests /\ Coordination
  OBVIOUS
<1> HIDE DEF Inv
<1> QED
  BY <1>1, <1>2, <1>3, PTL DEF Spec

\* A coordinator that has returned leaves nobody behind: no request is queued and no caller of
\* SubmitKeyed waits, however Close and the callers overlapped.
THEOREM NobodyLeftBehind == Spec => []DrainedAtExit
<1>1. Coordination => DrainedAtExit
  BY DEF Coordination, Waiting, Placed, DrainedAtExit
<1> QED
  BY <1>1, CoordinationInvariant, PTL

\* The single token of commit.wake is enough: a queued request never sleeps beside a waiting
\* coordinator unless somebody is about to send the token.
THEOREM WakeupsNotLost == Spec => []NoLostWakeup
<1>1. Coordination => NoLostWakeup
  BY DEF Coordination
<1> QED
  BY <1>1, CoordinationInvariant, PTL

-----------------------------------------------------------------------------
(* The results of a group *)

\* The requests of the group that have a result, and what is right of the result of each:
\* it names the decision of the caller's command; if it depends on the group's Sync its
\* decision waits for the Sync, and is on every medium when the results are delivered; a
\* first handle answers anything else from what is there already.
Done == {i \in DOMAIN group : i < index}
Kind(i) == results[group[i]].kind
Sequence(i) == results[group[i]].sequence
Right(i) ==
    Kind(i) \in {"ok", "duplicate"} =>
        /\ Sequence(i) \in 1..Len(log) /\ log[Sequence(i)].rec.id = command[group[i]]
        /\ Kind(i) = "ok" => group[i] \in durable
        /\ group[i] \in durable /\ coord = "execute" => \E p \in pending : p.sequence = Sequence(i)
        /\ group[i] \in durable /\ coord = "deliver" => OnDisk(Sequence(i))
        /\ opens = 1 /\ group[i] \notin durable => OnDisk(Sequence(i))
InOrder == \A i, j \in Done : i < j /\ Kind(i) = "ok" /\ Kind(j) = "ok" => Sequence(i) < Sequence(j)

\* staged leads to the request that decided an ID in this group, and what waits for the
\* Sync has such a request (a group of one has nobody left to look).
StagedHere ==
    /\ durable \subseteq {group[i] : i \in Done}
    /\ \A c \in CommandIDs : staged[c] # 0 =>
           staged[c] \in Done /\ Kind(staged[c]) = "ok" /\ command[group[staged[c]]] = c
    /\ \A p \in pending : staged[p.id] # 0 \/ index > Len(group)

GroupAnswers ==
    /\ DOMAIN results = Clients /\ DOMAIN staged = CommandIDs
    /\ \A i, j \in DOMAIN group : group[i] = group[j] => i = j
    /\ coord = "execute" => phase = "group" /\ StagedHere
    /\ coord = "deliver" => phase = "reply" /\ index > Len(group)
    /\ coord \in {"execute", "deliver"} => InOrder /\ \A i \in Done : Right(i)

\* What is on every medium stays there.
DiskKept == \A n \in Nat : n <= Len(log) /\ OnDisk(n) => OnDisk(n)'

\* What the results rest on: pending and dedupe name decisions of the timeline, a serving
\* handle has all of them in memory, a first handle has them on the media or waits for their
\* Sync, and the Sync brings what waits for it to the media.
StoreFacts ==
    /\ TypeOK /\ TypeOK' /\ DiskKept /\ mem.sequence <= Len(log)
    /\ phase \notin {"group", "reply"} => pending = {}
    /\ phase = "group" /\ ~poisoned => mem.sequence = Len(log)
    /\ \A p \in pending : p.sequence \in 1..Len(log) /\ log[p.sequence].rec = p
    /\ \A c \in CommandIDs : mem.dedupe[c].sequence # 0 =>
           mem.dedupe[c].sequence \in 1..Len(log) /\ log[mem.dedupe[c].sequence].rec.id = c
    /\ opens = 1 /\ phase = "group" /\ ~poisoned =>
           \A n \in 1..Len(log) : OnDisk(n) \/ \E p \in pending : p.sequence = n
    /\ syncKeyed => \A p \in pending : OnDisk(p.sequence)'

\* What a step that gives the running request a result does to the store and to the rest.
StoreStep ==
    /\ phase' = "group" /\ opens' = opens /\ DiskKept
    /\ Len(log) <= Len(log') /\ Len(log') \in Nat /\ pending \subseteq pending'
    /\ \A m \in 1..Len(log) : log'[m] = log[m]
GroupStep(kind) ==
    /\ durable' \in {durable, durable \cup {Requester}} /\ DOMAIN staged' = CommandIDs
    /\ \A c \in CommandIDs : staged'[c] = staged[c] \/ staged'[c] = 0
                                 \/ (staged'[c] = index /\ kind = "ok" /\ command[Requester] = c)
    /\ \A p \in pending' : staged'[p.id] # 0 \/ index + 1 > Len(group)
AnswerStep(kind, n) == Executing /\ Result(kind, n) /\ StoreStep /\ GroupStep(kind)

\* The new result is right.
AnswerRight(kind, n) ==
    kind \in {"ok", "duplicate"} =>
        /\ n \in 1..Len(log') /\ log'[n].rec.id = command[Requester]
        /\ kind = "ok" => Requester \in durable' /\ n > Len(log)
        /\ Requester \in durable' => \E p \in pending' : p.sequence = n
        /\ opens = 1 /\ Requester \notin durable' => OnDisk(n)'

\* One more request of the running group gets its result.
LEMMA AnswerGiven ==
    ASSUME TypeOK, Requests, Loop, GroupAnswers, NEW kind, NEW n, AnswerStep(kind, n), AnswerRight(kind, n)
    PROVE  GroupAnswers'
<1>1. /\ coord = "execute" /\ index \in DOMAIN group /\ index \in Nat /\ group[index] \in Clients
      /\ DOMAIN results = Clients /\ group \in Seq(Clients) /\ StagedHere /\ InOrder /\ \A i \in Done : Right(i)
      /\ \A i, j \in DOMAIN group : group[i] = group[j] => i = j
      /\ Len(log) \in Nat /\ \A i \in DOMAIN group : i \in Nat
  BY DEF TypeOK, AnswerStep, StoreStep, GroupAnswers, Executing, Loop, Requests
<1>2. /\ results' = [results EXCEPT ![group[index]] = [kind |-> kind, sequence |-> n]]
      /\ index' = index + 1 /\ UNCHANGED <<coord, group, command>> /\ phase' = "group" /\ opens' = opens
      /\ durable' \in {durable, durable \cup {Requester}} /\ DOMAIN staged' = CommandIDs
  BY DEF AnswerStep, StoreStep, GroupStep, Result, Requester, clientVars
<1>x. PICK x \in DOMAIN group : x = index
  BY <1>1
<1>3. Done' = Done \cup {x} /\ x \notin Done
  BY <1>1, <1>2, <1>x DEF Done
<1>4. /\ Kind(x)' = kind /\ Sequence(x)' = n
      /\ \A i \in Done : Kind(i)' = Kind(i) /\ Sequence(i)' = Sequence(i)
  <2>1. results'[group[x]] = [kind |-> kind, sequence |-> n]
    BY <1>1, <1>2, <1>x
  <2>2. \A i \in Done : group[i] # group[index] /\ group[i] \in Clients
    BY <1>1 DEF Done
  <2>3. \A i \in Done : results'[group[i]] = results[group[i]]
    BY <1>1, <1>2, <2>2
  <2> QED
    BY <1>2, <2>1, <2>3 DEF Kind, Sequence
<1>5. durable \subseteq {group[i] : i \in Done} /\ group[index] \notin durable
  BY <1>1 DEF StagedHere, Done
<1>6. ASSUME NEW i \in Done, Kind(i) \in {"ok", "duplicate"}
      PROVE  Sequence(i) \in 1..Len(log) /\ (group[i] \in durable' <=> group[i] \in durable)
  <2>1. group[i] # group[index]
    BY <1>1 DEF Done
  <2> QED
    BY <1>1, <1>2, <1>6, <2>1 DEF Right, Requester
<1>7. ASSUME NEW i \in Done PROVE Right(i)'
  <2> SUFFICES ASSUME Kind(i) \in {"ok", "duplicate"} PROVE Right(i)'
    BY <1>4 DEF Right
  <2> DEFINE m == Sequence(i)
  <2>1. /\ m \in 1..Len(log) /\ log[m].rec.id = command[group[i]]
        /\ Kind(i) = "ok" => group[i] \in durable
        /\ group[i] \in durable => \E p \in pending : p.sequence = m
        /\ opens = 1 /\ group[i] \notin durable => OnDisk(m)
    BY <1>1, <1>6 DEF Right
  <2>2. m \in 1..Len(log') /\ log'[m] = log[m] /\ m \in Nat /\ m <= Len(log)
    <3>1. Len(log) <= Len(log') /\ Len(log') \in Nat /\ \A j \in 1..Len(log) : log'[j] = log[j]
      BY DEF AnswerStep, StoreStep
    <3> HIDE DEF m
    <3> QED
      BY <1>1, <2>1, <3>1
  <2> HIDE DEF m
  <2>3. PICK k \in Nat : k = m
    BY <2>2
  <2>4. opens = 1 /\ group[i] \notin durable => OnDisk(k)'
    BY <2>1, <2>2, <2>3 DEF AnswerStep, StoreStep, DiskKept
  <2>5. Sequence(i)' = k /\ Kind(i)' = Kind(i)
    BY <1>4, <2>3 DEF m
  <2>6. opens = 1 /\ group[i] \notin durable => OnDisk(Sequence(i))'
    BY <2>4, <2>5 DEF OnDisk
  <2>7. pending \subseteq pending'
    BY DEF AnswerStep, StoreStep
  <2>8. /\ group'[i] = group[i] /\ command' = command /\ opens' = opens /\ coord' # "deliver"
        /\ group[i] \in durable' <=> group[i] \in durable
    BY <1>1, <1>2, <1>6
  <2>9. k \in 1..Len(log') /\ log'[k] = log[k] /\ log[k].rec.id = command[group[i]]
    BY <2>1, <2>2, <2>3
  <2>10. group[i] \in durable => \E p \in pending' : p.sequence = k
    BY <2>1, <2>3, <2>7
  <2> QED
    BY <2>1, <2>5, <2>6, <2>8, <2>9, <2>10 DEF Right
<1>8. Right(x)'
  <2> SUFFICES ASSUME kind \in {"ok", "duplicate"} PROVE Right(x)'
    BY <1>4 DEF Right
  <2>1. opens = 1 /\ group[x] \notin durable' => OnDisk(Sequence(x))'
    BY <1>x, <1>4 DEF AnswerRight, OnDisk, Requester
  <2> QED
    BY <1>1, <1>2, <1>x, <1>4, <2>1 DEF AnswerRight, Right, Requester
<1>9. InOrder'
  <2> SUFFICES ASSUME NEW i \in Done', NEW j \in Done', i < j, Kind(i)' = "ok", Kind(j)' = "ok"
               PROVE  Sequence(i)' < Sequence(j)'
    BY DEF InOrder
  <2>1. i \in Done
    BY <1>1, <1>x, <1>3 DEF Done
  <2>2. Sequence(i)' = Sequence(i) /\ Kind(i) = "ok" /\ Sequence(i) \in 1..Len(log)
    BY <1>4, <1>6, <2>1
  <2>3. CASE j = x
    BY <1>1, <1>4, <2>2, <2>3 DEF AnswerRight
  <2>4. CASE j \in Done
    BY <1>1, <1>4, <2>1, <2>2, <2>4 DEF InOrder
  <2> QED
    BY <1>3, <2>3, <2>4
<1>10. StagedHere'
  <2>1. durable' \subseteq {group'[i] : i \in Done'}
    BY <1>2, <1>x, <1>3, <1>5 DEF Requester
  <2>2. ASSUME NEW c \in CommandIDs, staged'[c] # 0
        PROVE  \E i \in Done' : staged'[c] = i /\ Kind(i)' = "ok" /\ command'[group'[i]] = c
    <3>1. CASE staged'[c] = index /\ kind = "ok" /\ command[Requester] = c
      BY <1>2, <1>x, <1>3, <1>4, <3>1 DEF Requester
    <3>2. CASE staged'[c] = staged[c]
      <4>1. PICK i \in Done : i = staged[c] /\ Kind(i) = "ok" /\ command[group[i]] = c
        BY <1>1, <2>2, <3>2 DEF StagedHere
      <4> QED
        BY <1>2, <1>3, <1>4, <3>2, <4>1
    <3> QED
      BY <2>2, <3>1, <3>2 DEF AnswerStep, GroupStep
  <2>3. \A c \in CommandIDs : staged'[c] # 0 =>
            staged'[c] \in Done' /\ results'[group'[staged'[c]]].kind = "ok" /\ command'[group'[staged'[c]]] = c
    BY <2>2 DEF Kind
  <2> QED
    BY <1>2, <2>1, <2>3 DEF AnswerStep, GroupStep, StagedHere, Kind
<1> QED
  BY <1>1, <1>2, <1>3, <1>7, <1>8, <1>9, <1>10 DEF GroupAnswers

\* Where the counters of the store and of the group are.
LEMMA NumbersKnown ==
    ASSUME StoreFacts, Requests, Loop, GroupAnswers
    PROVE  /\ TypeOK /\ Len(log) \in Nat /\ Len(log') \in Nat /\ log \in Seq(Entry) /\ index \in Nat
           /\ mem.sequence \in Nat /\ mem.sequence <= Len(log) /\ DOMAIN staged = CommandIDs /\ DiskKept
<1>1. TypeOK /\ TypeOK' /\ DiskKept /\ mem.sequence <= Len(log)
  BY DEF StoreFacts
<1>2. log \in Seq(Entry) /\ Len(log) \in Nat /\ mem.sequence \in Nat
  BY <1>1 DEF TypeOK, State
<1>3. Len(log') \in Nat
  BY <1>1 DEF TypeOK
<1> QED
  BY <1>1, <1>2, <1>3 DEF Loop, GroupAnswers

\* The request that executes has no result yet, and what was staged before it is known.
LEMMA RunningRequest ==
    ASSUME StoreFacts, Requests, Loop, GroupAnswers, Executing
    PROVE  /\ coord = "execute" /\ phase = "group" /\ StagedHere /\ \A i \in Done : Right(i)
           /\ index \in DOMAIN group /\ command[Requester] \in CommandIDs /\ Requester \notin durable
           /\ \A p \in pending : staged[p.id] # 0
<1>a. index \in Nat
  BY NumbersKnown
<1>1. index \in DOMAIN group
  BY <1>a DEF Requests, Loop, Executing
<1>2. coord = "execute" /\ phase = "group" /\ StagedHere /\ \A i \in Done : Right(i)
  BY DEF GroupAnswers, Executing
<1>3. Requester \notin durable
  <2>1. durable \subseteq {group[i] : i \in Done} /\ \A i \in Done : i \in DOMAIN group /\ i < index
    BY <1>2 DEF StagedHere, Done
  <2>2. \A i \in Done : i # index
    BY <1>a, <2>1
  <2>3. \A i \in Done : group[i] # group[index]
    BY <1>1, <2>1, <2>2 DEF GroupAnswers
  <2> QED
    BY <2>1, <2>3 DEF Requester
<1>4. command[Requester] \in CommandIDs
  BY <1>1 DEF Requests, InCall, Requester
<1>5. \A p \in pending : staged[p.id] # 0
  BY <1>a, <1>2 DEF StagedHere, Executing, Requests
<1> QED
  BY <1>1, <1>2, <1>3, <1>4, <1>5

-----------------------------------------------------------------------------
(* The store below *)

\* Every step of callers and coordinator is a step of the store or leaves it alone.
LEMMA DatabaseStep == Requests /\ Loop /\ [Next]_vars => [StorageNext]_storageVars
<1> SUFFICES ASSUME Requests, Loop, [Next]_vars PROVE [StorageNext]_storageVars
  OBVIOUS
<1> USE DEF StorageNext
<1>1. CASE UNCHANGED vars
  BY <1>1 DEF vars
<1>2. CASE \E h \in DedupeHorizons : Open(h)
  BY <1>2 DEF Open
<1>3. CASE Recover \/ StartCoordinator \/ snapshotStep \/ crash
  BY <1>3 DEF Recover, StartCoordinator, snapshotStep, crash
<1>4. ASSUME NEW c \in Clients,
             \/ \E id \in CommandIDs : submitBegin(c, id)
             \/ \E call \in Calls : enterKeyed(c, call)
             \/ closeBegin(c) \/ submitEnqueue(c) \/ submitWake(c) \/ enterKeyedFails(c) \/ closeWake(c)
      PROVE  UNCHANGED storageVars
  BY <1>4 DEF submitBegin, enterKeyed, closeBegin, submitEnqueue, submitWake, enterKeyedFails, closeWake
<1>5. ASSUME NEW c \in Clients,
             getAdmitted(c) \/ snapshotAdmitted(c) \/ snapshotReturns(c) \/ closeAdmitted(c)
      PROVE  StorageNext
  BY <1>5 DEF getAdmitted, snapshotAdmitted, snapshotReturns, closeAdmitted
<1>6. CASE coordinator
  <2>1. CASE coordWake \/ coordTake \/ executePoisoned \/ executeCancelled \/ executeAborts
    BY <2>1 DEF coordWake, coordTake, executePoisoned, executeCancelled, executeAborts
  <2>2. CASE coordAdmit \/ groupSync \/ groupSyncFails \/ groupSkipSync \/ deliver
    BY <2>2 DEF coordAdmit, groupSync, groupSyncFails, groupSkipSync, deliver
  <2>3. ASSUME Executing PROVE command[Requester] \in CommandIDs
    <3>1. index \in DOMAIN group
      BY <2>3 DEF Requests, Loop, Executing
    <3> QED
      BY <3>1 DEF Requests, InCall, Requester
  <2>4. CASE executeAttached \/ executeDuplicate
    <3>1. PICK c \in CommandIDs : c = command[Requester]
      BY <2>3, <2>4 DEF executeAttached, executeDuplicate
    <3>2. retry(c)
      BY <2>4, <3>1 DEF executeAttached, executeDuplicate
    <3> QED
      BY <3>2
  <2>5. ASSUME NEW applied \in BOOLEAN, NEW w \in Writes,
               executeKeyed(applied, w) \/ executeAppendFails(applied, w)
        PROVE  StorageNext
    <3>1. PICK c \in CommandIDs : c = command[Requester]
      BY <2>3, <2>5 DEF executeKeyed, executeAppendFails
    <3>2. stage(c, applied, w) \/ stageFails(c, applied, w)
      BY <2>5, <3>1 DEF executeKeyed, executeAppendFails
    <3> QED
      BY <3>2
  <2> QED
    BY <1>6, <2>1, <2>2, <2>4, <2>5 DEF coordinator
<1> QED
  BY <1>1, <1>2, <1>3, <1>4, <1>5, <1>6 DEF Next, returning

\* The database implements its storage engine: with callers of SubmitKeyed, GetKeyed,
\* SnapshotKeyed and Close in any order and the commit coordinator in between, the store
\* only takes the steps that one authority at a time may take.
THEOREM DatabaseImplementsStorage == Spec => StorageSpec
<1> DEFINE Inv == Requests /\ Loop
<1>1. Init => Inv
  BY DEF Init, Requests, InCall, Loop
<1>2. Inv /\ [Next]_vars => Inv'
  BY RequestsStep, LoopStep
<1>3. Inv /\ [Next]_vars => [StorageNext]_storageVars
  BY DatabaseStep
<1>4. Init => StorageInit
  BY DEF Init
<1> HIDE DEF Inv
<1> QED
  BY <1>1, <1>2, <1>3, <1>4, PTL DEF Spec, StorageSpec

-----------------------------------------------------------------------------
(* Durability and the promise *)

\* What SubmitKeyed has reported survives every crash of the whole database.
THEOREM DatabaseDurability ==
    ASSUME DirectorySync
    PROVE  Spec => []AckedDurable
BY DatabaseImplementsStorage, Durability, PTL

\* The database keeps the promise of its abstract log of decisions.
THEOREM DatabaseKeepsPromise ==
    ASSUME PlainText, OneHorizon, DirectorySync
    PROVE  Spec => ImplementsDecisionLog
BY DatabaseImplementsStorage, PromiseKept

-----------------------------------------------------------------------------
(* The poison barrier *)

\* Once an append, a Sync or a snapshot has failed, the handle acknowledges nothing new,
\* decides nothing and installs no snapshot until the database is opened again.
THEOREM PoisonHolds == Spec => PoisonBarrier
<1>1. StorageSpec => [](TypeOK /\ PoisonedIdle)
  BY BoundsInvariant, PoisonedIdleInvariant, PTL
<1>2. PoisonedStep => [PoisonedStep]_vars
  OBVIOUS
<1>3. StorageSpec => [][PoisonedStep]_vars
  BY <1>1, <1>2, PoisonStops, PTL DEF StorageSpec
<1> QED
  BY <1>3, DatabaseImplementsStorage, PTL DEF PoisonBarrier, PoisonedStep

-----------------------------------------------------------------------------
(* The answers *)

\* A result that is neither a decision nor a duplicate.
LEMMA NoAnswer ==
    ASSUME StoreFacts, Requests, Loop, GroupAnswers, NEW kind, NEW n, Executing, Result(kind, n), kind \notin {"ok", "duplicate"},
           UNCHANGED <<phase, opens, log, pending, staged, durable>>
    PROVE  GroupAnswers'
<1>a. /\ TypeOK /\ Len(log) \in Nat /\ Len(log') \in Nat /\ log \in Seq(Entry) /\ index \in Nat
      /\ mem.sequence \in Nat /\ mem.sequence <= Len(log) /\ DOMAIN staged = CommandIDs /\ DiskKept
  BY NumbersKnown
<1>b. /\ coord = "execute" /\ phase = "group" /\ StagedHere /\ \A i \in Done : Right(i)
      /\ index \in DOMAIN group /\ command[Requester] \in CommandIDs /\ Requester \notin durable
      /\ \A p \in pending : staged[p.id] # 0
  BY RunningRequest
<1>1. AnswerStep(kind, n)
  BY <1>a, <1>b DEF AnswerStep, StoreStep, GroupStep
<1>2. AnswerRight(kind, n)
  BY DEF AnswerRight
<1> QED
  BY <1>a, <1>1, <1>2, AnswerGiven

\* A retry that meets its original in this group shares its decision and its fate.
LEMMA AttachedAnswer ==
    ASSUME StoreFacts, Requests, Loop, GroupAnswers, executeAttached
    PROVE  GroupAnswers'
<1>a. /\ TypeOK /\ Len(log) \in Nat /\ Len(log') \in Nat /\ log \in Seq(Entry) /\ index \in Nat
      /\ mem.sequence \in Nat /\ mem.sequence <= Len(log) /\ DOMAIN staged = CommandIDs /\ DiskKept
  BY NumbersKnown
<1>b. /\ coord = "execute" /\ phase = "group" /\ StagedHere /\ \A i \in Done : Right(i)
      /\ index \in DOMAIN group /\ command[Requester] \in CommandIDs /\ Requester \notin durable
      /\ \A p \in pending : staged[p.id] # 0
  BY RunningRequest DEF executeAttached
<1>1. PICK c \in CommandIDs : c = command[Requester]
  BY <1>b DEF executeAttached
<1>2. /\ Executing /\ staged[c] # 0 /\ durable' = durable \cup {Requester}
      /\ UNCHANGED <<phase, opens, log, pending, staged>>
      /\ Result("duplicate", results[group[staged[c]]].sequence)
  BY Zenon, <1>1 DEF executeAttached, retry, history
<1>3. PICK i \in Done : i = staged[c] /\ Kind(i) = "ok" /\ command[group[i]] = c
  BY Zenon, <1>b, <1>2 DEF StagedHere
<1>4. /\ Right(i) /\ coord = "execute"
      /\ Sequence(i) \in 1..Len(log) /\ log[Sequence(i)].rec.id = c /\ \E p \in pending : p.sequence = Sequence(i)
  BY Zenon, <1>b, <1>2, <1>3 DEF Right
<1>5. PICK n \in Nat : n = Sequence(i)
  BY <1>a, <1>4
<1>6. Result("duplicate", n)
  BY <1>2, <1>3, <1>5 DEF Sequence
<1>7. AnswerStep("duplicate", n)
  BY <1>a, <1>b, <1>2, <1>6 DEF AnswerStep, StoreStep, GroupStep
<1>8. AnswerRight("duplicate", n)
  BY <1>1, <1>2, <1>4, <1>5 DEF AnswerRight
<1> QED
  BY <1>a, <1>7, <1>8, AnswerGiven

\* A retry of an older decision is answered from the dedupe window.
LEMMA DuplicateAnswer ==
    ASSUME StoreFacts, Requests, Loop, GroupAnswers, executeDuplicate
    PROVE  GroupAnswers'
<1>a. /\ TypeOK /\ Len(log) \in Nat /\ Len(log') \in Nat /\ log \in Seq(Entry) /\ index \in Nat
      /\ mem.sequence \in Nat /\ mem.sequence <= Len(log) /\ DOMAIN staged = CommandIDs /\ DiskKept
  BY NumbersKnown
<1>b. /\ coord = "execute" /\ phase = "group" /\ StagedHere /\ \A i \in Done : Right(i)
      /\ index \in DOMAIN group /\ command[Requester] \in CommandIDs /\ Requester \notin durable
      /\ \A p \in pending : staged[p.id] # 0
  BY RunningRequest DEF executeDuplicate
<1>1. PICK c \in CommandIDs : c = command[Requester]
  BY Zenon, <1>b DEF executeDuplicate
<1>2. /\ Executing /\ staged[c] = 0 /\ ~poisoned /\ mem.dedupe[c].sequence # 0
      /\ UNCHANGED <<phase, opens, log, pending, staged, durable>>
      /\ Result("duplicate", mem.dedupe[c].sequence)
  BY Zenon, <1>1 DEF executeDuplicate, retry, history
<1>3. mem.dedupe[c].sequence \in 1..Len(log) /\ log[mem.dedupe[c].sequence].rec.id = c
  BY <1>2 DEF StoreFacts
<1>4. PICK n \in 1..Len(log) : n = mem.dedupe[c].sequence
  BY <1>3
<1>5. ~\E p \in pending : p.sequence = n
  <2> SUFFICES ASSUME NEW p \in pending, p.sequence = n PROVE FALSE
    OBVIOUS
  <2>1. log[n].rec = p
    BY DEF StoreFacts
  <2> QED
    BY Zenon, <1>b, <1>2, <1>3, <1>4, <2>1
<1>6. opens = 1 => OnDisk(n)
  BY <1>b, <1>2, <1>5 DEF StoreFacts
<1>7. opens = 1 => OnDisk(n)'
  BY <1>a, <1>6 DEF DiskKept
<1>8. Result("duplicate", n) /\ log[n].rec.id = command[Requester]
  BY Zenon, <1>1, <1>2, <1>3, <1>4
<1>9. AnswerStep("duplicate", n)
  BY <1>a, <1>b, <1>2, <1>8 DEF AnswerStep, StoreStep, GroupStep
<1>10. AnswerRight("duplicate", n)
  BY <1>b, <1>2, <1>4, <1>7, <1>8 DEF AnswerRight
<1> QED
  BY <1>a, <1>9, <1>10, AnswerGiven

\* A new decision: the result waits for the Sync of its frame.
LEMMA DecisionAnswer ==
    ASSUME StoreFacts, Requests, Loop, GroupAnswers, NEW applied \in BOOLEAN, NEW w \in Writes, executeKeyed(applied, w)
    PROVE  GroupAnswers'
<1>a. /\ TypeOK /\ Len(log) \in Nat /\ Len(log') \in Nat /\ log \in Seq(Entry) /\ index \in Nat
      /\ mem.sequence \in Nat /\ mem.sequence <= Len(log) /\ DOMAIN staged = CommandIDs /\ DiskKept
  BY NumbersKnown
<1>b. /\ coord = "execute" /\ phase = "group" /\ StagedHere /\ \A i \in Done : Right(i)
      /\ index \in DOMAIN group /\ command[Requester] \in CommandIDs /\ Requester \notin durable
      /\ \A p \in pending : staged[p.id] # 0
  BY RunningRequest DEF executeKeyed
<1>1. PICK c \in CommandIDs : c = command[Requester]
  BY <1>b DEF executeKeyed
<1> DEFINE r == NewRecord(c, applied, w)
<1>2. /\ Executing /\ stage(c, applied, w) /\ Result("ok", mem.sequence + 1)
      /\ durable' = durable \cup {Requester}
      /\ staged' = [staged EXCEPT ![c] = IF Len(group) > 1 THEN index ELSE 0]
  BY <1>1 DEF executeKeyed
<1>s. ~poisoned /\ log' = Append(log, [rec |-> r, after |-> mem']) /\ pending' = pending \cup {r}
      /\ UNCHANGED <<phase, opens>>
  BY <1>2 DEF stage, Executes
<1>4. r.id = c /\ r.sequence = mem.sequence + 1
  BY DEF NewRecord
<1> HIDE DEF r
<1>l. mem.sequence = Len(log)
  BY <1>b, <1>s DEF StoreFacts
<1>3. r.sequence = Len(log) + 1
  BY <1>4, <1>l
<1>5. PICK n \in Nat : n = Len(log) + 1
  BY <1>a
<1>6. /\ Len(log') = n /\ log'[n].rec = r /\ \A m \in 1..Len(log) : log'[m] = log[m]
  BY <1>a, <1>s, <1>5
<1>7. Result("ok", n)
  BY <1>2, <1>l, <1>5
<1>8. /\ DOMAIN staged' = CommandIDs
      /\ \A d \in CommandIDs : d # c => staged'[d] = staged[d]
      /\ staged'[c] = IF Len(group) > 1 THEN index ELSE 0
  BY <1>a, <1>2
<1>9. index # 0 /\ index \in 1..Len(group) /\ Len(group) \in Nat
  <2>1. index # 0 /\ index \in DOMAIN group /\ group \in Seq(Clients)
    BY <1>b, <1>2 DEF Requests, Loop
  <2> QED
    BY <2>1
<1>10. \A p \in pending' : staged'[p.id] # 0 \/ index + 1 > Len(group)
  <2> TAKE p \in pending'
  <2>1. p.id \in CommandIDs
    BY DEF StoreFacts, TypeOK, Record
  <2>2. CASE p.id = c
    BY <1>a, <1>8, <1>9, <2>2
  <2>3. CASE p.id # c
    <3>1. p \in pending
      BY <1>s, <1>4, <2>3
    <3> QED
      BY <1>b, <1>2, <1>8, <2>1, <2>3, <3>1
  <2> QED
    BY <2>2, <2>3
<1>11. \A d \in CommandIDs : staged'[d] = staged[d] \/ staged'[d] = 0
                                 \/ (staged'[d] = index /\ command[Requester] = d)
  BY <1>1, <1>8
<1>12. /\ n \in 1..Len(log') /\ n > Len(log) /\ Len(log) <= Len(log') /\ log'[n].rec.id = command[Requester]
       /\ \E p \in pending' : p.sequence = n
  <2>1. n \in 1..n /\ n > Len(log) /\ Len(log) <= n
    BY <1>a, <1>5
  <2>2. r \in pending' /\ r.sequence = n /\ log'[n].rec.id = c
    BY <1>s, <1>3, <1>4, <1>5, <1>6
  <2> QED
    BY <1>1, <1>6, <2>1, <2>2
<1>13. phase' = "group" /\ opens' = opens /\ pending \subseteq pending' /\ Len(log') \in Nat
  BY <1>a, <1>b, <1>s
<1>14. AnswerStep("ok", n)
  <2>1. StoreStep
    BY <1>a, <1>6, <1>12, <1>13 DEF StoreStep
  <2>2. GroupStep("ok")
    BY <1>2, <1>8, <1>10, <1>11 DEF GroupStep
  <2> QED
    BY <1>2, <1>7, <2>1, <2>2 DEF AnswerStep
<1>15. AnswerRight("ok", n)
  BY <1>2, <1>12 DEF AnswerRight
<1> QED
  BY <1>a, <1>14, <1>15, AnswerGiven

\* The group ends: what depends on the Sync has failed, or its decision is on disk.
GroupEnd ==
    /\ Executed /\ phase' = "reply" /\ coord' = "deliver" /\ DOMAIN results' = Clients
    /\ UNCHANGED <<opens, log, group, index, staged, durable, command>>
    /\ \A i \in DOMAIN group : results'[group[i]] = results[group[i]] \/ results'[group[i]] = Failed
    /\ \A i \in DOMAIN group : group[i] \in durable /\ results'[group[i]] # Failed =>
           \A p \in pending : OnDisk(p.sequence)'

\* What was right of a result when it was given is right when the group ends.
LEMMA GroupEnds ==
    ASSUME StoreFacts, Requests, Loop, GroupAnswers, GroupEnd
    PROVE  GroupAnswers'
<1>a. /\ Executed /\ phase' = "reply" /\ coord' = "deliver" /\ DOMAIN results' = Clients
      /\ UNCHANGED <<opens, log, group, index, staged, durable, command>>
  BY DEF GroupEnd
<1>1. coord = "execute" /\ index > Len(group) /\ StagedHere /\ InOrder /\ \A i \in Done : Right(i)
  BY <1>a DEF Executed, GroupAnswers
<1>2. Done' = Done /\ Done \subseteq DOMAIN group
  BY <1>a DEF Done
<1>3. ASSUME NEW i \in Done, Kind(i)' \in {"ok", "duplicate"}
      PROVE  Kind(i)' = Kind(i) /\ Sequence(i)' = Sequence(i) /\ results'[group[i]] # Failed
  <2>1. results'[group[i]] = results[group[i]] \/ results'[group[i]] = Failed
    BY <1>2 DEF GroupEnd
  <2>2. group' = group
    BY <1>a
  <2>3. results'[group[i]].kind \in {"ok", "duplicate"}
    BY <1>3, <2>2 DEF Kind
  <2>4. results'[group[i]] # Failed
    BY <2>3 DEF Failed
  <2> QED
    BY <2>1, <2>2, <2>4 DEF Kind, Sequence
<1>4. ASSUME NEW i \in Done PROVE Right(i)'
  <2> SUFFICES ASSUME Kind(i)' \in {"ok", "duplicate"} PROVE Right(i)'
    BY DEF Right
  <2>1. Kind(i)' = Kind(i) /\ Sequence(i)' = Sequence(i) /\ results'[group[i]] # Failed
    BY <1>3
  <2>2. Right(i) /\ Kind(i) \in {"ok", "duplicate"}
    BY <1>1, <2>1
  <2>3. PICK n \in 1..Len(log) : n = Sequence(i)
    BY <2>2 DEF Right
  <2>4. group[i] \in durable \/ opens = 1 => OnDisk(n)'
    <3>1. CASE group[i] \in durable
      <4>1. PICK p \in pending : p.sequence = n
        BY <1>1, <2>2, <2>3, <3>1 DEF Right
      <4>2. \A q \in pending : OnDisk(q.sequence)'
        BY <1>2, <2>1, <3>1 DEF GroupEnd
      <4> QED
        BY <4>1, <4>2
    <3>2. CASE opens = 1 /\ group[i] \notin durable
      <4>1. OnDisk(n)
        BY <2>2, <2>3, <3>2 DEF Right
      <4> QED
        BY NumbersKnown, <4>1 DEF DiskKept
    <3> QED
      BY <3>1, <3>2
  <2>5. group[i] \in durable \/ opens = 1 => OnDisk(Sequence(i))'
    BY <2>1, <2>3, <2>4 DEF OnDisk
  <2> QED
    BY Zenon, <1>a, <2>1, <2>2, <2>5 DEF Right
<1>5. InOrder'
  BY <1>1, <1>2, <1>3 DEF InOrder
<1> QED
  BY Zenon, <1>a, <1>1, <1>2, <1>4, <1>5 DEF GroupAnswers

\* No group has results.
LEMMA NoGroup ==
    ASSUME coord' \notin {"execute", "deliver"}, DOMAIN results' = Clients, DOMAIN staged' = CommandIDs,
           \A i, j \in DOMAIN group' : group'[i] = group'[j] => i = j
    PROVE  GroupAnswers'
BY DEF GroupAnswers

\* Nor has it any while the coordinator waits.
LEMMA NoGroupYet ==
    ASSUME GroupAnswers, coord \notin {"execute", "deliver"}, UNCHANGED <<coord, group, results, staged>>
    PROVE  GroupAnswers'
BY NoGroup DEF GroupAnswers

\* A caller's step that leaves the store and the group alone.
LEMMA CallersApart ==
    ASSUME GroupAnswers, UNCHANGED <<storageVars, coord, group, index, staged, durable, results>>,
           \A i \in DOMAIN group : command'[group[i]] = command[group[i]]
    PROVE  GroupAnswers'
<1>1. UNCHANGED <<coord, group, index, staged, durable, results, phase, opens, log, pending, snapMedia, walMedia>>
  BY DEF storageVars
<1>2. Done' = Done /\ \A i : Kind(i)' = Kind(i) /\ Sequence(i)' = Sequence(i)
  BY <1>1 DEF Done, Kind, Sequence
<1>3. \A i \in Done : i \in DOMAIN group
  BY DEF Done
<1>4. \A n : OnDisk(n)' = OnDisk(n)
  BY <1>1 DEF OnDisk
<1>5. \A i \in Done : Right(i) => Right(i)'
  <2> TAKE i \in Done
  <2>1. PICK n : n = Sequence(i)
    OBVIOUS
  <2>2. OnDisk(Sequence(i)) = OnDisk(n) /\ OnDisk(Sequence(i))' = OnDisk(n)'
    BY <1>2, <2>1 DEF OnDisk
  <2> QED
    BY <1>1, <1>2, <1>3, <1>4, <2>2 DEF Right
<1>6. InOrder => InOrder'
  BY <1>2 DEF InOrder
<1>7. ASSUME StagedHere PROVE StagedHere'
  <2>1. \A c \in CommandIDs : staged[c] # 0 =>
            staged[c] \in Done /\ results[group[staged[c]]].kind = "ok" /\ command[group[staged[c]]] = c
    BY <1>7 DEF StagedHere, Kind
  <2>2. \A c \in CommandIDs : staged'[c] # 0 =>
            staged'[c] \in Done' /\ results'[group'[staged'[c]]].kind = "ok" /\ command'[group'[staged'[c]]] = c
    BY <1>1, <1>2, <1>3, <2>1
  <2>3. durable \subseteq {group[i] : i \in Done} /\ \A p \in pending : staged[p.id] # 0 \/ index > Len(group)
    BY <1>7 DEF StagedHere
  <2>4. durable' \subseteq {group'[i] : i \in Done'}
    <3> SUFFICES ASSUME NEW r \in durable' PROVE \E i \in Done' : r = group'[i]
      OBVIOUS
    <3>1. PICK i \in Done : r = group[i]
      BY <1>1, <2>3
    <3> QED
      BY <1>1, <1>2, <3>1
  <2>5. \A p \in pending' : staged'[p.id] # 0 \/ index' > Len(group')
    BY <1>1, <2>3
  <2> QED
    BY <2>2, <2>4, <2>5 DEF StagedHere, Kind
<1> QED
  BY <1>1, <1>2, <1>5, <1>6, <1>7 DEF GroupAnswers

\* The group ends and no result that depends on the Sync is left.
LEMMA GroupFails ==
    ASSUME StoreFacts, Requests, Loop, GroupAnswers,
           Executed, phase' = "reply", coord' = "deliver", DurableResultsFail,
           UNCHANGED <<opens, log, group, index, staged, durable, command>>
    PROVE  GroupAnswers'
<1>1. DOMAIN results' = Clients
  BY DEF DurableResultsFail
<1>2. ASSUME NEW i \in DOMAIN group
      PROVE  /\ results'[group[i]] = results[group[i]] \/ results'[group[i]] = Failed
             /\ group[i] \in durable => results'[group[i]] = Failed
  <2>1. group[i] \in Clients
    BY DEF Requests
  <2> QED
    BY <2>1 DEF DurableResultsFail
<1>3. GroupEnd
  BY <1>1, <1>2 DEF GroupEnd
<1> QED
  BY <1>3, GroupEnds

\* Each result is right when it is given, and stays right until it is delivered: the store
\* belongs to the group, and no other call touches its requests.
LEMMA GroupAnswersStep ==
    StoreFacts /\ Requests /\ Loop /\ Opening /\ GroupAnswers /\ [Next]_vars => GroupAnswers'
<1> SUFFICES ASSUME StoreFacts, Requests, Loop, Opening, GroupAnswers, [Next]_vars
             PROVE  GroupAnswers'
  OBVIOUS
<1>4. \A c \in Clients : pc[c] \in {"idle", "submit"} => \A i \in DOMAIN group : group[i] # c /\ group[i] \in Clients
  BY DEF Requests, InCall
<1>5. phase \notin {"group", "reply"} => coord \notin {"execute", "deliver"}
  BY DEF GroupAnswers
<1>6. CASE UNCHANGED vars
  BY CallersApart, <1>6 DEF vars, coordVars, clientVars
<1>7. CASE (\E h \in DedupeHorizons : Open(h)) \/ crash
  BY NoGroup, <1>7 DEF Open, crash, NoHandle
<1>8. CASE Recover
  <2>1. phase \in Recovering /\ UNCHANGED coordVars
    BY <1>8 DEF Recover, loadKeyedSnapshot, replayKeyedWAL, truncateKeyedTail, openStorageFails, Recovering
  <2> QED
    BY NoGroupYet, <2>1 DEF Opening, coordVars
<1>9. CASE StartCoordinator
  BY NoGroup, <1>9 DEF StartCoordinator, GroupAnswers
<1>10. CASE snapshotStep
  <2>1. phase \in Snapshotting /\ UNCHANGED coordVars
    BY <1>10 DEF snapshotStep, snapshotRename, snapshotSyncDirectory, snapshotTruncate, Snapshotting
  <2> QED
    BY NoGroupYet, <1>5, <2>1 DEF Snapshotting, coordVars
<1>11. ASSUME NEW c \in Clients,
              getAdmitted(c) \/ snapshotAdmitted(c) \/ snapshotReturns(c) \/ closeAdmitted(c)
       PROVE  GroupAnswers'
  <2>1. phase \in {"open"} \cup Snapshotting /\ UNCHANGED coordVars
    BY <1>11 DEF getAdmitted, snapshotAdmitted, snapshotReturns, closeAdmitted, GetKeyed, SnapshotKeyed,
                 snapshotSync, snapshotFails, Close, Snapshotting
  <2> QED
    BY NoGroupYet, <1>5, <2>1 DEF Snapshotting, coordVars
<1>12. ASSUME NEW c \in Clients,
              \/ \E call \in Calls : enterKeyed(c, call)
              \/ closeBegin(c) \/ submitWake(c) \/ enterKeyedFails(c) \/ closeWake(c)
       PROVE  GroupAnswers'
  <2>1. UNCHANGED <<storageVars, coord, group, index, staged, durable, results, command>>
    BY <1>12 DEF enterKeyed, closeBegin, submitWake, enterKeyedFails, closeWake, coordVars
  <2> QED
    BY CallersApart, <2>1
<1>13. ASSUME NEW c \in Clients, submitEnqueue(c) \/ \E id \in CommandIDs : submitBegin(c, id)
       PROVE  GroupAnswers'
  <2>1. UNCHANGED <<storageVars, coord, group, index, staged, durable, results>>
    BY <1>13 DEF submitEnqueue, submitBegin, coordVars
  <2>2. pc[c] \in {"idle", "submit"} /\ \A d \in Clients \ {c} : command'[d] = command[d]
    BY <1>13 DEF submitEnqueue, submitBegin, ClientAt, Requests
  <2> QED
    BY CallersApart, <1>4, <2>1, <2>2
<1>14. CASE coordWake
  BY NoGroup, <1>14 DEF coordWake, GroupAnswers
<1>15. CASE coordTake
  <2>1. coord' \notin {"execute", "deliver"} /\ UNCHANGED <<results, staged>>
    BY <1>15 DEF coordTake
  <2>2. CASE queue = <<>>
    <3>1. group' = group
      BY <1>15, <2>2 DEF coordTake
    <3> QED
      BY NoGroup, <2>1, <3>1 DEF GroupAnswers
  <2>3. CASE queue # <<>>
    <3>1. PICK limit \in 1..Len(queue) : limit = Min({MaxGroup, Len(queue)})
      <4>1. Len(queue) \in Nat \ {0}
        BY <2>3 DEF Requests
      <4> QED
        BY <4>1, GroupSize
    <3>2. group' = SubSeq(queue, 1, limit)
      BY Zenon, <1>15, <2>3, <3>1 DEF coordTake
    <3>3. limit \in Nat /\ limit <= Len(queue) /\ queue \in Seq(Clients) /\ DOMAIN queue = 1..Len(queue)
      BY DEF Requests
    <3>4. DOMAIN group' = 1..limit /\ \A i \in 1..limit : group'[i] = queue[i] /\ i \in DOMAIN queue
      BY <3>2, <3>3, FrontProperties
    <3>5. \A i, j \in DOMAIN group' : group'[i] = group'[j] => i = j
      BY <3>4 DEF Requests
    <3> QED
      BY NoGroup, <2>1, <3>5 DEF GroupAnswers
  <2> QED
    BY <2>2, <2>3
<1>16. CASE coordAdmit
  <2>1. /\ phase = "open" /\ phase' = "group" /\ coord' = "execute" /\ index' = 1 /\ durable' = {}
        /\ staged' = [c \in CommandIDs |-> 0] /\ UNCHANGED <<group, results, pending>>
    BY <1>16 DEF coordAdmit, beginGroup
  <2>2. pending' = {}
    BY <2>1 DEF StoreFacts
  <2>3. Done' = {}
    BY <2>1 DEF Done, Requests
  <2>4. StagedHere' /\ InOrder'
    BY <2>1, <2>2, <2>3 DEF StagedHere, InOrder
  <2> QED
    BY <2>1, <2>3, <2>4 DEF GroupAnswers
<1>17. CASE deliver
  <2>1. coord' \notin {"execute", "deliver"} /\ DOMAIN results' = Clients /\ DOMAIN staged' = CommandIDs
        /\ group' = <<>>
    BY <1>17 DEF deliver
  <2>2. \A i, j \in DOMAIN group' : group'[i] = group'[j] => i = j
    BY <2>1
  <2> QED
    BY NoGroup, <2>1, <2>2
<1>18. CASE executePoisoned \/ executeCancelled \/ executeAborts
  <2>1. Executing /\ UNCHANGED <<phase, opens, log, pending, staged, durable>>
    BY <1>18 DEF executePoisoned, executeCancelled, executeAborts, storageVars
  <2>2. PICK kind \in {"error", "cancelled", "aborted"} : \E n : Result(kind, n)
    BY <1>18 DEF executePoisoned, executeCancelled, executeAborts
  <2>3. PICK n : Result(kind, n)
    BY <2>2
  <2>4. kind \notin {"ok", "duplicate"}
    BY <2>2
  <2> QED
    BY <2>1, <2>3, <2>4, NoAnswer
<1>20. ASSUME NEW applied \in BOOLEAN, NEW w \in Writes, executeAppendFails(applied, w) PROVE GroupAnswers'
  <2>1. Executing /\ Result("error", 0) /\ UNCHANGED <<phase, opens, log, pending, staged, durable>>
    BY <1>20 DEF executeAppendFails, stageFails, history
  <2> QED
    BY <2>1, NoAnswer
<1>21. CASE groupSync
  <2>1. /\ Executed /\ phase' = "reply" /\ coord' = "deliver"
        /\ UNCHANGED <<opens, log, group, index, staged, durable, results, command>>
    BY <1>21 DEF groupSync, syncKeyed, history, clientVars
  <2>2. \A p \in pending : OnDisk(p.sequence)'
    BY <1>21 DEF groupSync, StoreFacts
  <2> QED
    <3>1. DOMAIN results = Clients
      BY DEF GroupAnswers
    <3>2. GroupEnd
      BY <2>1, <2>2, <3>1 DEF GroupEnd
    <3> QED
      BY <3>2, GroupEnds
<1>23. CASE groupSyncFails
  BY GroupFails, <1>23 DEF groupSyncFails, syncKeyedFails, history, clientVars
<1>24. CASE groupSkipSync
  <2>1. /\ Executed /\ phase' = "reply" /\ coord' = "deliver"
        /\ UNCHANGED <<opens, log, group, index, staged, durable, command>>
    BY <1>24 DEF groupSkipSync, skipSync, history, clientVars
  <2>2. CASE poisoned
    BY GroupFails, <1>24, <2>1, <2>2 DEF groupSkipSync
  <2>3. CASE ~poisoned
    <3>1. pending = {} /\ results' = results
      BY <1>24, <2>3 DEF groupSkipSync, skipSync
    <3>2. DOMAIN results = Clients
      BY DEF GroupAnswers
    <3>3. GroupEnd
      BY <2>1, <3>1, <3>2 DEF GroupEnd
    <3> QED
      BY <3>3, GroupEnds
  <2> QED
    BY <2>2, <2>3
<1>25. CASE coordinator
  BY Zenon, <1>14, <1>15, <1>16, <1>17, <1>18, <1>20, <1>21, <1>23, <1>24, <1>25,
     AttachedAnswer, DuplicateAnswer, DecisionAnswer DEF coordinator
<1> QED
  BY Zenon, <1>6, <1>7, <1>8, <1>9, <1>10, <1>11, <1>12, <1>13, <1>25 DEF Next, returning

\* What the theorems about the store say of it, and what the answers need of that.
StoreKnown ==
    TypeOK /\ Bounds /\ SafeFiles /\ Staged /\ PoisonedIdle /\ CopiesExact /\ Origins /\ FirstHandle

\* The store keeps the facts that the results of a group rest on.
LEMMA StoreFactsKnown ==
    ASSUME StoreKnown, StoreKnown', [StorageNext]_storageVars
    PROVE  StoreFacts
<1>1. /\ TypeOK /\ TypeOK' /\ Bounds /\ SafeFiles /\ Staged /\ Staged' /\ CopiesExact /\ Origins /\ FirstHandle
  BY Zenon DEF StoreKnown
<1>2. DiskKept
  BY <1>1, DiskStep DEF DiskKept
<1>3. mem.sequence <= Len(log) /\ (phase = "group" => mem.sequence = Len(log))
  BY <1>1 DEF Bounds, MemBounds, Serving
<1>4. /\ phase \notin {"group", "reply"} => pending = {}
      /\ \A p \in pending : p.sequence \in DOMAIN log /\ log[p.sequence].rec = p
  BY Zenon, <1>1 DEF Staged, InLog
<1>5. DOMAIN log = 1..Len(log)
  BY <1>1 DEF TypeOK
<1>6. \A c \in CommandIDs : mem.dedupe[c].sequence # 0 =>
          mem.dedupe[c].sequence \in 1..Len(log) /\ log[mem.dedupe[c].sequence].rec.id = c
  BY <1>1, <1>3, RetainedOrigin
<1>7. opens = 1 /\ phase = "group" /\ ~poisoned =>
          \A n \in 1..Len(log) : OnDisk(n) \/ \E p \in pending : p.sequence = n
  BY <1>1 DEF FirstHandle, Serving
<1>8. ASSUME syncKeyed, NEW p \in pending PROVE OnDisk(p.sequence)'
  <2>1. phase' = "reply" /\ pending' = pending
    BY <1>8 DEF syncKeyed
  <2>2. \A w \in walMedia' : \E i \in DOMAIN w.frames : w.frames[i] = p
    BY <1>1, <2>1 DEF Staged, InFile
  <2> QED
    BY <2>2 DEF OnDisk
<1> QED
  BY <1>1, <1>2, <1>3, <1>4, <1>5, <1>6, <1>7, <1>8 DEF StoreFacts

\* processCommitGroup hands out faithful answers: a success or a duplicate is the decision of
\* that caller's own command, decisions come in the order of the queue, and what the caller
\* takes for durable is on every medium.
THEOREM FaithfulAnswers ==
    ASSUME PlainText, OneHorizon, DirectorySync
    PROVE  Spec => []AnswersFaithful
<1> DEFINE Inv == Requests /\ Loop /\ Opening /\ GroupAnswers
<1>1. Init => Inv
  BY DEF Init, StorageInit, Requests, InCall, Loop, Opening, Recovering, GroupAnswers
<1>2. StoreKnown /\ StoreKnown' /\ Inv /\ [Next]_vars => Inv'
  <2> SUFFICES ASSUME StoreKnown, StoreKnown', Inv, [Next]_vars PROVE Inv'
    OBVIOUS
  <2>1. StoreFacts
    BY DatabaseStep, StoreFactsKnown
  <2> QED
    BY <2>1, RequestsStep, LoopStep, OpeningStep, GroupAnswersStep
<1>3. Inv => AnswersFaithful
  <2> SUFFICES ASSUME Inv, coord = "deliver", NEW i \in DOMAIN group, Kind(i) \in {"ok", "duplicate"}
               PROVE  /\ log[Sequence(i)].rec.id = command[group[i]]
                      /\ Kind(i) = "ok" \/ group[i] \in durable \/ opens = 1 => OnDisk(Sequence(i))
                      /\ \A j \in 1..i - 1 : Kind(i) = "ok" /\ Kind(j) = "ok" => Sequence(j) < Sequence(i)
    BY Zenon DEF AnswersFaithful, Kind, Sequence
  <2>1. Done = DOMAIN group /\ \A j \in 1..i - 1 : j \in DOMAIN group /\ j < i
    <3>1. index > Len(group) /\ index \in Nat /\ group \in Seq(Clients)
      BY Zenon DEF GroupAnswers, Requests, Loop
    <3>2. DOMAIN group = 1..Len(group) /\ Len(group) \in Nat
      BY <3>1
    <3>3. \A x \in 1..Len(group) : x < index
      BY <3>1, <3>2
    <3>4. \A j \in 1..i - 1 : j \in 1..Len(group) /\ j < i
      BY <3>2
    <3> QED
      BY Zenon, <3>2, <3>3, <3>4 DEF Done
  <2>2. InOrder /\ Right(i)
    BY <2>1 DEF GroupAnswers
  <2> QED
    BY Zenon, <2>1, <2>2 DEF InOrder, Right
<1> HIDE DEF Inv
<1>4. StorageSpec => []StoreKnown
  BY BoundsInvariant, DurableInvariant, PoisonedIdleInvariant, ExactInvariant, FirstHandleInvariant, PTL
     DEF StoreKnown
<1> QED
  BY <1>1, <1>2, <1>3, <1>4, DatabaseImplementsStorage, PTL DEF Spec
=============================================================================
