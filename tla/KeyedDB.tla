------------------------------- MODULE KeyedDB -------------------------------
(***************************************************************************)
(* KeyedDB of keyed.go: callers of SubmitKeyed, GetKeyed, SnapshotKeyed    *)
(* and Close, the queue and the commit coordinator goroutine, on top of    *)
(* the storage actions of KeyedStorage.  Every step that touches the store *)
(* is a storage action joined with what it does to callers and             *)
(* coordinator; the admission token is free exactly in phase "open".       *)
(*                                                                         *)
(* Early returns that change nothing (a closed, poisoned or nil handle, a  *)
(* nil or cancelled context before the call waits) are not steps.          *)
(***************************************************************************)
EXTENDS KeyedStorage

CONSTANTS Clients,       \* goroutines that use the handle
          Calls,         \* the calls they make: "submit", "get", "snapshot", "close"
          NoCommand,     \* no command submitted
          MaxGroup       \* keyedMaxCommitGroup (1 with commit.disabled)

ASSUME CoordinatorAssumption ==
    Calls \subseteq {"submit", "get", "snapshot", "close"} /\ MaxGroup \in Nat \ {0}

VARIABLES
    closed,     \* KeyedDB.closed
    queue,      \* commit.queue: clients whose request is waiting
    wake,       \* a token in commit.wake (capacity 1)
    coord,      \* where runCommitCoordinator is
    group,      \* the clients whose requests processCommitGroup handles
    index,      \* its loop variable
    staged,     \* staged: index of the request that staged an ID, 0 if none
    durable,    \* durable[index]: the request's result depends on the shared Sync
    results,    \* results[index], by client
    pc,         \* where each client is in its call
    command     \* the command ID a client submitted

coordVars == <<closed, queue, wake, coord, group, index, staged, durable, results>>
clientVars == <<pc, command>>
vars == <<storageVars, coordVars, clientVars>>

\* "ok" and "duplicate" carry the sequence of the decision, "aborted" that of the
\* state its callback read.
NoResult == [kind |-> "none", sequence |-> 0]
Failed == [kind |-> "error", sequence |-> 0]
Results == [kind : {"none", "ok", "duplicate", "aborted", "cancelled", "error"}, sequence : Nat]

Init ==
    /\ StorageInit
    /\ closed = FALSE /\ queue = <<>> /\ wake = FALSE /\ coord = "none"
    /\ group = <<>> /\ index = 0 /\ staged = [c \in CommandIDs |-> 0] /\ durable = {}
    /\ results = [c \in Clients |-> NoResult]
    /\ pc = [c \in Clients |-> "idle"]
    /\ command = [c \in Clients |-> NoCommand]

ClientAt(c, from, to) == pc[c] = from /\ pc' = [pc EXCEPT ![c] = to]
Handle == coord # "none"

-----------------------------------------------------------------------------
(* Opening.  The coordinator starts once openStorage has succeeded. *)

NoHandle ==
    /\ closed' = FALSE /\ queue' = <<>> /\ wake' = FALSE /\ group' = <<>> /\ index' = 0
    /\ staged' = [c \in CommandIDs |-> 0] /\ durable' = {} /\ results' = [c \in Clients |-> NoResult]

Open(h) ==
    /\ \A c \in Clients : pc[c] = "idle"
    /\ openKeyed(h) /\ NoHandle /\ coord' = "none"
    /\ UNCHANGED clientVars

Recover ==
    /\ loadKeyedSnapshot \/ replayKeyedWAL \/ truncateKeyedTail \/ openStorageFails
    /\ UNCHANGED <<coordVars, clientVars>>

StartCoordinator ==
    /\ replayDone \/ truncateKeyedTailSync
    /\ coord' = "wait"
    /\ UNCHANGED <<closed, queue, wake, group, index, staged, durable, results, clientVars>>

-----------------------------------------------------------------------------
(* SubmitKeyed, caller side *)

\* The checks before the lock pass.
submitBegin(c, id) ==
    /\ "submit" \in Calls /\ Handle /\ ~closed /\ ~poisoned
    /\ ClientAt(c, "idle", "submit") /\ command' = [command EXCEPT ![c] = id]
    /\ UNCHANGED <<storageVars, coordVars>>

\* Altered submitEnqueue: closed is not checked again under the lock.
EnqueueUnchecked(c) ==
    /\ ClientAt(c, "submit", "queued") /\ queue' = Append(queue, c)
    /\ UNCHANGED <<storageVars, closed, wake, coord, group, index, staged, durable, results, command>>

\* Under commit.mu: closed is checked again, then the request is queued.
submitEnqueue(c) ==
    /\ IF closed THEN ClientAt(c, "submit", "idle") /\ command' = [command EXCEPT ![c] = NoCommand]
                      /\ UNCHANGED queue
       ELSE ClientAt(c, "submit", "queued") /\ queue' = Append(queue, c) /\ UNCHANGED command
    /\ UNCHANGED <<storageVars, closed, wake, coord, group, index, staged, durable, results>>

\* Altered submitWake: nobody is woken.
WakeForgotten(c) ==
    /\ ClientAt(c, "queued", "waiting")
    /\ UNCHANGED <<storageVars, coordVars, command>>

\* The non-blocking send on wake; then the caller waits for its result.
submitWake(c) ==
    /\ ClientAt(c, "queued", "waiting") /\ wake' = TRUE
    /\ UNCHANGED <<storageVars, closed, queue, coord, group, index, staged, durable, results, command>>

-----------------------------------------------------------------------------
(* runCommitCoordinator *)

coordWake ==
    /\ coord = "wait" /\ wake /\ wake' = FALSE /\ coord' = "check"
    /\ UNCHANGED <<storageVars, closed, queue, group, index, staged, durable, results, clientVars>>

\* Under commit.mu: leave, go back to waiting, or take the next group.
coordTake ==
    /\ coord = "check"
    /\ IF queue = <<>>
       THEN coord' = (IF closed THEN "done" ELSE "wait") /\ UNCHANGED <<queue, group>>
       ELSE LET limit == Min({MaxGroup, Len(queue)}) IN
            /\ group' = SubSeq(queue, 1, limit)
            /\ queue' = SubSeq(queue, limit + 1, Len(queue))
            /\ coord' = "admit"
    /\ UNCHANGED <<storageVars, closed, wake, index, staged, durable, results, clientVars>>

-----------------------------------------------------------------------------
(* processCommitGroup *)

coordAdmit ==
    /\ coord = "admit" /\ beginGroup
    /\ coord' = "execute" /\ index' = 1
    /\ staged' = [c \in CommandIDs |-> 0] /\ durable' = {}
    /\ UNCHANGED <<closed, queue, wake, group, results, clientVars>>

Requester == group[index]
Executing == coord = "execute" /\ index <= Len(group)
\* The result of the current request is known; the loop goes on.
Result(kind, sequence) ==
    /\ results' = [results EXCEPT ![Requester] = [kind |-> kind, sequence |-> sequence]]
    /\ index' = index + 1
    /\ UNCHANGED <<closed, queue, wake, coord, group, clientVars>>

executePoisoned ==
    /\ Executing /\ poisoned
    /\ Result("error", 0) /\ UNCHANGED <<storageVars, staged, durable>>

executeCancelled ==
    /\ Executing /\ ~poisoned
    /\ Result("cancelled", 0) /\ UNCHANGED <<storageVars, staged, durable>>

\* A retained ID that this group staged is attached to the original's result.
executeAttached ==
    /\ Executing /\ staged[command[Requester]] # 0
    /\ retry(command[Requester])
    /\ Result("duplicate", results[group[staged[command[Requester]]]].sequence)
    /\ durable' = durable \cup {Requester} /\ UNCHANGED staged

\* executeKeyed finds the ID in dedupe.
executeDuplicate ==
    /\ Executing /\ staged[command[Requester]] = 0
    /\ retry(command[Requester])
    /\ Result("duplicate", mem.dedupe[command[Requester]].sequence)
    /\ UNCHANGED <<staged, durable>>

\* The callback fails, panics or leaves writes finalize refuses: no decision.
executeAborts ==
    /\ Executing /\ ~poisoned /\ mem.dedupe[command[Requester]] = NoDecision
    /\ Result("aborted", mem.sequence) /\ UNCHANGED <<storageVars, staged, durable>>

executeKeyed(applied, w) ==
    /\ Executing /\ stage(command[Requester], applied, w)
    /\ Result("ok", mem.sequence + 1)
    /\ staged' = [staged EXCEPT ![command[Requester]] = IF Len(group) > 1 THEN index ELSE 0]
    /\ durable' = durable \cup {Requester}

executeAppendFails(applied, w) ==
    /\ Executing /\ stageFails(command[Requester], applied, w)
    /\ Result("error", 0) /\ UNCHANGED <<staged, durable>>

Executed == coord = "execute" /\ index > Len(group)
\* Altered DurableResultsFail: attached duplicates keep their result.
OriginalsFail ==
    results' = [c \in Clients |-> IF c \in durable /\ results[c].kind = "ok" THEN Failed ELSE results[c]]

\* A storage error replaces the results that depend on the shared Sync.
DurableResultsFail == results' = [c \in Clients |-> IF c \in durable THEN Failed ELSE results[c]]

groupSync ==
    /\ Executed /\ syncKeyed /\ coord' = "deliver"
    /\ UNCHANGED <<closed, queue, wake, group, index, staged, durable, results, clientVars>>

groupSyncFails ==
    /\ Executed /\ syncKeyedFails /\ coord' = "deliver" /\ DurableResultsFail
    /\ UNCHANGED <<closed, queue, wake, group, index, staged, durable, clientVars>>

groupSkipSync ==
    /\ Executed /\ skipSync /\ coord' = "deliver"
    /\ IF poisoned THEN DurableResultsFail ELSE UNCHANGED results
    /\ UNCHANGED <<closed, queue, wake, group, index, staged, durable, clientVars>>

\* Each result channel has room for its one result; admission is released.
deliver ==
    /\ coord = "deliver" /\ reply /\ coord' = "check"
    /\ pc' = [c \in Clients |-> IF c \in Range(group) THEN "idle" ELSE pc[c]]
    /\ command' = [c \in Clients |-> IF c \in Range(group) THEN NoCommand ELSE command[c]]
    /\ results' = [c \in Clients |-> NoResult]
    /\ group' = <<>> /\ index' = 0 /\ staged' = [c \in CommandIDs |-> 0] /\ durable' = {}
    /\ UNCHANGED <<closed, queue, wake>>

-----------------------------------------------------------------------------
(* GetKeyed and SnapshotKeyed: enterKeyed, the operation, leaveKeyed *)

\* enterKeyed's checks before it waits for admission.
enterKeyed(c, call) ==
    /\ call \in Calls \cap {"get", "snapshot"} /\ Handle /\ ~closed /\ ~poisoned
    /\ ClientAt(c, "idle", call)
    /\ UNCHANGED <<storageVars, coordVars, command>>

\* The context ends while the call waits, or the handle was closed or poisoned
\* before the call was admitted.
enterKeyedFails(c) ==
    /\ pc[c] \in {"get", "snapshot"} /\ pc' = [pc EXCEPT ![c] = "idle"]
    /\ UNCHANGED <<storageVars, coordVars, command>>

\* Altered getAdmitted: the read does not wait for admission.
GetUnadmitted(c) ==
    /\ ~closed /\ ~poisoned /\ ClientAt(c, "get", "idle") /\ seen' = Higher(seen, mem.sequence)
    /\ UNCHANGED <<mem, horizon, phase, poisoned, closing, pos, pending, repeats, files, opens, log, acked>>
    /\ UNCHANGED <<coordVars, command>>

getAdmitted(c) ==
    /\ ~closed /\ GetKeyed /\ ClientAt(c, "get", "idle")
    /\ UNCHANGED <<coordVars, command>>

snapshotAdmitted(c) ==
    /\ ~closed /\ SnapshotKeyed /\ ClientAt(c, "snapshot", "snapshotting")
    /\ UNCHANGED <<coordVars, command>>

snapshotStep ==
    /\ snapshotRename \/ snapshotSyncDirectory \/ snapshotTruncate
    /\ UNCHANGED <<coordVars, clientVars>>

\* snapshotKeyed ends: the call of SnapshotKeyed or of Close returns.
snapshotReturns(c) ==
    /\ snapshotSync \/ snapshotFails
    /\ ClientAt(c, IF closing THEN "closeSnapshot" ELSE "snapshotting", "idle")
    /\ UNCHANGED <<coordVars, command>>

-----------------------------------------------------------------------------
(* Close *)

\* The compare-and-swap on closed.
closeBegin(c) ==
    /\ "close" \in Calls /\ Handle /\ ~closed
    /\ closed' = TRUE /\ ClientAt(c, "idle", "closing")
    /\ UNCHANGED <<storageVars, queue, wake, coord, group, index, staged, durable, results, command>>

\* Altered closeWake: the coordinator is not told of the close.
CloseSilently(c) ==
    /\ ClientAt(c, "closing", "draining")
    /\ UNCHANGED <<storageVars, coordVars, command>>

closeWake(c) ==
    /\ ClientAt(c, "closing", "draining") /\ wake' = TRUE
    /\ UNCHANGED <<storageVars, closed, queue, coord, group, index, staged, durable, results, command>>

\* The coordinator is done; Close takes admission and never lets go of a usable handle.
closeAdmitted(c) ==
    /\ coord = "done" /\ Close
    /\ ClientAt(c, "draining", IF poisoned THEN "idle" ELSE "closeSnapshot")
    /\ UNCHANGED <<coordVars, command>>

-----------------------------------------------------------------------------
(* The process ends: the handle, its coordinator and its callers are gone. *)

crash ==
    /\ processCrash \/ powerLoss
    /\ NoHandle /\ coord' = "none"
    /\ pc' = [c \in Clients |-> "idle"] /\ command' = [c \in Clients |-> NoCommand]

coordinator ==
    \/ coordWake \/ coordTake \/ coordAdmit
    \/ executePoisoned \/ executeCancelled \/ executeAttached \/ executeDuplicate \/ executeAborts
    \/ \E applied \in BOOLEAN, w \in Writes : executeKeyed(applied, w) \/ executeAppendFails(applied, w)
    \/ groupSync \/ groupSyncFails \/ groupSkipSync \/ deliver

\* The steps a client takes once it has begun a call.
returning(c) ==
    \/ submitEnqueue(c) \/ submitWake(c)
    \/ enterKeyedFails(c) \/ getAdmitted(c) \/ snapshotAdmitted(c) \/ snapshotReturns(c)
    \/ closeWake(c) \/ closeAdmitted(c)

Next ==
    \/ \E h \in DedupeHorizons : Open(h)
    \/ Recover \/ StartCoordinator
    \/ \E c \in Clients :
         \/ \E id \in CommandIDs : submitBegin(c, id)
         \/ \E call \in Calls : enterKeyed(c, call)
         \/ closeBegin(c)
         \/ returning(c)
    \/ coordinator \/ snapshotStep \/ crash

Spec == Init /\ [][Next]_vars

\* Goroutines that can run do; a storage call ends, with or without an error; and a
\* coordinator that waits for the admission channel gets its turn, since the channel
\* serves waiting receivers in order.
Fairness ==
    /\ WF_vars(coordinator) /\ SF_vars(coordAdmit) /\ WF_vars(snapshotStep)
    /\ \A c \in Clients : WF_vars(returning(c))
FairSpec == Spec /\ Fairness

-----------------------------------------------------------------------------
(* Properties *)

\* When runCommitCoordinator has returned, no request is left in the queue and no
\* caller of SubmitKeyed waits for a result that cannot come: the closed flag is
\* checked under the lock by both sides.
DrainedAtExit ==
    coord = "done" =>
        queue = <<>> /\ group = <<>> /\ \A c \in Clients : pc[c] \notin {"queued", "waiting"}

\* A request whose wake-up is still to be noticed: a waiting request never sleeps
\* beside a coordinator that nobody is going to wake.
NoLostWakeup ==
    coord = "wait" /\ queue # <<>> =>
        wake \/ \E c \in Clients : pc[c] \in {"queued", "closing"}

\* The results processCommitGroup hands out: a decision or duplicate is the decision
\* of that caller's own command, new decisions come in the order of the queue, and what
\* the caller takes for durable is on every medium (a duplicate answered by a later
\* handle excepted: see SeenNotLost).
AnswersFaithful ==
    coord = "deliver" => \A i \in DOMAIN group :
        LET r == results[group[i]] IN
        r.kind \in {"ok", "duplicate"} =>
            /\ log[r.sequence].rec.id = command[group[i]]
            /\ (r.kind = "ok" \/ group[i] \in durable \/ opens = 1) => OnDisk(r.sequence)
            /\ \A j \in 1..i - 1 :
                 r.kind = "ok" /\ results[group[j]].kind = "ok" =>
                     results[group[j]].sequence < r.sequence

\* Once a durability failure has poisoned the handle, nothing is acknowledged as new,
\* no decision is made and no snapshot is taken until the database is opened again.
PoisonBarrier ==
    [][poisoned => acked' = acked /\ Len(log') <= Len(log) /\ (phase' # "down" => snap' = snap)]_vars

\* Every SubmitKeyed call is answered, whatever the coordinator, the other callers and
\* Close are doing when it is queued.
SubmitReturns == \A c \in Clients : pc[c] \in {"submit", "queued", "waiting"} ~> pc[c] = "idle"
\* Every Close returns: the coordinator drains the queue and exits, admission comes free.
CloseReturns == \A c \in Clients : pc[c] \in {"closing", "draining", "closeSnapshot"} ~> pc[c] = "idle"
=============================================================================
