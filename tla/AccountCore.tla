----------------------------- MODULE AccountCore -----------------------------
(***************************************************************************)
(* The bounded account engine of the v0.1 API (internal/core, used by      *)
(* octetdb.go): decisions, batch staging, one WAL frame and one Sync per   *)
(* batch, snapshots and recovery.                                          *)
(*                                                                         *)
(* SubmitBatch, Account, Snapshot and Close hold the engine's mutex (and   *)
(* the DB's admission token), so one of them runs at a time; "phase" is    *)
(* its program counter and "ready" means the mutex is free: the state      *)
(* then is what Get and a batch of retained IDs show.  Files are           *)
(* modelled as in KeyedStorage: the content the operating system shows,    *)
(* and the contents power loss may leave.  A frame and a snapshot carry,   *)
(* besides what the code writes, the history that led to them, because a   *)
(* refused batch can vanish and come back.                                 *)
(***************************************************************************)
EXTENDS Integers, Sequences, SequencesExt

CONSTANTS
    Accounts,       \* account IDs
    NoAccount,      \* Command.Other = 0
    CommandIDs,
    Commands,       \* commands that pass convertCommand and ValidateCommand
    MaxAccounts, DedupeWindow, BatchMax,
    IntBits,        \* width of the platform int
    Faults,         \* storage calls that may fail: "append", "sync", "install", "reset"
    TornHeader,     \* power loss can leave a part of a WAL header that was never synced
    DirectorySync,  \* the directory Sync reaches the disk (FALSE: Windows)
    Restarts,       \* "process", "power"
    MaxSequence, MaxOpens   \* bounds

ASSUME AccountAssumption ==
    /\ NoAccount \notin Accounts
    /\ MaxAccounts \in Nat \ {0} /\ DedupeWindow \in Nat \ {0} /\ BatchMax \in Nat \ {0}
    /\ IntBits \in Nat \ {0}
    /\ Faults \subseteq {"append", "sync", "install", "reset"}
    /\ Restarts \subseteq {"process", "power"}
    /\ TornHeader \in BOOLEAN /\ DirectorySync \in BOOLEAN
    /\ MaxSequence \in Nat /\ MaxOpens \in Nat

VARIABLES
    core,       \* the fields of Core that a snapshot holds
    phase, poisoned,
    closed,     \* DB.closed
    offsetLost, \* the WAL's file offset is not at its end
    records,    \* recordBuf: the records of the running SubmitBatch
    pos,        \* next record OpenCore replays
    wal, walMedia, snap, snapMedia,
    opens,      \* calls of Open so far
    log,        \* history: the decisions behind core, with the state each led to when it
                \*   was made and the batch it came with
    acked       \* history: decisions SubmitBatch returned as new

files == <<wal, walMedia, snap, snapMedia>>
history == <<log, acked>>
vars == <<core, phase, poisoned, closed, offsetLost, records, pos, wal, walMedia, snap, snapMedia,
          opens, log, acked>>

-----------------------------------------------------------------------------
(* Commands and decisions: decideGo *)

Command(id, kind, a, b, n) == [id |-> id, kind |-> kind, account |-> a, other |-> b, amount |-> n]

\* Two's complement addition of platform integers.
Wrap(x) == ((x + 2^(IntBits - 1)) % 2^IntBits) - 2^(IntBits - 1)

ZeroAccount == [balance |-> 0, status |-> "none", version |-> 0]
NoTransfer == [active |-> FALSE, target |-> NoAccount, amount |-> 0]
NewAgent == [pending |-> NoTransfer, turns |-> 0]

\* First reason that applies; "applied" if none does.
FirstReason(checks) ==
    LET hit == {i \in DOMAIN checks : checks[i][1]} IN
    IF hit = {} THEN "applied" ELSE checks[Min(hit)][2]

Reason(c, a, aok, bok, pending) ==
    LET amount == <<c.amount <= 0, "invalidAmount">>
        missing == <<~aok, "missing">>
        frozen == <<a.status = "frozen", "frozen">>
        funds == <<a.balance < c.amount, "insufficient">>
        workflow == <<pending # [active |-> TRUE, target |-> c.other, amount |-> c.amount], "invalidWorkflow">>
    IN CASE c.kind = "create" -> FirstReason(<< <<aok, "exists">>, <<c.amount < 0, "invalidAmount">> >>)
         [] c.kind = "deposit" -> FirstReason(<<amount, missing>>)
         [] c.kind = "withdraw" -> FirstReason(<<amount, missing, frozen, funds>>)
         [] c.kind = "transfer" -> FirstReason(<<amount, <<~aok \/ ~bok, "missing">>, frozen, funds>>)
         [] c.kind = "confirm" -> FirstReason(<<workflow, amount, <<~aok \/ ~bok, "missing">>, frozen, funds>>)
         [] c.kind \in {"freeze", "unfreeze"} -> FirstReason(<<missing>>)
         [] c.kind = "begin" -> FirstReason(<<amount, <<TRUE, "awaiting">>>>)
         [] c.kind = "cancel" -> "cancelled"

Effect(kind) ==
    CASE kind = "create" -> "create"
      [] kind \in {"deposit", "withdraw"} -> "balance"
      [] kind \in {"transfer", "confirm"} -> "transfer"
      [] kind \in {"freeze", "unfreeze"} -> "status"
      [] kind \in {"begin", "cancel"} -> "none"

decideGo(c, a, aok, b, bok, pending) ==
    LET reason == Reason(c, a, aok, bok, pending)
        accepted == reason \in {"applied", "awaiting", "cancelled"}
        effective == reason = "applied"
    IN [accepted |-> accepted, reason |-> reason,
        effect |-> IF effective THEN Effect(c.kind) ELSE "none",
        balanceA |-> IF ~effective THEN a.balance
                     ELSE CASE c.kind = "create" -> c.amount
                            [] c.kind = "deposit" -> Wrap(a.balance + c.amount)
                            [] c.kind \in {"withdraw", "transfer", "confirm"} -> Wrap(a.balance - c.amount)
                            [] OTHER -> a.balance,
        balanceB |-> IF effective /\ c.kind \in {"transfer", "confirm"}
                     THEN Wrap(b.balance + c.amount) ELSE b.balance,
        status |-> IF ~effective THEN a.status
                   ELSE CASE c.kind = "freeze" -> "frozen"
                          [] c.kind \in {"create", "unfreeze"} -> "open" [] OTHER -> a.status]

-----------------------------------------------------------------------------
(* State and its changes: slot, stageEffect, applyDurable, remember *)

\* slots are the accounts with a dense slot, present those created.
EmptyCore ==
    [slots |-> {}, accounts |-> [a \in Accounts |-> ZeroAccount], present |-> {},
     agents |-> [a \in Accounts |-> NewAgent], ledger |-> <<>>,
     results |-> [c \in CommandIDs |-> 0], order |-> <<>>, sequence |-> 0]

\* Altered ApplyEffect: a transfer does not reach its destination.
DebitOnly(accounts, r) ==
    CASE r.effect = "create" ->
           [accounts EXCEPT ![r.a] = [balance |-> r.balanceA, status |-> "open", version |-> 1]]
      [] r.effect \in {"balance", "transfer"} ->
           [accounts EXCEPT ![r.a].balance = r.balanceA, ![r.a].version = @ + 1]
      [] r.effect = "status" ->
           [accounts EXCEPT ![r.a].status = r.status, ![r.a].version = @ + 1]
      [] r.effect = "none" -> accounts

\* What an accepted record does to a table of accounts (stageEffect on the staged
\* view, applyDurable on the authoritative one).
ApplyEffect(accounts, r) ==
    CASE r.effect = "create" ->
           [accounts EXCEPT ![r.a] = [balance |-> r.balanceA, status |-> "open", version |-> 1]]
      [] r.effect = "balance" ->
           [accounts EXCEPT ![r.a].balance = r.balanceA, ![r.a].version = @ + 1]
      [] r.effect = "transfer" ->
           [accounts EXCEPT ![r.a].balance = r.balanceA, ![r.a].version = @ + 1,
                            ![r.b].balance = r.balanceB, ![r.b].version = @ + 1]
      [] r.effect = "status" ->
           [accounts EXCEPT ![r.a].status = r.status, ![r.a].version = @ + 1]
      [] r.effect = "none" -> accounts

\* Altered remember: results never expire.
RememberForever(e, id, sequence) ==
    [e EXCEPT !.order = Append(@, id), !.results = [@ EXCEPT ![id] = sequence]]

\* remember: results maps a retained command to its sequence, 0 if not retained.
remember(e, id, sequence) ==
    LET order == Append(e.order, id)
        results == [e.results EXCEPT ![id] = sequence]
    IN IF Len(order) > DedupeWindow
       THEN [e EXCEPT !.order = Tail(order), !.results = [results EXCEPT ![Head(order)] = 0]]
       ELSE [e EXCEPT !.order = order, !.results = results]

applyDurable(e, r) ==
    LET applied == [e EXCEPT
            !.slots = @ \cup {r.a},
            !.accounts = ApplyEffect(@, r),
            !.present = IF r.effect = "create" THEN @ \cup {r.a} ELSE @,
            !.ledger = IF r.effect # "none" THEN Append(@, r.sequence) ELSE @,
            !.agents[r.a] = [pending |-> r.pending, turns |-> r.turns],
            !.sequence = r.sequence]
    IN remember(applied, r.id, r.sequence)

-----------------------------------------------------------------------------
(* Evaluating a batch: the loop of SubmitBatch *)

At(accounts, a) == IF a \in Accounts THEN accounts[a] ELSE ZeroAccount

\* What the loop carries: the staged view of the accounts (scratch where marked), the
\* accounts that exist in it, and the slots and agents, which it changes in place.
StartBatch(e) ==
    [view |-> e.accounts, exists |-> e.present, slots |-> e.slots, agents |-> e.agents,
     records |-> <<>>]

\* Altered NextPending: a Confirm leaves the transfer pending.
KeepConfirmed(c, accepted, pending) ==
    IF c.kind = "cancel" THEN NoTransfer
    ELSE IF c.kind = "begin" /\ accepted
         THEN [active |-> TRUE, target |-> c.other, amount |-> c.amount]
    ELSE pending

NextPending(c, accepted, pending) ==
    IF c.kind \in {"confirm", "cancel"} THEN NoTransfer
    ELSE IF c.kind = "begin" /\ accepted
         THEN [active |-> TRUE, target |-> c.other, amount |-> c.amount]
    ELSE pending

\* The record of a new command; state is the agent of its account, or a new one.
DecideRecord(b, c, sequence, state) ==
    LET a == At(b.view, c.account)
        o == At(b.view, c.other)
        d == decideGo(c, a, c.account \in b.exists, o, c.other \in b.exists, state.pending)
    IN [sequence |-> sequence, id |-> c.id, kind |-> c.kind, a |-> c.account, b |-> c.other,
        amount |-> c.amount, accepted |-> d.accepted, reason |-> d.reason, effect |-> d.effect,
        turns |-> state.turns + 1, balanceA |-> d.balanceA, balanceB |-> d.balanceB,
        status |-> d.status, expectedA |-> a.version, expectedB |-> o.version,
        pending |-> NextPending(c, d.accepted, state.pending)]

\* Altered decideCommand: agents are not staged within the batch.
AgentsUnstaged(e, b, c) ==
    IF e.results[c.id] # 0 \/ \E i \in DOMAIN b.records : b.records[i].id = c.id THEN b
    ELSE LET slots == IF c.kind = "create" THEN b.slots \cup {c.account} ELSE b.slots
             r == DecideRecord(b, c, e.sequence + Len(b.records) + 1,
                               IF c.account \in slots THEN b.agents[c.account] ELSE NewAgent)
         IN [b EXCEPT !.view = ApplyEffect(@, r),
                      !.exists = IF r.effect = "create" THEN @ \cup {r.a} ELSE @,
                      !.slots = slots, !.records = Append(@, r)]

\* One iteration.  The agent is staged only when the account had a slot, or this
\* command is the one that creates it.
decideCommand(e, b, c) ==
    IF e.results[c.id] # 0 \/ \E i \in DOMAIN b.records : b.records[i].id = c.id THEN b
    ELSE LET slots == IF c.kind = "create" THEN b.slots \cup {c.account} ELSE b.slots
             aok == c.account \in slots
             r == DecideRecord(b, c, e.sequence + Len(b.records) + 1,
                               IF aok THEN b.agents[c.account] ELSE NewAgent)
         IN [b EXCEPT
               !.view = ApplyEffect(@, r),
               !.exists = IF r.effect = "create" THEN @ \cup {r.a} ELSE @,
               !.slots = slots,
               !.agents = IF aok THEN [@ EXCEPT ![r.a] = [pending |-> r.pending, turns |-> r.turns]] ELSE @,
               !.records = Append(@, r)]

EvaluateBatch(e, commands) ==
    FoldLeft(LAMBDA b, c : decideCommand(e, b, c), StartBatch(e), commands)

\* The check on new account slots, before anything is evaluated.
WithinCapacity(e, commands) ==
    LET creates == {i \in DOMAIN commands : commands[i].kind = "create"}
    IN Cardinality(e.slots \cup {commands[i].account : i \in creates}) <= MaxAccounts

-----------------------------------------------------------------------------
(* Files.  header is "valid", "empty" (file of size 0) or "bad". *)

\* A snapshot holds the core; an absent file loads as the empty one.
NoSnapshot == [core |-> EmptyCore, past |-> <<>>]
EmptyWAL == [header |-> "empty", frames |-> <<>>, torn |-> FALSE]
BadWAL == [header |-> "bad", frames |-> <<>>, torn |-> FALSE]
Tear(w) == [w EXCEPT !.torn = TRUE]
WithHeader(w) == [w EXCEPT !.header = "valid"]
HeaderMedia(w) == {WithHeader(w)} \cup (IF TornHeader THEN {BadWAL} ELSE {})

\* Write puts the frame at the file offset: behind the last frame, or, when the
\* offset is lost, where the header was or beyond a hole.
WriteAtOffset(w, frame) ==
    IF offsetLost THEN BadWAL ELSE [w EXCEPT !.frames = Append(@, frame)]
PartialWrite(w) == IF offsetLost THEN BadWAL ELSE Tear(w)

StateAt(n) == IF n = 0 THEN EmptyCore ELSE log[n].after

Down == {"down", "corrupt", "incompatible"}
Recovering == {"load", "scan", "replay"}
Snapshotting == {"install", "dirSync", "truncate", "header", "walSync", "seekEnd"}
Phases == Down \cup Recovering \cup Snapshotting \cup {"ready", "append", "sync", "apply"}

-----------------------------------------------------------------------------
(* Open and OpenCore *)

Init ==
    /\ core = EmptyCore /\ phase = "down" /\ poisoned = FALSE /\ closed = FALSE /\ offsetLost = FALSE
    /\ records = <<>> /\ pos = 1
    /\ wal = EmptyWAL /\ walMedia = {EmptyWAL} /\ snap = NoSnapshot /\ snapMedia = {NoSnapshot}
    /\ opens = 0 /\ log = <<>> /\ acked = {}

Discard ==
    /\ core' = EmptyCore /\ poisoned' = FALSE /\ closed' = FALSE /\ offsetLost' = FALSE
    /\ records' = <<>> /\ pos' = 1 /\ log' = <<>>

OpenCore ==
    /\ phase \in Down /\ opens < MaxOpens
    /\ opens' = opens + 1 /\ phase' = "load" /\ Discard
    /\ UNCHANGED <<files, acked>>

\* The order checks on the ledger and on the retained results.
Increasing(s, max) == \A i \in DOMAIN s : s[i] \in 1..max /\ \A j \in 1..i - 1 : s[j] < s[i]
SnapshotOrdered(s) ==
    /\ Increasing(s.ledger, s.sequence)
    /\ Increasing([i \in DOMAIN s.order |-> s.results[s.order[i]]], s.sequence)

\* Altered loadSnapshot: the ledger is not restored.
LoadWithoutLedger ==
    /\ phase = "load"
    /\ IF SnapshotOrdered(snap.core)
       THEN phase' = "scan" /\ core' = [snap.core EXCEPT !.ledger = <<>>] /\ log' = snap.past
       ELSE phase' = "corrupt" /\ UNCHANGED <<core, log>>
    /\ UNCHANGED <<poisoned, closed, offsetLost, records, pos, files, opens, acked>>

\* Altered loadSnapshot: the pending transfers are not restored.
LoadWithoutAgents ==
    /\ phase = "load"
    /\ IF SnapshotOrdered(snap.core)
       THEN phase' = "scan" /\ core' = [snap.core EXCEPT !.agents = EmptyCore.agents] /\ log' = snap.past
       ELSE phase' = "corrupt" /\ UNCHANGED <<core, log>>
    /\ UNCHANGED <<poisoned, closed, offsetLost, records, pos, files, opens, acked>>

loadSnapshot ==
    /\ phase = "load"
    /\ IF SnapshotOrdered(snap.core) THEN phase' = "scan" /\ core' = snap.core /\ log' = snap.past
       ELSE phase' = "corrupt" /\ UNCHANGED <<core, log>>
    /\ UNCHANGED <<poisoned, closed, offsetLost, records, pos, files, opens, acked>>

\* A file of size 0 gets a header, an incomplete last frame is cut off; neither is
\* synced here.
openWAL ==
    /\ phase = "scan"
    /\ IF wal.header = "bad" THEN phase' = "corrupt" /\ UNCHANGED <<wal, walMedia>>
       ELSE /\ phase' = "replay"
            /\ wal' = [WithHeader(wal) EXCEPT !.torn = FALSE]
            /\ walMedia' = walMedia \cup {wal'}
                           \cup (IF wal.header = "empty" THEN HeaderMedia(wal) ELSE {})
    /\ UNCHANGED <<core, poisoned, closed, offsetLost, records, pos, snap, snapMedia, opens, history>>

\* Altered Recovered: off by one, the snapshot's last record is returned too.
RecoveredFromSnapshot == SelectSeq(FlattenSeq(wal.frames), LAMBDA e : e.rec.sequence >= snap.core.sequence)

\* The records scanWAL returns: those after the snapshot.
Recovered == SelectSeq(FlattenSeq(wal.frames), LAMBDA e : e.rec.sequence > snap.core.sequence)

Replayable(e, r) ==
    /\ r.sequence = e.sequence + 1
    /\ e.results[r.id] \in {0, r.sequence}
    /\ At(e.accounts, r.a).version = r.expectedA /\ At(e.accounts, r.b).version = r.expectedB

applyRecovered ==
    /\ phase = "replay" /\ pos <= Len(Recovered)
    /\ LET e == Recovered[pos] IN
       IF Replayable(core, e.rec)
       THEN /\ core' = applyDurable(core, e.rec) /\ log' = Append(log, e)
            /\ pos' = pos + 1 /\ UNCHANGED phase
       ELSE phase' = "corrupt" /\ UNCHANGED <<core, log, pos>>
    /\ UNCHANGED <<poisoned, closed, offsetLost, records, files, opens, acked>>

opened ==
    /\ phase = "replay" /\ pos > Len(Recovered)
    /\ phase' = IF Cardinality(core.slots) > MaxAccounts THEN "incompatible" ELSE "ready"
    /\ UNCHANGED <<core, poisoned, closed, offsetLost, records, pos, files, opens, history>>

\* An I/O error while opening.
openFails ==
    /\ phase \in Recovering /\ phase' = "down" /\ Discard
    /\ UNCHANGED <<files, opens, acked>>

-----------------------------------------------------------------------------
(* SubmitBatch *)

Admitted == phase = "ready" /\ ~closed

\* Slots and agents change before anything is durable.  A batch of duplicates only is
\* answered from results and changes nothing.
SubmitBatch(commands) ==
    LET b == EvaluateBatch(core, commands) IN
    /\ Admitted /\ ~poisoned /\ WithinCapacity(core, commands)
    /\ b.records # <<>> /\ core.sequence + Len(b.records) <= MaxSequence
    /\ core' = [core EXCEPT !.slots = b.slots, !.agents = b.agents]
    /\ records' = b.records /\ phase' = "append"
    /\ UNCHANGED <<poisoned, closed, offsetLost, pos, files, opens, log, acked>>

\* The history after a batch: each record applied to the state before it.
ExtendLog(batch) ==
    FoldLeft(LAMBDA l, r :
                 Append(l, [rec |-> r, batch |-> batch,
                            after |-> applyDurable(IF l = <<>> THEN EmptyCore ELSE l[Len(l)].after, r)]),
             log, batch)
\* The frame of a batch.
Frame(batch) == SubSeq(ExtendLog(batch), Len(log) + 1, Len(log) + Len(batch))

\* Altered appendBatch: one frame per record, so power loss can part them.
FramePerRecord ==
    LET upTo(n) == [wal EXCEPT !.frames = @ \o [i \in 1..n |-> <<Frame(records)[i]>>]] IN
    /\ phase = "append" /\ phase' = "sync"
    /\ wal' = upTo(Len(records)) /\ walMedia' = walMedia \cup {upTo(n) : n \in 0..Len(records)}
    /\ UNCHANGED <<core, poisoned, closed, offsetLost, records, pos, snap, snapMedia, opens, history>>

appendBatch ==
    /\ phase = "append" /\ phase' = "sync"
    /\ wal' = WriteAtOffset(wal, Frame(records)) /\ walMedia' = walMedia \cup {wal', PartialWrite(wal)}
    /\ UNCHANGED <<core, poisoned, closed, offsetLost, records, pos, snap, snapMedia, opens, history>>

\* The Write or the Sync fails: the batch is refused and the engine poisoned.
Poison == poisoned' = TRUE /\ phase' = "ready" /\ records' = <<>>

appendWriteFails ==
    /\ "append" \in Faults /\ phase = "append" /\ Poison
    /\ wal' \in {wal, PartialWrite(wal)} /\ walMedia' = walMedia \cup {wal'}
    /\ UNCHANGED <<core, closed, offsetLost, pos, snap, snapMedia, opens, history>>

\* Altered appendSync: the frame is taken for durable without a Sync.
AppendUnsynced ==
    /\ phase = "sync" /\ phase' = "apply"
    /\ UNCHANGED <<core, poisoned, closed, offsetLost, records, pos, files, opens, history>>

appendSync ==
    /\ phase = "sync" /\ phase' = "apply" /\ walMedia' = {wal}
    /\ UNCHANGED <<core, poisoned, closed, offsetLost, records, pos, wal, snap, snapMedia, opens, history>>

appendSyncFails ==
    /\ "sync" \in Faults /\ phase = "sync" /\ Poison
    /\ UNCHANGED <<core, closed, offsetLost, pos, files, opens, history>>

\* Every record is applied and the results are returned.
applyRecords ==
    /\ phase = "apply" /\ phase' = "ready"
    /\ core' = FoldLeft(applyDurable, core, records) /\ log' = ExtendLog(records)
    /\ acked' = acked \cup {records[i] : i \in DOMAIN records}
    /\ records' = <<>>
    /\ UNCHANGED <<poisoned, closed, offsetLost, pos, files, opens>>

-----------------------------------------------------------------------------
(* Snapshot, which does not look at poisoned, and Close *)

Snapshot ==
    /\ Admitted /\ phase' = "install"
    /\ UNCHANGED <<core, poisoned, closed, offsetLost, records, pos, files, opens, history>>

\* Altered snapshotRename: the directory is not synced before the WAL is truncated.
RenameUnsynced ==
    /\ phase = "install" /\ phase' = "truncate"
    /\ snap' = [core |-> core, past |-> log] /\ snapMedia' = snapMedia \cup {snap'}
    /\ UNCHANGED <<core, poisoned, closed, offsetLost, records, pos, wal, walMedia, opens, history>>

\* The temporary file is complete and synced when it is renamed.
snapshotRename ==
    /\ phase = "install" /\ phase' = "dirSync"
    /\ snap' = [core |-> core, past |-> log] /\ snapMedia' = snapMedia \cup {snap'}
    /\ UNCHANGED <<core, poisoned, closed, offsetLost, records, pos, wal, walMedia, opens, history>>

snapshotSyncDirectory ==
    /\ phase = "dirSync" /\ phase' = "truncate"
    /\ snapMedia' = IF DirectorySync THEN {snap} ELSE snapMedia
    /\ UNCHANGED <<core, poisoned, closed, offsetLost, records, pos, wal, walMedia, snap, opens, history>>

snapshotTruncate ==
    /\ phase = "truncate" /\ phase' = "header" /\ offsetLost' = TRUE
    /\ wal' = EmptyWAL /\ walMedia' = walMedia \cup {EmptyWAL}
    /\ UNCHANGED <<core, poisoned, closed, records, pos, snap, snapMedia, opens, history>>

snapshotWriteHeader ==
    /\ phase = "header" /\ phase' = "walSync"
    /\ wal' = WithHeader(wal) /\ walMedia' = walMedia \cup HeaderMedia(wal)
    /\ UNCHANGED <<core, poisoned, closed, offsetLost, records, pos, snap, snapMedia, opens, history>>

snapshotSync ==
    /\ phase = "walSync" /\ phase' = "seekEnd" /\ walMedia' = {wal}
    /\ UNCHANGED <<core, poisoned, closed, offsetLost, records, pos, wal, snap, snapMedia, opens, history>>

snapshotSeekEnd ==
    /\ phase = "seekEnd" /\ phase' = "ready" /\ offsetLost' = FALSE
    /\ UNCHANGED <<core, poisoned, closed, records, pos, files, opens, history>>

\* A step fails: Snapshot returns the error and the engine stays in service.
snapshotFails ==
    /\ \/ "install" \in Faults /\ phase \in {"install", "dirSync"}
       \/ "reset" \in Faults /\ phase \in {"truncate", "header", "walSync", "seekEnd"}
    /\ phase' = "ready"
    /\ UNCHANGED <<core, poisoned, closed, offsetLost, records, pos, files, opens, history>>

\* The compare-and-swap on closed, with or without another call being served.
closeBegin ==
    /\ phase \notin Down \cup Recovering /\ ~closed /\ closed' = TRUE
    /\ UNCHANGED <<core, phase, poisoned, offsetLost, records, pos, files, opens, history>>

Close ==
    /\ phase = "ready" /\ closed /\ phase' = "down" /\ Discard
    /\ UNCHANGED <<files, opens, acked>>

processCrash ==
    /\ "process" \in Restarts /\ phase \notin Down /\ phase' = "down" /\ Discard
    /\ UNCHANGED <<files, opens, acked>>

powerLoss ==
    /\ "power" \in Restarts /\ phase' = "down" /\ Discard
    /\ wal' \in walMedia /\ walMedia' = {wal'}
    /\ snap' \in snapMedia /\ snapMedia' = {snap'}
    /\ UNCHANGED <<opens, acked>>

Next ==
    \/ OpenCore \/ loadSnapshot \/ openWAL \/ applyRecovered \/ opened \/ openFails
    \/ \E n \in 1..BatchMax : \E commands \in [1..n -> Commands] : SubmitBatch(commands)
    \/ appendBatch \/ appendWriteFails \/ appendSync \/ appendSyncFails \/ applyRecords
    \/ Snapshot \/ snapshotRename \/ snapshotSyncDirectory \/ snapshotTruncate
    \/ snapshotWriteHeader \/ snapshotSync \/ snapshotSeekEnd \/ snapshotFails
    \/ closeBegin \/ Close
    \/ processCrash \/ powerLoss

Spec == Init /\ [][Next]_vars

-----------------------------------------------------------------------------
(* Properties *)

\* The engine's fields keep their ranges: created accounts have slots, the retained
\* results stay within DedupeWindow, and balances within the platform int.
CoreTypeOK ==
    /\ phase \in Phases /\ poisoned \in BOOLEAN /\ closed \in BOOLEAN /\ offsetLost \in BOOLEAN
    /\ core.present \subseteq core.slots /\ core.slots \subseteq Accounts
    /\ Len(core.order) <= DedupeWindow /\ core.sequence \in 0..MaxSequence
    /\ \A a \in Accounts : core.accounts[a].balance \in -(2^(IntBits - 1))..2^(IntBits - 1) - 1
    /\ wal.header \in {"valid", "empty", "bad"} /\ Len(records) <= BatchMax

\* Whatever power loss leaves, every decision SubmitBatch returned is in the snapshot
\* or in a WAL that scanWAL can read; and a handle that serves has it.
AckedRecoverable ==
    /\ \A r \in acked, s \in snapMedia, w \in walMedia :
           \/ \E i \in DOMAIN s.past : s.past[i].rec = r
           \/ w.header # "bad" /\ \E i \in DOMAIN w.frames : \E e \in Range(w.frames[i]) : e.rec = r
    /\ phase = "ready" => \A r \in acked : r.sequence \in DOMAIN log /\ log[r.sequence].rec = r

\* The accounts, ledger, retained results and sequence a serving engine holds are those
\* its decisions lead to, one by one, however often it was restarted or snapshotted.
AccountsExact ==
    phase = "ready" => Len(log) = core.sequence /\
        \A f \in {"accounts", "present", "ledger", "results", "order", "sequence"} :
            core[f] = StateAt(core.sequence)[f]

\* So are the pending transfers: a snapshot keeps them and replay rebuilds them, whichever
\* of the two a crash leaves.  This is about engines whose appends and Syncs succeed.
PendingExact ==
    phase = "ready" /\ ~poisoned => core.agents = StateAt(core.sequence).agents

\* What the first handle on a directory shows (Get and duplicate results) is on every
\* medium power loss may leave.
ReadsDurable ==
    phase = "ready" /\ opens = 1 => \A s \in snapMedia, w \in walMedia :
        \/ core.sequence <= s.core.sequence
        \/ \E i \in DOMAIN w.frames : \E e \in Range(w.frames[i]) : e.rec.sequence = core.sequence

\* A batch is one frame and one Sync: a handle serves all of its decisions or none.
AllOrNothing ==
    phase = "ready" => \A n \in DOMAIN log : \A r \in Range(log[n].batch) :
        r.sequence \in DOMAIN log /\ log[r.sequence].rec = r

\* No crash, failed call or snapshot leaves files that OpenCore refuses as corrupt, but for
\* a WAL whose header was overwritten after a reset that failed half-way.
OpenSucceeds == phase = "corrupt" => wal.header = "bad"

\* The money a record brings in.
Delta(r) ==
    IF r.effect # "none" /\ r.kind \in {"create", "deposit"} THEN r.amount
    ELSE IF r.effect = "balance" THEN -r.amount ELSE 0
\* The money in the accounts is, in the arithmetic of the platform int, what accepted
\* creates and deposits brought in less what accepted withdrawals took out: transfers move
\* it, also when a balance wraps (decideGo), and evaluating a batch in its staged view
\* before applying its records loses none.
Conservation ==
    phase = "ready" =>
        (MapThenSumSet(LAMBDA a : core.accounts[a].balance, core.present)
            - MapThenSumSet(LAMBDA n : Delta(log[n].rec), 1..core.sequence)) % 2^IntBits = 0

\* A Confirm that moves money has a Begin of the same transfer before it, and no other
\* Confirm, Cancel or Begin of that account in between: a transfer is confirmed once.
ConfirmMatchesBegin ==
    \A n \in DOMAIN log : LET r == log[n].rec IN
        r.kind = "confirm" /\ r.accepted => \E m \in 1..n - 1 :
            LET b == log[m].rec IN
            /\ b.kind = "begin" /\ b.accepted /\ b.a = r.a /\ b.b = r.b /\ b.amount = r.amount
            /\ \A k \in m + 1..n - 1 : log[k].rec.a = r.a /\ log[k].rec.accepted =>
                   log[k].rec.kind \notin {"begin", "confirm", "cancel"}

\* The decision a command gets when it is the only one of its batch.
DecidedAlone(e, r) ==
    EvaluateBatch(e, <<Command(r.id, r.kind, r.a, r.b, r.amount)>>).records[1]

FirstOfBatch(n) == log[n].batch[1].sequence
\* Commands of one batch are decided as they would be one by one, for accounts that had a
\* slot when SubmitBatch began or get it from the first command that names them.
SerialOnKnownAccounts ==
    \A n \in DOMAIN log : LET r == log[n].rec
                              first == FirstOfBatch(n)
                              mine == {m \in first..n : log[m].rec.a = r.a} IN
        r.a \in StateAt(first - 1).slots \/ log[Min(mine)].rec.kind = "create" =>
            r = DecidedAlone(StateAt(n - 1), r)
=============================================================================
