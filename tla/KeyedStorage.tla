---------------------------- MODULE KeyedStorage ----------------------------
(***************************************************************************)
(* The storage engine behind KeyedDB and Database (keyed_storage.go, with  *)
(* the storage side of keyed.go): the in-memory state, the write-ahead     *)
(* log, the snapshot file, group staging and Sync, snapshot installation,  *)
(* process crash, power loss and recovery.                                 *)
(*                                                                         *)
(* One authority at a time works on the store (the admission token of      *)
(* keyed.go); "phase" is its program counter.  KeyedDB.tla adds the        *)
(* callers, the queue and the commit coordinator on top of these actions.  *)
(*                                                                         *)
(* A file is the content the operating system shows (wal, snap) and the    *)
(* set of contents power loss may leave behind (walMedia, snapMedia): the  *)
(* contents it had since its last completed Sync.  A process crash keeps   *)
(* what the operating system shows; only power loss picks from the media.  *)
(***************************************************************************)
EXTENDS Integers, Sequences, FiniteSetsExt

CONSTANTS
    CommandIDs,           \* command identities
    Keys,                 \* record keys
    Values,               \* encoded record values
    Absent,               \* no record; as a write, a delete
    Writes,               \* the write buffers (key -> value or Absent) a callback can leave
    Bytes,                \* length of every key and value; Bytes[Absent] = 0
    jsonText,             \* what a string is after a trip through encoding/json
    MaxRecords,           \* KeyedOptions.MaxRecords
    MaxTransactionBytes,  \* KeyedOptions.MaxTransactionBytes
    DedupeHorizons,       \* the KeyedOptions.DedupeHorizon values the store is opened with
    DirectorySync,        \* syncDirectory reaches the disk (FALSE: Windows)
    Restarts,             \* the ways a process ends without Close: "process", "power"
    MaxSequence,          \* bound: decisions in one history
    MaxOpens              \* bound: calls of OpenKeyed

\* normalizeKeyedOptions makes every bound positive; a write buffer maps keys to
\* values or deletes; the text conversion maps keys to keys and IDs to IDs.
ASSUME StorageAssumption ==
    /\ Absent \notin Values
    /\ \A w \in Writes : w \in [DOMAIN w -> Values \cup {Absent}] /\ DOMAIN w \subseteq Keys
    /\ \A c \in CommandIDs : jsonText[c] \in CommandIDs
    /\ \A k \in Keys : jsonText[k] \in Keys
    /\ DedupeHorizons \subseteq Nat \ {0}
    /\ MaxRecords \in Nat \ {0}
    /\ MaxTransactionBytes \in Nat \ {0}
    /\ Restarts \subseteq {"process", "power"}
    /\ DirectorySync \in BOOLEAN
    /\ MaxSequence \in Nat
    /\ MaxOpens \in Nat

VARIABLES
    mem,        \* KeyedDB.records, dedupe, dedupeIDs, sequence
    horizon,    \* options.DedupeHorizon of this handle
    phase,      \* what the authority is doing
    poisoned,   \* KeyedDB.poisoned
    closing,    \* the running snapshot is the one of Close
    pos,        \* next WAL frame replayKeyedWAL reads
    pending,    \* decisions staged by the running group, waiting for its Sync
    repeats,    \* highest decision of an earlier group the running group answers with again
    wal, walMedia,
    snap, snapMedia,
    opens,      \* calls of OpenKeyed so far
    log,        \* history: the decisions of this timeline and the state after each
    acked,      \* history: decisions reported to their callers as new and successful
    seen        \* history: highest sequence shown by a read or a duplicate

files == <<wal, walMedia, snap, snapMedia>>
history == <<log, acked, seen>>
storageVars == <<mem, horizon, phase, poisoned, closing, pos, pending, repeats,
                 wal, walMedia, snap, snapMedia, opens, log, acked, seen>>

-----------------------------------------------------------------------------
(* Data *)

\* The WAL record of one decision; a rejection carries no writes.
NoWrites == [k \in {} |-> Absent]
Record == [sequence : Nat \ {0}, id : CommandIDs, applied : BOOLEAN, writes : Writes \cup {NoWrites}]

\* What dedupe retains of a record; sequence 0 stands for "not retained".
NoDecision == [sequence |-> 0, applied |-> FALSE]
Decision == [sequence : Nat, applied : BOOLEAN]
decision(r) == [sequence |-> r.sequence, applied |-> r.applied]

State == [records : [Keys -> Values \cup {Absent}], dedupe : [CommandIDs -> Decision],
          dedupeIDs : Seq(CommandIDs), sequence : Nat]
\* An entry of the timeline.
Entry == [rec : Record, after : State]
EmptyState == [records |-> [k \in Keys |-> Absent], dedupe |-> [c \in CommandIDs |-> NoDecision],
               dedupeIDs |-> <<>>, sequence |-> 0]

Live(records) == {k \in Keys : records[k] # Absent}
Overwrite(records, w) == [k \in Keys |-> IF k \in DOMAIN w THEN w[k] ELSE records[k]]

\* finalize counts the bytes of puts only, validateKeyedRecord those of deletes too.
WriteBytes(w, ks) == MapThenSumSet(LAMBDA k : Bytes[k] + Bytes[w[k]], ks)
FinalizedBytes(w) == WriteBytes(w, {k \in DOMAIN w : w[k] # Absent})
ReplayedBytes(w) == WriteBytes(w, DOMAIN w)

\* KeyedTx.finalize accepts the write buffer against the current records.
finalize(records, w) ==
    /\ Cardinality(Live(Overwrite(records, w))) <= MaxRecords
    /\ FinalizedBytes(w) <= MaxTransactionBytes

\* Altered applyKeyed: an ID expires one decision early.
ExpireEarly(m, r, h) ==
    LET ids == Append(m.dedupeIDs, r.id)
        retained == [m.dedupe EXCEPT ![r.id] = decision(r)]
        expire == Len(ids) >= h
    IN [records |-> IF r.applied THEN Overwrite(m.records, r.writes) ELSE m.records,
        sequence |-> r.sequence,
        dedupeIDs |-> IF expire THEN Tail(ids) ELSE ids,
        dedupe |-> IF expire THEN [retained EXCEPT ![Head(ids)] = NoDecision] ELSE retained]

\* applyKeyed under dedupe horizon h.
applyKeyed(m, r, h) ==
    LET ids == Append(m.dedupeIDs, r.id)
        retained == [m.dedupe EXCEPT ![r.id] = decision(r)]
        expire == Len(ids) > h
    IN [records |-> IF r.applied THEN Overwrite(m.records, r.writes) ELSE m.records,
        sequence |-> r.sequence,
        dedupeIDs |-> IF expire THEN Tail(ids) ELSE ids,
        dedupe |-> IF expire THEN [retained EXCEPT ![Head(ids)] = NoDecision] ELSE retained]

\* Every string of a frame or a snapshot has been through encoding/json when it is
\* read back.  Two keys that become one are rejected in a frame; in the snapshot's
\* object the later one wins.
TextInjective(S) == \A x, y \in S : jsonText[x] = jsonText[y] => x = y
DecodeMap(f, S) ==
    [t \in {jsonText[x] : x \in S} |-> f[CHOOSE x \in S : jsonText[x] = t]]
DecodeRecord(r) ==
    [sequence |-> r.sequence, id |-> jsonText[r.id], applied |-> r.applied,
     writes |-> DecodeMap(r.writes, DOMAIN r.writes)]
DecodeState(s) ==
    LET live == DecodeMap(s.records, Live(s.records))
        kept == DecodeMap(s.dedupe, {s.dedupeIDs[i] : i \in DOMAIN s.dedupeIDs})
    IN [records |-> [k \in Keys |-> IF k \in DOMAIN live THEN live[k] ELSE Absent],
        dedupe |-> [c \in CommandIDs |-> IF c \in DOMAIN kept THEN kept[c] ELSE NoDecision],
        dedupeIDs |-> [i \in DOMAIN s.dedupeIDs |-> jsonText[s.dedupeIDs[i]]],
        sequence |-> s.sequence]

File == [frames : Seq(Record), torn : BOOLEAN]
EmptyFile == [frames |-> <<>>, torn |-> FALSE]
\* Bytes written behind a torn frame are not readable as a frame.
WriteFrame(f, r) == IF f.torn THEN f ELSE [frames |-> Append(f.frames, r), torn |-> FALSE]
Tear(f) == [frames |-> f.frames, torn |-> TRUE]
CutTail(f) == [frames |-> f.frames, torn |-> FALSE]

Higher(m, n) == IF m < n THEN n ELSE m

\* The state after the first n decisions of the timeline.
StateAt(n) == IF n = 0 THEN EmptyState ELSE log[n].after

Closed == {"down", "corrupt", "capacity"}
Recovering == {"load", "replay", "truncateSync"}
Snapshotting == {"rename", "dirSync", "walTruncate", "walSync"}
Phases == Closed \cup Recovering \cup Snapshotting \cup {"open", "group", "reply"}

-----------------------------------------------------------------------------
(* Opening: openStorage, loadKeyedSnapshot, replayKeyedWAL *)

StorageInit ==
    /\ mem = EmptyState /\ horizon \in DedupeHorizons /\ phase = "down"
    /\ poisoned = FALSE /\ closing = FALSE /\ pos = 1 /\ pending = {} /\ repeats = 0
    /\ wal = EmptyFile /\ walMedia = {EmptyFile}
    /\ snap = EmptyState /\ snapMedia = {EmptyState}
    /\ opens = 0 /\ log = <<>> /\ acked = {} /\ seen = 0

\* A handle that is gone, or not yet there, holds no state.
Discard ==
    /\ mem' = EmptyState /\ poisoned' = FALSE /\ closing' = FALSE
    /\ pos' = 1 /\ pending' = {} /\ repeats' = 0

\* Altered openKeyed: the horizon is used before it is normalised.
OpenUnnormalised(h) ==
    /\ phase \in Closed /\ opens < MaxOpens
    /\ opens' = opens + 1 /\ horizon' = h - 1 /\ phase' = "load" /\ Discard
    /\ UNCHANGED <<files, history>>

openKeyed(h) ==
    /\ phase \in Closed /\ opens < MaxOpens
    /\ opens' = opens + 1 /\ horizon' = h /\ phase' = "load" /\ Discard
    /\ UNCHANGED <<files, history>>

\* Altered SnapshotFits: a full dedupe window counts as too large.
FullWindowRefused(s) ==
    Cardinality(Live(s.records)) <= MaxRecords /\ Len(s.dedupeIDs) < horizon

SnapshotFits(s) ==
    Cardinality(Live(s.records)) <= MaxRecords /\ Len(s.dedupeIDs) <= horizon
\* An ID that occurs twice has one entry in dedupe, so the order check fails on it too.
SnapshotOrdered(s) ==
    LET sequenceOf(i) == s.dedupe[s.dedupeIDs[i]].sequence IN
    /\ \A i \in DOMAIN s.dedupeIDs : sequenceOf(i) \in 1..s.sequence
    /\ \A i, j \in DOMAIN s.dedupeIDs : i < j => sequenceOf(i) < sequenceOf(j)
    /\ s.sequence # 0 => /\ s.dedupeIDs # <<>>
                         /\ sequenceOf(Len(s.dedupeIDs)) = s.sequence

\* An absent snapshot file leaves the state a snapshot of EmptyState would.
loadKeyedSnapshot ==
    /\ phase = "load"
    /\ LET s == DecodeState(snap) IN
         /\ phase' = IF ~SnapshotFits(s) THEN "capacity"
                     ELSE IF ~SnapshotOrdered(s) THEN "corrupt" ELSE "replay"
         /\ mem' = IF phase' = "replay" THEN s ELSE mem
    /\ UNCHANGED <<horizon, poisoned, closing, pos, pending, repeats, files, opens, history>>

\* The checks of replayKeyedWAL, validateKeyedRecord and validateKeyedApply on one
\* frame, in their order; "replay" when all pass.
ReplayVerdict(frame, last) ==
    LET r == DecodeRecord(frame)
        fresh == r.sequence > mem.sequence
    IN IF (last # 0 /\ r.sequence # last + 1) \/ ~TextInjective(DOMAIN frame.writes) THEN "corrupt"
       ELSE IF ~(ReplayedBytes(r.writes) <= MaxTransactionBytes) THEN "capacity"
       ELSE IF fresh /\ (r.sequence # mem.sequence + 1 \/ mem.dedupe[r.id] # NoDecision) THEN "corrupt"
       ELSE IF fresh /\ r.applied /\ ~(Cardinality(Live(Overwrite(mem.records, r.writes))) <= MaxRecords)
            THEN "capacity"
       ELSE "replay"

\* Altered replayKeyedWAL: frames the snapshot already covers are applied again.
ReplayCovered ==
    /\ phase = "replay" /\ pos <= Len(wal.frames)
    /\ LET r == DecodeRecord(wal.frames[pos])
           last == IF pos = 1 THEN 0 ELSE wal.frames[pos - 1].sequence
       IN /\ phase' = ReplayVerdict(wal.frames[pos], last)
          /\ mem' = IF phase' = "replay" THEN applyKeyed(mem, r, horizon) ELSE mem
          /\ pos' = IF phase' = "replay" THEN pos + 1 ELSE pos
    /\ UNCHANGED <<horizon, poisoned, closing, pending, repeats, files, opens, history>>

replayKeyedWAL ==
    /\ phase = "replay" /\ pos <= Len(wal.frames)
    /\ LET r == DecodeRecord(wal.frames[pos])
           last == IF pos = 1 THEN 0 ELSE wal.frames[pos - 1].sequence
       IN /\ phase' = ReplayVerdict(wal.frames[pos], last)
          /\ mem' = IF phase' = "replay" /\ r.sequence > mem.sequence
                    THEN applyKeyed(mem, r, horizon) ELSE mem
          /\ pos' = IF phase' = "replay" THEN pos + 1 ELSE pos
    /\ UNCHANGED <<horizon, poisoned, closing, pending, repeats, files, opens, history>>

\* The handle is ready: what was not recovered is no longer part of the timeline.
Opened == phase' = "open" /\ log' = SubSeq(log, 1, mem.sequence)

\* End of file after a complete frame.
replayDone ==
    /\ phase = "replay" /\ pos > Len(wal.frames) /\ ~wal.torn
    /\ Opened
    /\ UNCHANGED <<mem, horizon, poisoned, closing, pos, pending, repeats, files, opens, acked, seen>>

\* End of file inside a frame: truncateKeyedTail truncates, then syncs.
truncateKeyedTail ==
    /\ phase = "replay" /\ pos > Len(wal.frames) /\ wal.torn
    /\ wal' = CutTail(wal) /\ walMedia' = walMedia \cup {wal'}
    /\ phase' = "truncateSync"
    /\ UNCHANGED <<mem, horizon, poisoned, closing, pos, pending, repeats, snap, snapMedia, opens, history>>

truncateKeyedTailSync ==
    /\ phase = "truncateSync"
    /\ walMedia' = {wal} /\ Opened
    /\ UNCHANGED <<mem, horizon, poisoned, closing, pos, pending, repeats, wal, snap, snapMedia, opens,
                   acked, seen>>

\* An I/O error while opening: openKeyed returns it and no handle exists.
openStorageFails ==
    /\ phase \in Recovering /\ phase' = "down" /\ Discard
    /\ UNCHANGED <<horizon, files, opens, history>>

-----------------------------------------------------------------------------
(* One commit group: processCommitGroup, from the admission token to the replies *)

beginGroup ==
    /\ phase = "open" /\ phase' = "group"
    /\ UNCHANGED <<mem, horizon, poisoned, closing, pos, pending, repeats, files, opens, history>>

\* The record executeKeyed builds for a new command whose callback returned
\* success with writes w, or a rejection.
NewRecord(c, applied, w) ==
    [sequence |-> mem.sequence + 1, id |-> c, applied |-> applied, writes |-> IF applied THEN w ELSE NoWrites]
Executes(c, applied, w) ==
    /\ phase = "group" /\ ~poisoned /\ mem.sequence < MaxSequence
    /\ mem.dedupe[c] = NoDecision
    /\ applied => finalize(mem.records, w)

\* appendKeyedFrame, then applyKeyed: the decision is staged.
stage(c, applied, w) ==
    LET r == NewRecord(c, applied, w) IN
    /\ Executes(c, applied, w)
    /\ wal' = WriteFrame(wal, r) /\ walMedia' = walMedia \cup {wal', Tear(wal)}
    /\ mem' = applyKeyed(mem, r, horizon)
    /\ pending' = pending \cup {r}
    /\ log' = Append(log, [rec |-> r, after |-> mem'])
    /\ UNCHANGED <<horizon, phase, poisoned, closing, pos, repeats, snap, snapMedia, opens, acked, seen>>

\* Altered stageFails: the decision is applied although its frame was not written.
ApplyWithoutFrame(c, applied, w) ==
    /\ Executes(c, applied, w)
    /\ wal' \in {wal, Tear(wal)} /\ walMedia' = walMedia \cup {wal'}
    /\ mem' = applyKeyed(mem, NewRecord(c, applied, w), horizon)
    /\ UNCHANGED <<horizon, phase, poisoned, closing, pos, pending, repeats, snap, snapMedia, opens, history>>

\* appendKeyedFrame fails with no byte or a part of the frame written.
stageFails(c, applied, w) ==
    /\ Executes(c, applied, w)
    /\ wal' \in {wal, Tear(wal)} /\ walMedia' = walMedia \cup {wal'}
    /\ poisoned' = TRUE
    /\ UNCHANGED <<mem, horizon, phase, closing, pos, pending, repeats, snap, snapMedia, opens, history>>

\* A retained ID: attached to its original when that is staged in this group,
\* answered from dedupe whatever becomes of this group's Sync otherwise.
retry(c) ==
    LET prior == mem.dedupe[c].sequence IN
    /\ phase = "group" /\ ~poisoned /\ prior # 0
    /\ repeats' = IF \E r \in pending : r.sequence = prior THEN repeats ELSE Higher(repeats, prior)
    /\ UNCHANGED <<mem, horizon, phase, poisoned, closing, pos, pending, files, opens, history>>

\* Altered syncKeyed: the group is answered without a Sync.
AnswerUnsynced ==
    /\ phase = "group" /\ pending # {} /\ ~poisoned
    /\ phase' = "reply"
    /\ UNCHANGED <<mem, horizon, poisoned, closing, pos, pending, repeats, files, opens, history>>

syncKeyed ==
    /\ phase = "group" /\ pending # {} /\ ~poisoned
    /\ walMedia' = {wal} /\ phase' = "reply"
    /\ UNCHANGED <<mem, horizon, poisoned, closing, pos, pending, repeats, wal, snap, snapMedia, opens, history>>

\* The error replaces the result of every staged decision.
syncKeyedFails ==
    /\ phase = "group" /\ pending # {} /\ ~poisoned
    /\ poisoned' = TRUE /\ pending' = {} /\ phase' = "reply"
    /\ UNCHANGED <<mem, horizon, closing, pos, repeats, files, opens, history>>

\* No frame was staged, or an append failed: no Sync, nothing staged is acknowledged.
skipSync ==
    /\ phase = "group" /\ (pending = {} \/ poisoned)
    /\ pending' = {} /\ phase' = "reply"
    /\ UNCHANGED <<mem, horizon, poisoned, closing, pos, repeats, files, opens, history>>

reply ==
    /\ phase = "reply" /\ phase' = "open"
    /\ acked' = acked \cup pending /\ seen' = Higher(seen, repeats)
    /\ pending' = {} /\ repeats' = 0
    /\ UNCHANGED <<mem, horizon, poisoned, closing, pos, files, opens, log>>

\* Altered GetKeyed: the read does not wait for admission.
ReadStaged ==
    /\ phase \in {"open", "group"} /\ ~poisoned
    /\ seen' = Higher(seen, mem.sequence)
    /\ UNCHANGED <<mem, horizon, phase, poisoned, closing, pos, pending, repeats, files, opens, log, acked>>

GetKeyed ==
    /\ phase = "open" /\ ~poisoned
    /\ seen' = Higher(seen, mem.sequence)
    /\ UNCHANGED <<mem, horizon, phase, poisoned, closing, pos, pending, repeats, files, opens, log, acked>>

-----------------------------------------------------------------------------
(* Snapshot and close: snapshotKeyed, step by step *)

\* Altered SnapshotKeyed: a poisoned handle can take a snapshot.
SnapshotPoisoned ==
    /\ phase = "open" /\ phase' = "rename"
    /\ UNCHANGED <<mem, horizon, poisoned, closing, pos, pending, repeats, files, opens, history>>

\* The temporary file is written, synced and closed; a left-over one is removed first.
SnapshotKeyed ==
    /\ phase = "open" /\ ~poisoned /\ phase' = "rename"
    /\ UNCHANGED <<mem, horizon, poisoned, closing, pos, pending, repeats, files, opens, history>>

\* Close of a poisoned handle only closes the WAL; otherwise it snapshots first.
Close ==
    /\ phase = "open"
    /\ IF poisoned THEN phase' = "down" /\ Discard
       ELSE /\ phase' = "rename" /\ closing' = TRUE
            /\ UNCHANGED <<mem, poisoned, pos, pending, repeats>>
    /\ UNCHANGED <<horizon, files, opens, history>>

\* Altered snapshotRename: the directory is not synced before the WAL is truncated.
RenameUnsynced ==
    /\ phase = "rename" /\ phase' = "walTruncate"
    /\ snap' = mem /\ snapMedia' = snapMedia \cup {mem}
    /\ UNCHANGED <<mem, horizon, poisoned, closing, pos, pending, repeats, wal, walMedia, opens, history>>

snapshotRename ==
    /\ phase = "rename" /\ phase' = "dirSync"
    /\ snap' = mem /\ snapMedia' = snapMedia \cup {mem}
    /\ UNCHANGED <<mem, horizon, poisoned, closing, pos, pending, repeats, wal, walMedia, opens, history>>

\* On Windows the step succeeds and makes nothing durable.
snapshotSyncDirectory ==
    /\ phase = "dirSync" /\ phase' = "walTruncate"
    /\ snapMedia' = IF DirectorySync THEN {snap} ELSE snapMedia
    /\ UNCHANGED <<mem, horizon, poisoned, closing, pos, pending, repeats, wal, walMedia, snap, opens, history>>

snapshotTruncate ==
    /\ phase = "walTruncate" /\ phase' = "walSync"
    /\ wal' = EmptyFile /\ walMedia' = walMedia \cup {EmptyFile}
    /\ UNCHANGED <<mem, horizon, poisoned, closing, pos, pending, repeats, snap, snapMedia, opens, history>>

snapshotSync ==
    /\ phase = "walSync" /\ walMedia' = {wal}
    /\ IF closing THEN phase' = "down" /\ Discard
       ELSE phase' = "open" /\ UNCHANGED <<mem, poisoned, closing, pos, pending, repeats>>
    /\ UNCHANGED <<horizon, wal, snap, snapMedia, opens, history>>

\* Any step fails: SnapshotKeyed poisons the handle, Close abandons it.
snapshotFails ==
    /\ phase \in Snapshotting
    /\ IF closing THEN phase' = "down" /\ Discard
       ELSE phase' = "open" /\ poisoned' = TRUE /\ UNCHANGED <<mem, closing, pos, pending, repeats>>
    /\ UNCHANGED <<horizon, files, opens, history>>

-----------------------------------------------------------------------------
(* Ends of the process that no code runs for *)

processCrash ==
    /\ "process" \in Restarts /\ phase \notin Closed
    /\ phase' = "down" /\ Discard
    /\ UNCHANGED <<horizon, files, opens, history>>

powerLoss ==
    /\ "power" \in Restarts
    /\ phase' = "down" /\ Discard
    /\ wal' \in walMedia /\ walMedia' = {wal'}
    /\ snap' \in snapMedia /\ snapMedia' = {snap'}
    /\ UNCHANGED <<horizon, opens, history>>

StorageNext ==
    \/ \E h \in DedupeHorizons : openKeyed(h)
    \/ loadKeyedSnapshot \/ replayKeyedWAL \/ replayDone
    \/ truncateKeyedTail \/ truncateKeyedTailSync \/ openStorageFails
    \/ beginGroup
    \/ \E c \in CommandIDs, applied \in BOOLEAN, w \in Writes :
         stage(c, applied, w) \/ stageFails(c, applied, w)
    \/ \E c \in CommandIDs : retry(c)
    \/ syncKeyed \/ syncKeyedFails \/ skipSync \/ reply
    \/ GetKeyed
    \/ SnapshotKeyed \/ Close
    \/ snapshotRename \/ snapshotSyncDirectory \/ snapshotTruncate \/ snapshotSync \/ snapshotFails
    \/ processCrash \/ powerLoss

\* The store on its own.  KeyedDB is shown to implement it: its callers and coordinator
\* only ever take the steps of processCommitGroup, GetKeyed, SnapshotKeyed and Close
\* that admission allows.
StorageSpec == StorageInit /\ [][StorageNext]_storageVars

-----------------------------------------------------------------------------
(* Properties *)

\* A handle answers callers in these phases.
Serving == {"open", "group", "reply"} \cup Snapshotting

\* Memory, files and history keep their shape, files power loss left and decoded text
\* included; openKeyed has normalised the horizon it works with.
TypeOK ==
    /\ mem \in State /\ snap \in State /\ snapMedia \subseteq State
    /\ wal \in File /\ walMedia \subseteq File
    /\ horizon \in DedupeHorizons /\ phase \in Phases
    /\ poisoned \in BOOLEAN /\ closing \in BOOLEAN
    /\ pos \in Nat \ {0} /\ opens \in Nat /\ seen \in Nat
    /\ pending \subseteq Record /\ repeats \in Nat /\ acked \subseteq Record
    /\ log \in Seq(Entry)

\* Whatever power loss leaves of the two files, it still holds every decision that
\* processCommitGroup reported as successful: in the snapshot, or as a WAL frame.
AckedDurable ==
    \A r \in acked, s \in snapMedia, w \in walMedia :
        /\ r.sequence \in DOMAIN log /\ log[r.sequence].rec = r
        /\ r.sequence <= s.sequence \/ \E i \in DOMAIN w.frames : w.frames[i] = r

\* The state a handle serves, freshly recovered or not, is the state the callbacks
\* computed when they ran (records, sequence, dedupe and its order), with no decision
\* of the timeline missing: replayKeyedWAL and loadKeyedSnapshot rebuild it exactly.
RecoveryExact ==
    phase \in Serving => mem.sequence = Len(log) /\ mem = StateAt(Len(log))

\* No crash, I/O error or snapshot leaves files that openStorage refuses with
\* ErrorCorruption or ErrorCapacity.
RecoverySucceeds == phase \notin {"corrupt", "capacity"}

\* dedupe keeps a command ID from being executed again within the next
\* DedupeHorizon decisions, restarts in between included.
AtMostOnceInHorizon ==
    \A i, j \in DOMAIN log :
        i < j /\ log[i].rec.id = log[j].rec.id => j - i > horizon

\* Power loss cannot take decision n back.
OnDisk(n) ==
    \A s \in snapMedia, w \in walMedia :
        n <= s.sequence \/ \E i \in DOMAIN w.frames : w.frames[i].sequence = n
\* A read, or a duplicate reply, of the first handle on a directory shows nothing that
\* power loss could take back: staged state stays inside the running group.
FirstHandleReadsDurable == opens = 1 => OnDisk(seen)

\* What a read or a duplicate reply has shown is still there when a later handle
\* serves: neither GetKeyed nor a retry exposes state that goes away.
SeenNotLost == phase \in Serving => seen <= mem.sequence

\* A handle whose files lost an acknowledged decision is refused, not served: damage
\* fails closed.
FailClosed == phase \in Serving => \A r \in acked : r.sequence <= mem.sequence

\* The promise, with the timeline as its decisions.
Promise == INSTANCE DecisionLog WITH
    DedupeHorizon <- CHOOSE h \in DedupeHorizons : TRUE,
    decisions <- [i \in DOMAIN log |-> log[i].rec], confirmed <- acked
\* The store implements DecisionLog: callers of SubmitKeyed see one growing history that
\* keeps every acknowledged decision, whatever the files go through.
ImplementsDecisionLog == Promise!Spec
=============================================================================
