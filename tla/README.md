# A TLA+ model of OctetDB

OctetDB is an embedded, single-process Go database. It keeps its state in memory, makes
every decision durable in a checksummed write-ahead log (WAL) before acknowledging it,
and replaces the log by a snapshot from time to time. This directory models the catalog
product (`catalog.go`, `catalog_storage.go`, `query.go`) and the keyed store under it
(`keyed.go`, `keyed_storage.go`), the bounded account engine of the v0.1 API
(`internal/core`, `octetdb.go`), the FORMAT marker they share, and the transfer protocol
that `experiments/BSOSim/M0` runs on top of the catalog. TLC checks the models on small
instances; TLAPS proves the main results about the keyed store, the catalog and the transfer protocol
for every instance.

## 1. Inventory

| Part | Source | State | Operations | Model |
|---|---|---|---|---|
| keyed storage engine | `keyed_storage.go`, storage side of `keyed.go` | records, dedupe window, sequence; WAL and snapshot files; poisoned flag | open/replay, stage, sync, snapshot, close | `KeyedStorage` |
| keyed database | `keyed.go` | queue, wake channel, coordinator goroutine, commit group, admission token, closed flag | SubmitKeyed, GetKeyed, SnapshotKeyed, Close | `KeyedDB` |
| keyed transactions | `keyed.go` (KeyedTx) | write buffer of a callback | Get, Put, Delete, finalize | only the buffer a callback leaves, in `KeyedStorage` |
| account engine | `internal/core` | accounts, slots, agents (pending transfers), ledger, retained results; WAL and snapshot files | SubmitBatch, Account, Snapshot, Close, OpenCore | `AccountCore` |
| account API | `octetdb.go` | admission, closed flag | Open, Submit, SubmitBatch, Get, Snapshot, Close | as guards in `AccountCore` |
| catalog | `catalog.go`, `catalog_storage.go` | topology file, bounds, key cursor `queryKeys` | OpenCatalog, Bucket, Dataset, Mutate, Get, Snapshot, Close | `Catalog` |
| scans | `query.go` | the position of a scan | Scan, ScanDataset | `Catalog`, key slices in `QueryKeys` |
| FORMAT marker | `ensureKeyedFormat`, `ensureFormat` | FORMAT and FORMAT.tmp | create or verify at open | `FormatMarker`, composed in `Catalog` |
| bilateral transfers | `experiments/BSOSim/M0` | balances, reservations and transfer states of two ends, recorded outcomes, message queue | reserve, six message handlers, reconcile with expiry | `BSOTransfer` |
| errors, package docs | `errors.go`, `doc.go` | none | — | no state to model |
| other experiments, benchmarks, generated code | `internal/*` except `core`, `cmd`, the rest of `experiments`, `integration`, `examples` | — | — | not imported by the product |

How the parts interact. A `Database` (catalog) is a `KeyedDB` plus a topology file; all its
mutations are `SubmitKeyed` calls. A caller of `SubmitKeyed` appends a request to a queue
under `commit.mu` and waits. One coordinator goroutine takes up to `keyedMaxCommitGroup`
requests, takes the admission token, runs their callbacks one after another on the shared
maps, writes one WAL frame per decision, syncs once and delivers every result. Reads and
snapshots take the same token. `Close` flips `closed`, waits for the coordinator to drain
the queue, then takes the token for good and snapshots. A storage error poisons the handle.
The account engine is simpler: one mutex, one frame and one Sync per batch. Every open
looks at the FORMAT marker first. `Bucket` and `Dataset` rewrite the topology file under the
admission token; a record's key begins with the ID of its dataset, so topology, snapshot and
WAL have to agree after every crash. A bank-shaped object (BSO) of BSO-SIM-M0 keeps its whole
state in one record of its own database, and each message it handles is one `Mutate` whose
command ID names the message.

What makes the code hard:

* a group is staged in the live maps before its Sync, and a failed append or Sync must
  not let any of it out;
* a snapshot is installed in five durable steps, any of which may fail or be the last;
* recovery reads whatever a process crash (page cache intact) or power loss (any content
  since the last Sync) left, and sequences of both;
* `Close` races queued and arriving requests; the wake channel holds a single token;
* retries within a group, across groups and across restarts meet a sliding dedupe window;
* frames, snapshots and the topology file pass through `encoding/json`, which replaces bytes that are not valid
  UTF-8, in keys and in names;
* the marker, the topology file, the snapshot and the WAL are renamed and synced separately,
  and power loss keeps an arbitrary choice of what is not yet synced;
* a message whose ID was handled before is answered from the record, which is the wrong
  answer if the record was made too early.

The `hazards` of `PROJECT.json` list these at their source lines with the properties that
would catch each going wrong.

## 2. Modules

| Module | Role |
|---|---|
| `DecisionLog` | abstract specification: what the keyed store promises its callers |
| `KeyedStorage` | the storage engine; implements `DecisionLog` |
| `KeyedDB` | callers and coordinator on top of `KeyedStorage` (EXTENDS it; each step that touches the store is a storage action joined with what it does to callers) |
| `FormatMarker` | the FORMAT file |
| `QueryKeys` | the sorted key slices behind scans: sorting, and one put or delete |
| `Catalog` | the catalog product over `KeyedStorage`, `FormatMarker` and `QueryKeys` (EXTENDS them) |
| `AccountCore` | the account engine |
| `TransferLedger` | abstract specification: transfers that happen in one step or not at all |
| `BSOTransfer` | the transfer protocol of BSO-SIM-M0; implements `TransferLedger` |
| `MCKeyedStorage`, `MCKeyedDB`, `MCCatalog`, `MCAccountCore`, `MCBSOTransfer` | small instances for TLC |
| `KeyedStorage_proof` | what the store's operators return; types and bounds; `Durability`, `FailsClosed`, what poisoning stops, and `NothingSeenIsLost` while power stays on |
| `KeyedRecovery_proof` | `ExactRecovery`, `AtMostOnce`, and `RecoveryOpens` while power stays on |
| `KeyedPromise_proof` | `PromiseKept` (the store implements `DecisionLog`), `FirstReadsDurable`; the store's invariants when another product shares its directory, and the states recovery may find |
| `KeyedDB_proof` | callers, queue and coordinator: `NobodyLeftBehind`, `WakeupsNotLost`; the database implements the store, `PoisonHolds`, `FaithfulAnswers` |
| `QueryKeys_proof` | a sorted slice is determined by its set of keys, and puts and deletes keep it sorted |
| `Catalog_proof` | the topology file and the marker beside the store: what `encoding/json` does to names, `CatalogStaysCurrent`, `PromisesHold`, the IDs of datasets and the room in them, and the steps of the results that need the store |
| `CatalogStore_proof` | the store under the catalog: `CatalogDurability`, `CatalogKeepsPromise`, `RecordsStay`, `OwnerStays`, `FilesStayTogether`, `CursorStaysExact`, `ScansSeeOneState` |
| `BSOTransfer_proof` | `Agreement`, `ExactlyOnce`, `DecisionsStay`; sums over finite sets, `MoneyIsConserved`, `LedgerImplemented` |

Definitions named *Altered ...* in a comment are plausible mistakes in the code (a dropped
check, a missing Sync, an off-by-one). They are not used by any specification; putting one in the
place of the definition after it violates the property it is recorded for in `PROJECT.json`.

### Files, crashes and power loss

The storage models describe a file by two variables: the content the operating system
shows (`wal`, `snap`, `catFile`, `marker`) and the set of contents power loss may leave
(`walMedia`, `snapMedia`, `catMedia`, `markerMedia`). A write or truncation adds its result (and, for an append, the torn frame)
to the media; a completed Sync reduces the media to the present content. A process crash
discards memory only. Power loss picks one element of each set, every file
independently. A rename is durable after the directory Sync, whichever component calls it,
since all files are in one directory; where `DirectorySync` is
FALSE (the code skips it on Windows) it never is for certain. A WAL file that `O_CREATE` has just made
(`keyed_storage.go:64`, `core.go:504`) is different: the code syncs the file and never the
directory for it, and the models take that Sync to make its directory entry durable as well. A file
system that can lose the entry of a synced new file is outside the models.

The assumption behind this is *ordered persistence within a file*: what power loss leaves
is a content the file had since its last Sync, possibly with a torn last frame. A
medium on which a later unsynced frame survives while an earlier one is lost or zeroed is
outside the model. So is silent damage to synced bytes: checksums are not modelled.

### KeyedStorage

`mem` is the handle's records, `dedupe`, `dedupeIDs` and sequence; `phase` is the program
counter of whoever holds the admission token, so each I/O call is a step of its own.

| Action | Code |
|---|---|
| `openKeyed`, `loadKeyedSnapshot`, `replayKeyedWAL` (one frame a step), `replayDone`, `truncateKeyedTail`, `truncateKeyedTailSync`, `openStorageFails` | `openKeyed`, `openStorage` and the functions of those names; `ReplayVerdict` holds the checks of `validateKeyedRecord` and `validateKeyedApply` in their order |
| `beginGroup`, `stage`, `stageFails`, `retry`, `syncKeyed`, `syncKeyedFails`, `skipSync`, `reply` | `processCommitGroup`, `executeKeyed`, `appendKeyedFrame`, `syncKeyed` |
| `GetKeyed` | `GetKeyed` |
| `SnapshotKeyed`, `snapshotRename`, `snapshotSyncDirectory`, `snapshotTruncate`, `snapshotSync`, `snapshotFails`, `Close` | `SnapshotKeyed`, `snapshotKeyed`, `Close` |
| `processCrash`, `powerLoss` | external |

Data kept: keys, command IDs, values as atoms with a length; the write buffer; applied or
rejected. Data dropped: value and result contents, checksums, frame lengths. Text
conversion is kept as the function `jsonText` (invalid UTF-8 is replaced when a frame or a
snapshot is read back). `log`, `acked` and `seen` are history: the timeline of decisions with
the state each callback left, the decisions reported as new successes, and the highest
sequence shown to a reader or a retry. They never influence a step. When a handle opens,
the timeline is cut to what it recovered.

### KeyedDB

`pc` and `command` are the callers, `queue`, `wake`, `coord`, `group`, `index`, `staged`,
`durable` and `results` the variables of `runCommitCoordinator` and `processCommitGroup` of
those names. The lock `commit.mu` makes `submitEnqueue` and `coordTake` single steps; the
checks before the lock (`submitBegin`) and the wake-up after it (`submitWake`) are separate
steps, as are the two halves of `enterKeyed` around the wait for admission and the parts of
`Close`. Admission is free exactly in phase `"open"`. Early returns that change nothing are
not steps. A callback is a choice among success with some write buffer, rejection, or giving
up (`executeAborts`: an error, a panic, or writes that `finalize` refuses).

### Catalog and FormatMarker

`catPhase` says what the holder of the admission token does with the topology file; a store step of a
caller needs it to be `"ready"`, so structural calls, scans and commit groups exclude each other as
`enterKeyed` makes them. Each store step is a `KeyedStorage` action joined with what it does to the
catalog: `Mutate` is `stage` with the checks of `Tx` and `validateDatasetBounds` before it and the
cursor update `afterApply` behind it.

| Action | Code |
|---|---|
| `startOpen`, `markerStep`, `markerSyncDirectory` | `ensureKeyedFormat`, `ensureFormat` (the same steps with other contents) |
| `openOther` | `Open` of the account product on a directory it got |
| `openStore`, `createWAL`, `recoverStore`, `loadCatalog`, `loadCatalogFails` | `OpenCatalog`, `openStorage`, `loadOrCreateCatalog`, `validateCatalogState` |
| `Bucket`, `createDataset`, `persistRename`, `persistSyncDirectory`, `persistFails` | `Database.Bucket`, `Bucket.Dataset`, `persistCatalog` |
| `beginCommands`, `Mutate`, `MutateFails`, `commitStep` | `Database.Mutate`, `processCommitGroup` |
| `beginScan`, `visit`, `endScan` | `Dataset.scan` record by record; `Get` is a scan of one record |
| `snapshotStep`, `snapshotDirectory` | `Database.Snapshot`, `Database.Close` |
| `crash`, `losePower` | external |

A record key is a pair of dataset ID and key; `jsonText` maps the pair, so the ID can change when
a frame is read back. Names and type identities are numbers, for their places in byte order, and `jsonName` is what a
trip through `encoding/json` makes of one. `catFile` is what a reader of the topology file gets: `decoded` spells every name through
`jsonName`, and where two names of a map are then spelt alike keeps the one that is later in byte order, as `json.Marshal` sorts the keys
of a map and `json.Unmarshal` lets a repeated key replace the earlier one. The handle that wrote the file goes on with the names as the
callers gave them. `ValidNames` are the names that `validCatalogName` accepts, when a name is used and when it is read back. A random database identity is the number of the open that made it. `promised`,
`owner` and `reliance` are history: what calls returned, the dataset name an ID was last
written under, and whether a handle works with a rename that power loss can still undo. Calls
that find an existing bucket or dataset, and calls that are refused, change nothing and are not
steps.

### AccountCore

`core` is the engine's state; `SubmitBatch` evaluates a whole batch under the mutex
(`decideCommand` per command, on the staged view `scratch`/`marks`, with slots and agents
changed in place), then `appendBatch`, `appendSync` and `applyRecords` are steps, each of
which may fail where the code can. `Snapshot` is split like `KeyedStorage`'s; it does not look at
`poisoned`, as in the code. `offsetLost` is TRUE while the file offset of the WAL is not its end.
`Wrap` gives balances the width of the platform `int`. A frame and a snapshot carry the
history that produced them, because a refused batch can vanish and come back.
Not modelled: `MemoryOnly` durability, opening with a different `DedupeWindow`, statistics.

### BSOTransfer and TransferLedger

`outgoing` and `incoming` are the state of a transfer at its sender and at its receiver, `debits` and
`credits` their audit entries, `answered` the outcome the receiving store has recorded for a message,
`net` the transport's queue. A message is transfer, kind and direction; the other fields of an
envelope follow from the transfer. Every handler is one action (`receiveOffer` to
`receiveReconcile`), with `replay` for a message whose outcome is recorded and `forget` for an outcome that the
dedupe window of the store no longer holds. `reconcile` is a whole pass over all participants:
nothing is delivered during it. `drop` may lose a message at any time before delivery, and delivery
takes any queued copy: both allow more than the transport does, which draws the loss when it
sends and orders by delay. A restart of a participant (`maybeCrash`) finds the state of its
last `Mutate` and is no step. `StateAccepted` at a sender, which the code tests for, is
never assigned. `SeenMessages` is written and never read. `MaxRounds`, envelope authentication, metrics and the comparison with a
global controller are left out.

`TransferLedger` has the funds of every participant and moves an amount in one step; a
transfer is mapped to `moved` when its receiver has committed.

## 3. What the runs check

Every configuration sets `CHECK_DEADLOCK FALSE`: a closed database may stay closed,
behaviours stop at the named bounds (`MaxSequence` decisions, `MaxOpens` opens), and the
transfer simulation ends when all transfers are resolved.

| Run (cfg) | Properties | Shows |
|---|---|---|
| `storage_crash` (`StorageCrash`) | `TypeOK`, `AckedDurable`, `RecoveryExact`, `AtMostOnceInHorizon`, `FirstHandleReadsDurable`, `FailClosed`, `ImplementsDecisionLog` | every I/O failure, process crash and power loss on three opens: acknowledged decisions are on every medium, recovery is exact, retained IDs are not executed again, a first handle shows only durable state, and the engine implements `DecisionLog` |
| `storage_process` (`StorageProcess`) | `RecoverySucceeds`, `SeenNotLost` | without power loss, every directory the code leaves opens again and nothing shown goes away |
| `database_safety` (`DatabaseSafety`) | `DrainedAtExit`, `NoLostWakeup`, `AnswersFaithful`, `StorageSpec`, `PoisonBarrier` | two callers against the coordinator and power loss: no request stranded, faithful answers, the engine used only as it allows, a poisoned handle inert |
| `database_liveness` (`DatabaseLiveness`) | `SubmitReturns`, `CloseReturns` | every call of both kinds returns |
| `account_power` (`AccountPower`) | `CoreTypeOK`, `AckedRecoverable`, `AccountsExact`, `PendingExact`, `ReadsDurable`, `AllOrNothing` | batches, snapshots that may fail to install, process crashes, power loss, torn headers |
| `account_process` (`AccountProcess`) | `AccountsExact`, `OpenSucceeds` | every storage call may fail, WAL resets included, with process crashes |
| `account_batch` (`AccountBatch`) | `Conservation`, `ConfirmMatchesBegin`, `SerialOnKnownAccounts` | every kind of command in batches, with retries, expired IDs and balances that wrap |
| `catalog` (`Catalog`) | `CursorExact`, `ScanSeesOneState`, `CatalogCurrent`, `RecordsStayInTheirDataset`, `PromisesKept`, `FilesFitTogether`, `NeverReinterpreted` | structural calls, commands, scans, snapshots and opens of two product models, each failing at any step, with process crashes and power loss: cursor and scans exact, records in the dataset they were written to, identity and the names that `encoding/json` leaves alone kept, marker, topology, snapshot and WAL fit together, with a name beside them that is altered at the reopen |
| `transfer` (`BSOTransfer`) | `BothSidesAgree`, `AppliedOnce`, `MoneyConserved`, `ImplementsLedger`, `DecisionsFinal`, `EveryTransferResolves` | messages lost, repeated, late or no longer remembered: the ends agree, money is moved once or not at all, every transfer is settled |

**Bounds.** Two command IDs and a horizon of one let an ID be retained, retried, expired and
executed again within three decisions. Three opens allow a crash during normal work, one
during the recovery or snapshot that follows, and a look at the result; one key with a put and
a delete distinguishes any two orders of two decisions. Two callers and groups of two are
the least in which a request can be staged behind another, be attached to it, or arrive
while a group runs or a `Close` begins. For the account engine, batches of two commands over two
accounts allow a transfer inside the batch that creates its accounts, and `account_power` has a
`begin` under either ID so that a pending transfer can be retained and overtaken; `IntBits = 5` is
enough for the amounts there. In `AccountBatch` `IntBits` is 3, and a create of 3 with deposits
wraps: `Conservation` is modulo 2^3. `AccountBatch`
uses `BatchSpec`, one handle that only submits batches: the decisions depend on the state,
which the other runs show to be rebuilt exactly. Symmetry is used over command IDs (and
callers) only in runs that check invariants and step properties, never for liveness.

For the catalog, two datasets of one bucket, one of them full after a single record; one write puts two records, before
and after a key that may be there, the other moves a record from the first dataset to the second. Repeated within two decisions they
insert, overwrite and delete. The name of the second dataset is not valid UTF-8: after a reopen it is U+FFFD, and asking for the old name again
makes a third dataset that the file cannot tell from it, which is why `MaxDatasets` is 3. Two opens put a crash
or a failed structural call between the handle that wrote and the handle that reads. The instance has 519,888 states. The
refusals of `loadCatalog` other than a failed read need a third open. `Models` has the account product as the one that competes for the directory. For the transfers, three attempts
between two participants: `t1` and `t3` compete for one balance, `t2` goes the other way. `Duplicated` and `Forgotten`
are the Offer of `t1`: by the two replies every later message of `t1` can be in the queue again too. The run forgets the recorded outcome of
that Offer only; the theorems about the protocol let any outcome be forgotten. An
expiry after two rounds leaves one round in which reservations are offered again. Instances in which every
message may be repeated, one at a time or (for two transfers, safety only) without limit, and no outcome is
forgotten, passed as well, the latter with 793,358 states.

**What the account power run leaves out.** `AccountPower` excludes failing appends, Syncs and
WAL resets, since those combined with power loss lead to behaviours described in section 4;
they are covered with process crashes in `AccountProcess`.

**Fairness** of the database (`FairSpec` of `KeyedDB`). Weak fairness of the coordinator and of every caller that has begun a
call: a goroutine that can run does, and a storage call ends, with or without an error. Strong
fairness of `coordAdmit`: readers and snapshots may take the admission token again and
again, but a Go channel serves waiting receivers in order, so the coordinator gets its turn.
Nobody is obliged to start a call. Callbacks are assumed to return; a callback that calls the
database from inside waits for itself and is outside the model.

**Fairness** of the transfers (`FairSpec` of `BSOTransfer`). Weak fairness of reserving, delivering and reconciling: `Run` is a
loop that does each in turn. Strong fairness of the delivery of Commit, Acknowledge and Reconcile
messages: a sender or receiver repeats them every round, and the transport draws the loss of
each copy independently with a rate below one, so one of them arrives. Offers and Accepts need
none: a transfer whose Offer never arrives expires.

## 4. Where code and documentation disagree

Each of these runs checks one property that a document or comment states, and TLC finds a
behaviour of the code that violates it. `PROJECT.json` quotes the lines.

| Run | Property | What happens |
|---|---|---|
| `storage_gap` | `RecoverySucceeds` | frames replayed after a process crash were never synced; a snapshot covers them, power loss leaves the WAL shorter than the snapshot, the next frame leaves a gap, and the store refuses to open |
| `account_failed_reset` | `AckedRecoverable` | after a failed WAL reset the engine keeps appending where the header should be |
| `catalog_ids` | `ReopenSurvives` | dataset IDs from 128 on are bytes that are not valid UTF-8 inside a JSON string: after a normal close the records come back under another ID and the database does not open |

The runs above also stay away from these behaviours. Other values of the constants show them, or, for
`reliance`, plain names and `SerialOnKnownAccounts`, the property without its condition:

* `RecoverySucceeds` with deletes whose key bytes exceed `MaxTransactionBytes` (a key of that many `Bytes` in
  `Writes`): `KeyedTx.finalize` counts puts only, `validateKeyedRecord` counts deletes too, and the store refuses its own log;
* `FailClosed` with `DirectorySync = FALSE`: power loss after the WAL was truncated brings the old snapshot back, and the
  handle serves without acknowledged decisions, where `docs/DURABILITY.md:43-45` has a fail-closed open;
* `PendingExact` of the account engine with `Faults = {"sync"}`: a snapshot of the poisoned engine makes the pending transfer of
  a refused batch durable, against the comment at `core.go:282-284`;
* `PromisesKept` and `FilesFitTogether` without their condition on `reliance`: `persistCatalog` fails at the directory Sync, the
  next open reads the renamed file and does not sync the directory, a dataset returned by that handle takes records, and
  power loss undoes the rename; the records then have no dataset and the open is refused.
  `docs/DURABILITY.md:12-16` says that the structure is synchronized before `Bucket` or `Dataset` returns;
* `SeenNotLost` with `Restarts = {"process", "power"}`: a frame that was replayed but never synced can be read, or
  answered to a retry, and then be lost;
* `RecoverySucceeds` with `DedupeHorizons = {1, 2}`: a log in which an expired ID ran again is refused
  under the larger horizon;
* `RecoveryExact` with a `jsonText` that alters a key (a key that is not valid UTF-8): the record is under another key after recovery;
* `AllOrNothing` of the account engine with `Faults = {"sync"}`, power loss and four opens: a failed Sync, a snapshot of
  the poisoned engine, a crash before its truncation is synced, a snapshot of a replayed batch and power
  loss leave a snapshot that ends inside the refused batch, half of which is served;
* names that are not valid UTF-8 (`validCatalogName` accepts them) and `PromisesKept` or `FilesFitTogether` without their condition on
  plain names: two datasets called `"\xff"` and `"\xfe"` are spelt alike in the topology file, and after a reopen one of them is gone. A dataset `"\xff"` is called
  `"\ufffd"` after a reopen; when a caller asks for `"\xff"` again a new one is made, replaces the first in the file, and the records of
  the first have no dataset at the next open, which is refused. A type identity that is altered makes `Dataset` refuse its own dataset as incompatible. A name
  just under 4 KiB grows when its bytes are replaced, and the next open refuses the catalog as corrupt (`ValidNames` without the name it becomes);
* an account command on a missing account takes a slot, so that `MaxAccounts` does not bound the slots, and the next
  open can be refused as incompatible. `OpenSucceeds` is about corruption and does not exclude it; its run has no more accounts than slots;
* commands on an account that gets its slot in the middle of a batch (a begin before the create) are the
  exception `SerialOnKnownAccounts` names: the create's record drops the pending transfer that serial
  submission would keep;
* a callback that gives up after reading staged state has its error delivered although the group's Sync
  failed (`executeAborts` does not enter `durable`).

## 5. What is proved

The theorems hold for any sets of commands, keys, callers and write buffers and any number of
decisions, opens and crashes. They use the constants' assumptions (`StorageAssumption`,
`CoordinatorAssumption`, `CatalogAssumption`, `TransferAssumption`) and, where stated, these hypotheses:

* `DirectorySync`: the directory Sync reaches the disk (false on Windows; section 4 shows
  that the hypothesis is needed);
* `PlainText`: keys and IDs are valid UTF-8 (section 4 shows that it is needed);
* `OneHorizon`: every open uses the same `DedupeHorizon`;
* no power: `"power" \notin Restarts`, the process may be killed anywhere but the page cache survives
  (`storage_gap` and section 4 show that the two theorems with this hypothesis need it);
* `ReplayFits`: what `finalize` lets through is within `MaxTransactionBytes` also when the keys of deletes are counted, as
  `validateKeyedRecord` does (section 4 shows that it is needed).

| Theorem | Statement | Hypotheses |
|---|---|---|
| `TypeCorrect` | `StorageSpec => []TypeOK` | — |
| `Durability` | `StorageSpec => []AckedDurable` | `DirectorySync` |
| `FailsClosed` | `StorageSpec => []FailClosed` | `DirectorySync` |
| `NothingSeenIsLost` | `StorageSpec => []SeenNotLost` | no power |
| `ExactRecovery` | `StorageSpec => []RecoveryExact` | `PlainText`, `OneHorizon` |
| `AtMostOnce` | `StorageSpec => []AtMostOnceInHorizon` | `PlainText`, `OneHorizon` |
| `RecoveryOpens` | `StorageSpec => []RecoverySucceeds` | `PlainText`, `OneHorizon`, `ReplayFits`, no power |
| `PromiseKept` | `StorageSpec => ImplementsDecisionLog` | `DirectorySync`, `PlainText`, `OneHorizon` |
| `FirstReadsDurable` | `StorageSpec => []FirstHandleReadsDurable` | the same three |
| `DatabaseImplementsStorage` | `Spec => StorageSpec` | — |
| `DatabaseDurability`, `DatabaseKeepsPromise` | `Durability` and `PromiseKept` for the whole database | as above |
| `PoisonHolds` | `Spec => PoisonBarrier` | — |
| `NobodyLeftBehind` | `Spec => []DrainedAtExit` | — |
| `WakeupsNotLost` | `Spec => []NoLostWakeup` | — |
| `FaithfulAnswers` | `Spec => []AnswersFaithful` | the same three |
| `CatalogStaysCurrent` | `Spec => []CatalogCurrent` (`Catalog`) | — |
| `PromisesHold` | `Spec => []PromisesKept` | `DirectorySync` |
| `CatalogDurability`, `CatalogKeepsPromise` | `Durability` and `PromiseKept` for the catalog product | as above |
| `OwnerStays` | `Spec => []NeverReinterpreted` | `DirectorySync` |
| `RecordsStay` | `Spec => []RecordsStayInTheirDataset` | `DirectorySync`, `PlainText`, `OneHorizon` |
| `FilesStayTogether` | `Spec => []FilesFitTogether` | the same three |
| `CursorStaysExact` | `Spec => []CursorExact` | — |
| `ScansSeeOneState` | `Spec => []ScanSeesOneState` | `DirectorySync`, `PlainText`, `OneHorizon` |
| `Agreement` | `Spec => []BothSidesAgree` (`BSOTransfer`) | — |
| `ExactlyOnce` | `Spec => []AppliedOnce` | — |
| `DecisionsStay` | `Spec => DecisionsFinal` | — |
| `MoneyIsConserved` | `Spec => []MoneyConserved` | — |
| `LedgerImplemented` | `Spec => ImplementsLedger` | — |

**The argument.** `TypeOK` is not inductive alone: at the end of recovery the timeline is cut at
`mem.sequence`, so memory must not run ahead of it. `Bounds` adds that memory, snapshots and
frames stay within the timeline and that no medium holds a decision which recovery from the
present files does not reach (otherwise a later power loss could bring back a decision that
was cut off). `BoundsInvariant` proves both together.

`Durability` adds `SafeFiles` (a usable handle appends behind complete frames; the WAL is cut
only when the new snapshot is the only one power loss can leave) and `Staged` (what a group
waits for is in the WAL, and after the Sync on every medium). With these, each step either
keeps an acknowledged frame on every medium or replaces it by a snapshot that covers it.
`FailsClosed` follows: recovery reaches everything the media hold.

`ExactRecovery` avoids an induction over the log. The timeline records the state after each decision;
`TimelineExact` says each one follows from the one before by `applyKeyed`, `CopiesExact` that memory,
snapshots and frames on every medium are states and decisions of the timeline. One replayed
frame then moves memory from one entry to the next. `AtMostOnce` adds `Windows`: after n
decisions the dedupe window holds the IDs of the last min(n, horizon), so a new decision has an
ID that none of them has.

`NothingSeenIsLost` and `RecoveryOpens` are about the files as the process sees them, since without power loss no other medium is ever
read. `Joined` says that the frames of the WAL follow one another, start no later than right behind the snapshot and end no earlier than it,
and that a handle in service stands where they end; `Shown` that no read and no retry went beyond that end. A crash leaves the end where
it was, and recovery arrives there again. `RecoveryOpens` then has to exclude every reason to refuse the files: a gap (`Joined`), an ID
that the dedupe window still holds (`Windows`, with the sequence of each entry, so that replay behind an older snapshot meets exactly the window
the decision was made in), too many bytes or too many records (`Replayable`: each decision of the timeline passes the checks of `replayKeyedWAL`).

`PromiseKept` maps `decisions` to the timeline and `confirmed` to `acked`: `stage` is `Decide`, the end of
recovery `Forget` (nothing confirmed is forgotten, by `FailsClosed` and `Durability`), `reply` is
`Confirm`, and every other step stutters. `DatabaseImplementsStorage` needs `Requests` (a queued
request is in one place and its caller still waits with its command) and `Loop` (the group's
index), so that the command handed to `stage` or `retry` is a real one. `PoisonHolds` needs
that a poisoned handle is not in a snapshot and has nothing to acknowledge (`PoisonedIdle`).

`FirstReadsDurable` needs to know where `dedupe` has its entries from (`Origins`: what memory retains of an ID is a
decision of the timeline with that ID) and that nothing leaves the media (`DiskStep`). `FirstHandle` then says
that every decision of a first handle is on every medium or waits for the Sync of the running group; a read or a
duplicate reply shows only decisions that do not wait. A second handle may serve replayed frames that were never
synced, which is why the theorem stops at the first.

`NobodyLeftBehind` and `WakeupsNotLost` are one invariant, `Coordination`: a request whose caller waits is in the queue or in the
group, a coordinator that is gone left both empty behind a closed flag that `submitEnqueue` tests under the same
lock, and a coordinator that sleeps over a non-empty queue has a wake token or a caller about to send one.

`FaithfulAnswers` follows a group through `processCommitGroup`. `GroupAnswers` says that the results given so far are right
(`Right`), that fresh decisions have rising sequences in queue order, and that a staged decision knows the request
that made it; `AnswerGiven` proves it for any step that gives the running request a result, and one lemma for each kind
of result (no decision, attached to a staged one, duplicate, new decision) shows that the step is such a step. What the
group needs of the store is collected in `StoreFacts` and follows from the store's own invariants through
`DatabaseImplementsStorage`.

The catalog theorems start from `Apart`: marker, topology file and store each have a program counter, and only certain
combinations occur. `CatalogStaysCurrent` adds what a structural call has in hand between its rename and its return (`Current`).
What `encoding/json` does to a catalog needs three facts, in the section *Names*: decoding twice is decoding once (`DecodedOnce`), what is decoded is a catalog with
one entry for each name, and an entry under plain names is there as it was (`PlainStays`): no other name is spelt like it, so nothing replaces it.
`PromisesHold` adds `Kept`: what was promised under plain names is in the file and, as long as `reliance` says so, in everything power loss can leave; the
directory Sync of any component makes the renames of all of them durable, so every such step is considered.

The catalog does not implement `StorageSpec` step by step. Three of its steps are none of the store's: a directory Sync on behalf of the
marker or the topology file (`SharedSync`), the close of a store whose catalog was refused (`Abandoned`), and poisoning by a structural
call that failed (`Poisoned`). `CatalogStoreStep` shows that every step is a store step or one of these, and the store's invariants are proved again for them; `CatalogDurability` and `CatalogKeepsPromise` follow.

`OwnerStays` needs `Owned`: the marker names the model that works in the directory, power loss can take it away and put
no other in its place, and a directory with acknowledged decisions has files, so that an open without a marker is refused.

`RecordsStay` cannot look at memory alone: power loss may leave a catalog without the dataset of a record and bring the record back
later. `Recoverable` is the set of the states that some later open may find, and the invariant is about all of them. It cannot say that catalogs only
grow either, since an altered name can take the place of another. It follows the IDs instead: `Held` are the catalogs that a handle has or may yet find, `Chained` says that
they give one ID to one name only (as the file spells it) and that IDs are handed out upwards, `Agreed` that a recoverable record under an ID of one of them
was written to the dataset of that name, `Validated` that the next ID is above those of all recoverable records as long as a handle works, so that a
new dataset never gets the ID of an old record. Where power loss breaks the last, only one state is left to recover, and
`validateCatalogState` looks at that one before a handle is given out. `Roomy` adds the bounds of the datasets. No hypothesis on names is needed.

`FilesStayTogether` combines `MarkerFit` with `FilesFit` and `HandleFit`: every catalog that can be read has, under the name the record was written to, a dataset for each
record of every snapshot and frame that can be read, if that name is plain. It survives a commit because `Mutate` writes under the datasets of the handle's catalog only, which is the one on
every medium; it survives a structural call because the next catalog only adds to the handle's, and writing it out loses no plain name. When a command makes a dataset the owner of an ID,
the records under that ID already had that owner (`RecordsStay`), which is where the hypotheses come from; `PlainText` is also what makes the ID that `OpenCatalog` decodes from a key the one that
was written.

`CursorStaysExact` compares slices that are changed entry by entry with slices sorted at once. A sorted slice is determined by its set of keys (`OrderedIs`: any rising sequence of exactly these keys is
`Ordered` of them), the position that `sort.SearchStrings` finds is the one where the slice stays rising (`Position`, `Inserted`, `Removed`), and
the mutations of a command are a fold over a finite set, by induction on the size of the set (`MutationsOrdered`; like the sums below it goes by well-foundedness on a set of counterexamples).
The keys of the database are finite by `CatalogAssumption`. In the catalog the invariant is `Cursor`, and `Scanning` says that a scan has shown the records up to its position and that
no decision was made since it began: nothing else runs while it has the admission token. `ScansSeeOneState` then needs that memory is the state of the timeline at its sequence (`ExactRecovery`'s invariants).

The transfer theorems hold for any finite sets of participants and transfers and any amounts, `Duplicated` and `Forgotten`. Agreement of the two ends is
not inductive: a Commit on its way says that the sender has paid, an Acknowledge that the
receiver has committed, a Reconcile that the sender has expired, a Reject from the receiver that
the receiver has. `Says` is what a message vouches for, `QueueHonest` that every queued copy is right and `RepliesHonest`
that every recorded outcome would be right if it were sent again. All four facts are final
(`Kept`), so nothing queued or recorded becomes false later (`SaysStable`); each handler then needs
only that the message it got was right. The drain before a round is not needed for safety, and the invariant does not
mention it; `EveryTransferResolves` does need it, as its recorded mutant shows.

`MoneyIsConserved` is about sums over participants and transfers. The section *Sums* proves what a sum over a finite set does when the set
or one value changes; the induction this takes is over the numbers and uses their well-foundedness for a set of counterexamples, which needs
no theorem with an operator as its parameter. The invariant `Money` adds to the balance sheet that `Reserved` of a participant is the sum of the amounts it has reserved,
without which a Commit or an expiry could take more than is there. `LedgerImplemented` maps a participant's funds to what it holds plus what it has paid and the receiver
has not yet been credited: the receiver's commit is the one step at which a transfer moves, a rejection or an expiry releases it, and every other step stutters.

**Only model-checked.** The liveness properties (fairness and ENABLED are beyond the prover). Everything about `AccountCore`: what a batch does is
computed by folds over sequences (`evaluate`, replay and the reference definitions they are compared with), and each result would first need its own induction over
the commands of a batch.

## 6. Not modelled

* Inside the modelled parts: argument checks and the single calls of `KeyedTx` and `Tx` inside a callback, listings of
  the catalog, checksum failures and other damage to synced bytes, `MemoryOnly` accounts, options that change between
  opens (other than `DedupeHorizon`), two processes on one directory, the commit coordinator of a handle
  whose catalog was refused (`OpenCatalog` marks it closed and wakes nobody, so it never exits).
* BSO-SIM M1 and M2 and the trust experiments: variants of the M0 protocol with transaction agents that move between worker
  queues, credentials, federation and policy. They are research on top of the catalog API.
* Research engines, scheduled engines and model generator output under `internal/`: not imported by the
  product. Most of these lines are generated (over 40,000 of the repository's 67,000 lines of Go outside tests), tables
  and unrolled code without a protocol of their own, which is why the mapped share of the repository is small
  although most of the product packages is mapped.
* Benchmarks, metrics, workloads, commands, examples, evidence tools, `errors.go`, `doc.go`: no state that outlives a call.

What could come next: proofs about `AccountCore`, starting with `AckedRecoverable`; the agents of BSO-SIM-M1.
