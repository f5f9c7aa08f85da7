------------------------------ MODULE Catalog -------------------------------
(***************************************************************************)
(* Database, the catalog product (catalog.go, catalog_storage.go,          *)
(* query.go): buckets and datasets kept in a catalog file beside the keyed *)
(* store, cross-dataset commands on that store, and ordered dataset scans. *)
(*                                                                         *)
(* The module composes KeyedStorage, whose record keys here are pairs of a *)
(* dataset ID and a key in that dataset (backendRecordKey), with           *)
(* FormatMarker and with the catalog file.  Store and catalog work under   *)
(* one admission token: while catPhase is not "ready" no store step of a   *)
(* caller runs, and a structural call runs only between commit groups.     *)
(* One directory holds all files, so a directory Sync by one component     *)
(* makes the renames of the others durable too.                            *)
(***************************************************************************)
EXTENDS KeyedStorage, FormatMarker, QueryKeys

CONSTANTS
    Requests,     \* what callers ask Dataset for: [name |-> <<bucket, dataset>>, options |-> ...]
    jsonName,     \* what a name or a type identity is after a trip through encoding/json
    ValidNames,   \* the names that validCatalogName accepts
    MaxDatasets   \* bound: dataset IDs handed out

\* Names and type identities are strings; a number stands for the place in byte order.
Names == DOMAIN jsonName

\* No product model writes an empty FORMAT, and some callback writes; normalizeDatasetOptions
\* makes the bounds positive; backendRecordKey pairs an ID with a key of bounded length;
\* encoding/json leaves valid UTF-8 alone and puts U+FFFD for every other byte.
ASSUME CatalogAssumption ==
    /\ "catalog" \in Models /\ "none" \notin Models
    /\ Writes # {}
    /\ Names \subseteq Nat /\ jsonName \in [Names -> Names]
    /\ \A n \in Names : jsonName[jsonName[n]] = jsonName[n]
    /\ \A r \in Requests :
         /\ r.name \in Names \X Names
         /\ r.options \in [type : Names, maxRecords : Nat \ {0}, maxValueBytes : Nat \ {0}]
    /\ IsFiniteSet(Keys) /\ Keys \subseteq [id : Nat \ {0}, key : Nat]
    /\ MaxDatasets \in Nat

VARIABLES
    catalog,      \* Database.catalog
    queryKeys,    \* Database.queryKeys
    catPhase,     \* what the holder of the admission token does with the catalog
    op, next,     \* the call that persists the catalog, and the state it persists
    scan,         \* the running Dataset.scan
    catFile, catMedia,
    promised,     \* history: the identity, buckets and datasets that calls have returned
    owner,        \* history: the name under which a dataset ID was last written to
    reliance      \* history: "exposed" while a handle relies on a rename not yet durable,
                  \* "lost" once power failed in that time

handleVars == <<catalog, queryKeys, catPhase, op, next, scan>>
catalogFile == <<catFile, catMedia>>
catalogHistory == <<promised, owner, reliance>>
catalogVars == <<handleVars, catalogFile, catalogHistory, markerVars>>
vars == <<storageVars, catalogVars>>

-----------------------------------------------------------------------------
(* Data *)

DatasetIDs == {k.id : k \in Keys}
Buckets == {r.name[1] : r \in Requests}
nameOf(d) == <<d.bucket, d.name>>

\* catalogState: DatabaseID, NextDatasetID, the buckets and their DatasetInfo entries.
NoCatalog == [id |-> 0, nextID |-> 0, buckets |-> {}, datasets |-> {}]

\* A fresh random identity is the number of the open that made it.
NewCatalog == [id |-> opens, nextID |-> 1, buckets |-> {}, datasets |-> {}]

\* What json.Marshal and json.Unmarshal make of a name and of a DatasetInfo.
speltName(n) == <<jsonName[n[1]], jsonName[n[2]]>>
spelt(d) == [bucket |-> jsonName[d.bucket], name |-> jsonName[d.name], id |-> d.id,
             options |-> [d.options EXCEPT !.type = jsonName[@]]]

\* Maps are marshalled in the byte order of their keys, and of the entries that are then
\* spelt alike json.Unmarshal keeps the last.
unmarshalled(cat) ==
    {d \in cat.datasets :
        /\ \A b \in cat.buckets : jsonName[b] = jsonName[d.bucket] => b <= d.bucket
        /\ \A e \in cat.datasets :
             e.bucket = d.bucket /\ jsonName[e.name] = jsonName[d.name] => e.name <= d.name}
decoded(cat) ==
    [cat EXCEPT !.buckets = {jsonName[b] : b \in @}, !.datasets = {spelt(d) : d \in unmarshalled(cat)}]

InDataset(records, id) == {k \in Live(records) : k.id = id}

WithinBounds(cat, records) ==
    \A d \in cat.datasets : Cardinality(InDataset(records, d.id)) <= d.options.maxRecords

\* The checks on a catalog read back, against the recovered records.
validateCatalogState(cat, records) ==
    LET dataset(k) == {d \in cat.datasets : d.id = k.id} IN
    IF \/ cat.id = 0 \/ cat.nextID = 0
       \/ \E d \in cat.datasets : d.id \notin 1..(cat.nextID - 1) \/ d.bucket \notin cat.buckets
       \/ \E b \in cat.buckets : b \notin ValidNames
       \/ \E d \in cat.datasets : d.name \notin ValidNames
       \/ \E d, e \in cat.datasets : d # e /\ (d.id = e.id \/ nameOf(d) = nameOf(e))
       \/ \E k \in Live(records) : dataset(k) = {}
    THEN "corrupt"
    ELSE IF \/ ~WithinBounds(cat, records)
            \/ \E k \in Live(records) : \E d \in dataset(k) : Bytes[records[k]] > d.options.maxValueBytes
    THEN "capacity"
    ELSE "ready"

-----------------------------------------------------------------------------
(* The scan cursor *)

\* The keys of every dataset, collected from the record map and sorted.
initializeQueryKeys(records) == [id \in DatasetIDs |-> Ordered(InDataset(records, id))]

applyQueryKeyMutations(qk, w) ==
    [id \in DatasetIDs |->
        ApplyKeyMutations(qk[id], {k \in DOMAIN w : k.id = id}, {k \in DOMAIN w : w[k] = Absent})]

-----------------------------------------------------------------------------
(* Opening: ensureKeyedFormat, openKeyed, loadOrCreateCatalog *)

NoScan == [id |-> 0, at |-> 0, shown |-> <<>>]
NoKeys == [id \in DatasetIDs |-> <<>>]

Init ==
    /\ StorageInit /\ MarkerInit
    /\ catalog = NoCatalog /\ queryKeys = NoKeys
    /\ catPhase = "closed" /\ op = "none" /\ next = NoCatalog /\ scan = NoScan
    /\ catFile = NoCatalog /\ catMedia = {NoCatalog}
    /\ promised = NoCatalog /\ owner = [id \in DatasetIDs |-> <<>>] /\ reliance = "durable"

\* No handle: outcome is "closed" or the kind of error OpenCatalog returned.
DropHandle(outcome) ==
    /\ catalog' = NoCatalog /\ queryKeys' = NoKeys
    /\ catPhase' = outcome /\ op' = "none" /\ next' = NoCatalog /\ scan' = NoScan

\* What a later open reads may be a rename whose directory Sync failed or was cut off; a
\* directory Sync makes it durable after all.
ReliesOn(unsynced) == reliance' = IF reliance = "durable" /\ unsynced THEN "exposed" ELSE reliance
DirectoryDurable ==
    IF DirectorySync
    THEN /\ snapMedia' = {snap} /\ catMedia' = {catFile}
         /\ reliance' = IF reliance = "exposed" THEN "durable" ELSE reliance
    ELSE UNCHANGED <<snapMedia, catMedia, reliance>>

\* An open of some product model starts with the marker.
startOpen(m) ==
    /\ phase \in Closed /\ markerPhase \in {"idle", "refused"}
    /\ inspectMarker(m) /\ DropHandle("closed")
    /\ ReliesOn(markerPhase' = "matched" /\ markerMedia # {<<marker, markerTmp>>})
    /\ UNCHANGED <<storageVars, catalogFile, promised, owner>>

markerStep ==
    /\ renameMarker \/ markerFails
    /\ UNCHANGED <<storageVars, handleVars, catalogFile, catalogHistory>>

\* The directory Sync of a new marker reaches every rename in the directory.
markerSyncDirectory ==
    /\ syncMarker(DirectorySync) /\ DirectoryDurable
    /\ UNCHANGED <<mem, horizon, phase, poisoned, closing, pos, pending, repeats, wal, walMedia, snap,
                   opens, history, handleVars, catFile, promised, owner>>

\* Another product's open got the directory: it creates its own files there.
openOther ==
    /\ markerPhase = "matched" /\ opener # "catalog"
    /\ markerPhase' = "idle" /\ populated' = TRUE
    /\ UNCHANGED <<storageVars, handleVars, catalogFile, catalogHistory,
                   marker, markerTmp, markerMedia, opener>>

openStore(h) ==
    /\ markerPhase = "matched" /\ opener = "catalog" /\ openKeyed(h)
    /\ markerPhase' = "idle" /\ catPhase' = "opening"
    /\ UNCHANGED <<catalog, queryKeys, op, next, scan, catalogFile, catalogHistory,
                   markerFile, opener>>

\* openStorage creates the WAL file once the snapshot is loaded.
createWAL ==
    /\ loadKeyedSnapshot /\ populated' = (populated \/ phase' = "replay")
    /\ UNCHANGED <<handleVars, catalogFile, catalogHistory, marker, markerTmp, markerMedia,
                   opener, markerPhase>>

recoverStore ==
    /\ replayKeyedWAL \/ replayDone \/ truncateKeyedTail \/ truncateKeyedTailSync \/ openStorageFails
    /\ UNCHANGED catalogVars

\* OpenCatalog closes the store when the catalog cannot be used.
CatalogRefused(outcome) ==
    /\ phase' = "down" /\ Discard /\ DropHandle(outcome)
    /\ UNCHANGED <<horizon, files, opens, history>>

\* A call returned with this catalog: the first identity and every name are a promise.
Returned(cat) ==
    promised' = [promised EXCEPT !.id = IF @ = 0 THEN cat.id ELSE @,
                                 !.buckets = @ \cup cat.buckets, !.datasets = @ \cup cat.datasets]

\* The handle is returned with its cursor rebuilt from the records.
HandleReady(cat) ==
    /\ catalog' = cat /\ queryKeys' = initializeQueryKeys(mem.records)
    /\ catPhase' = "ready" /\ op' = "none" /\ next' = NoCatalog
    /\ Returned(cat)

\* loadOrCreateCatalog: an absent file is created only over an empty store.
loadCatalog ==
    /\ catPhase = "opening" /\ phase = "open"
    /\ IF catFile = NoCatalog
       THEN IF mem.sequence # 0 \/ Live(mem.records) # {}
            THEN CatalogRefused("incompatible") /\ UNCHANGED promised
            ELSE /\ catPhase' = "rename" /\ op' = "create" /\ next' = NewCatalog
                 /\ UNCHANGED <<storageVars, catalog, queryKeys, promised>>
       ELSE LET outcome == validateCatalogState(catFile, mem.records) IN
            IF outcome = "ready" THEN HandleReady(catFile) /\ UNCHANGED storageVars
            ELSE CatalogRefused(outcome) /\ UNCHANGED promised
    /\ ReliesOn(catPhase' = "ready" /\ catMedia # {catFile})
    /\ UNCHANGED <<scan, catalogFile, owner, markerVars>>

\* The catalog file, or the random identity, cannot be read: OpenCatalog returns ErrorStorage.
loadCatalogFails ==
    /\ catPhase = "opening" /\ phase = "open" /\ CatalogRefused("closed")
    /\ UNCHANGED <<catalogFile, catalogHistory, markerVars>>

-----------------------------------------------------------------------------
(* Structural calls of a handle: Bucket, Dataset, persistCatalog *)

\* enterKeyed: the token is free and the handle is neither closed nor poisoned.
Admitted == catPhase = "ready" /\ phase = "open" /\ ~poisoned

\* A bucket that is not there yet is persisted; an existing one is returned and changes nothing.
Bucket(b) ==
    /\ Admitted /\ b \in ValidNames /\ b \notin catalog.buckets
    /\ catPhase' = "rename" /\ op' = "bucket"
    /\ next' = [catalog EXCEPT !.buckets = @ \cup {b}]
    /\ UNCHANGED <<storageVars, catalog, queryKeys, scan, catalogFile, catalogHistory, markerVars>>

existing(n) == {d \in catalog.datasets : nameOf(d) = n}

\* Altered createDataset: NextDatasetID is not advanced.
CreateSameID(n, options) ==
    /\ Admitted /\ n[1] \in catalog.buckets /\ n[2] \in ValidNames
    /\ existing(n) = {} /\ catalog.nextID <= MaxDatasets
    /\ catPhase' = "rename" /\ op' = "dataset"
    /\ next' = [catalog EXCEPT !.datasets = @ \cup
                  {[bucket |-> n[1], name |-> n[2], id |-> catalog.nextID, options |-> options]}]
    /\ UNCHANGED <<storageVars, catalog, queryKeys, scan, catalogFile, catalogHistory, markerVars>>

\* Dataset of a name without entry: the next ID is taken and the catalog persisted.  An
\* entry that is there is returned, or refused when its options differ; neither changes it.
createDataset(n, options) ==
    /\ Admitted /\ n[1] \in catalog.buckets /\ n[2] \in ValidNames
    /\ existing(n) = {} /\ catalog.nextID <= MaxDatasets
    /\ catPhase' = "rename" /\ op' = "dataset"
    /\ next' = [catalog EXCEPT !.nextID = @ + 1, !.datasets = @ \cup
                  {[bucket |-> n[1], name |-> n[2], id |-> catalog.nextID, options |-> options]}]
    /\ UNCHANGED <<storageVars, catalog, queryKeys, scan, catalogFile, catalogHistory, markerVars>>

\* catalog.tmp has been written, synced and closed; catFile is what a later open reads in it.
persistRename ==
    /\ catPhase = "rename" /\ catPhase' = "sync"
    /\ catFile' = decoded(next) /\ catMedia' = catMedia \cup {catFile'}
    /\ UNCHANGED <<storageVars, catalog, queryKeys, op, next, scan, catalogHistory, markerVars>>

\* The running call returns: the new catalog is installed in memory.
StructuralReturn ==
    IF op = "create" THEN HandleReady(next)
    ELSE /\ catalog' = next /\ catPhase' = "ready" /\ op' = "none" /\ next' = NoCatalog
         /\ Returned(next) /\ UNCHANGED queryKeys

\* Altered persistSyncDirectory: the call returns without a directory Sync.
PersistNoSync ==
    /\ catPhase = "sync" /\ StructuralReturn
    /\ UNCHANGED <<storageVars, scan, catalogFile, owner, reliance, markerVars>>

\* syncDirectory, which the snapshot and the marker in the same directory share.
persistSyncDirectory ==
    /\ catPhase = "sync" /\ StructuralReturn /\ SyncedMarker(DirectorySync) /\ DirectoryDurable
    /\ UNCHANGED <<mem, horizon, phase, poisoned, closing, pos, pending, repeats, wal, walMedia, snap,
                   opens, history, scan, catFile, owner,
                   marker, markerTmp, populated, opener, markerPhase>>

\* Altered persistFails: the handle goes on with the catalog it had.
PersistFailsUnpoisoned ==
    /\ catPhase \in {"rename", "sync"}
    /\ IF op = "create" THEN CatalogRefused("closed")
       ELSE /\ catPhase' = "ready" /\ op' = "none" /\ next' = NoCatalog
            /\ UNCHANGED <<storageVars, catalog, queryKeys, scan>>
    /\ UNCHANGED <<catalogFile, catalogHistory, markerVars>>

\* A step fails, the rename possibly done: a structural call poisons the handle and
\* keeps the old catalog, OpenCatalog returns the error.
persistFails ==
    /\ catPhase \in {"rename", "sync"}
    /\ IF op = "create" THEN CatalogRefused("closed")
       ELSE /\ poisoned' = TRUE /\ catPhase' = "ready" /\ op' = "none" /\ next' = NoCatalog
            /\ UNCHANGED <<mem, horizon, phase, closing, pos, pending, repeats, files, opens, history,
                           catalog, queryKeys, scan>>
    /\ UNCHANGED <<catalogFile, catalogHistory, markerVars>>

-----------------------------------------------------------------------------
(* Commands and reads *)

\* Altered beginCommands: a commit group does not wait for a running scan.
GroupDuringScan == catPhase \in {"ready", "scan"} /\ beginGroup /\ UNCHANGED catalogVars

beginCommands == catPhase = "ready" /\ beginGroup /\ UNCHANGED catalogVars

\* Tx.Put and Tx.Delete accept the writes, and validateDatasetBounds the result.
PermittedWrites(w) ==
    /\ \A k \in DOMAIN w : \E d \in catalog.datasets :
         d.id = k.id /\ (w[k] # Absent => Bytes[w[k]] <= d.options.maxValueBytes)
    /\ WithinBounds(catalog, Overwrite(mem.records, w))

\* A callback that succeeds, or rejects; afterApply follows applyKeyed.
Mutate(c, applied, w) ==
    /\ applied => PermittedWrites(w)
    /\ stage(c, applied, w)
    /\ queryKeys' = IF applied THEN applyQueryKeyMutations(queryKeys, w) ELSE queryKeys
    /\ owner' = [id \in DatasetIDs |->
                   IF applied /\ \E k \in DOMAIN w : k.id = id
                   THEN nameOf(CHOOSE d \in catalog.datasets : d.id = id) ELSE owner[id]]
    /\ UNCHANGED <<catalog, catPhase, op, next, scan, catalogFile, promised, reliance,
                   markerVars>>

MutateFails(c, applied, w) ==
    /\ applied => PermittedWrites(w)
    /\ stageFails(c, applied, w) /\ UNCHANGED catalogVars

commitStep ==
    /\ (\E c \in CommandIDs : retry(c)) \/ syncKeyed \/ syncKeyedFails \/ skipSync \/ reply
    /\ UNCHANGED catalogVars

\* queryKeys is a map: a dataset without an entry has no keys.
keysOf(id) == IF id \in DatasetIDs THEN queryKeys[id] ELSE <<>>

\* Dataset.scan takes the token and keeps it; Get is a scan of one record.
beginScan(d) ==
    /\ Admitted
    /\ catPhase' = "scan" /\ scan' = [id |-> d.id, at |-> mem.sequence, shown |-> <<>>]
    /\ UNCHANGED <<storageVars, catalog, queryKeys, op, next, catalogFile, catalogHistory, markerVars>>

\* The next record is shown to visit, which lets the scan continue.
visit ==
    LET keys == keysOf(scan.id)
        i == Len(scan.shown) + 1
    IN /\ catPhase = "scan" /\ i <= Len(keys)
       /\ scan' = [scan EXCEPT !.shown =
                     Append(@, <<keys[i], mem.records[[id |-> scan.id, key |-> keys[i]]]>>)]
       /\ UNCHANGED <<storageVars, catalog, queryKeys, catPhase, op, next, catalogFile,
                      catalogHistory, markerVars>>

\* The cursor is exhausted, visit stopped or failed, or the context was cancelled.
endScan ==
    /\ catPhase = "scan" /\ catPhase' = "ready" /\ scan' = NoScan
    /\ UNCHANGED <<storageVars, catalog, queryKeys, op, next, catalogFile, catalogHistory, markerVars>>

snapshotStep ==
    /\ catPhase = "ready"
    /\ SnapshotKeyed \/ Close \/ snapshotRename \/ snapshotTruncate \/ snapshotSync \/ snapshotFails
    /\ IF phase' \in Closed THEN DropHandle("closed") ELSE UNCHANGED handleVars
    /\ UNCHANGED <<catalogFile, catalogHistory, markerVars>>

snapshotDirectory ==
    /\ snapshotSyncDirectory /\ SyncedMarker(DirectorySync) /\ DirectoryDurable
    /\ UNCHANGED <<handleVars, catFile, promised, owner, marker, markerTmp, populated, opener, markerPhase>>

-----------------------------------------------------------------------------
(* Ends of the process, and the specification *)

crash ==
    /\ IF phase \in Closed
       THEN "process" \in Restarts /\ markerPhase \notin {"idle", "refused"} /\ UNCHANGED storageVars
       ELSE processCrash
    /\ markerCrash /\ DropHandle("closed") /\ UNCHANGED <<catalogFile, catalogHistory>>

\* The files of the store are in the directory when any of them is left.
losePower ==
    /\ powerLoss /\ DropHandle("closed")
    /\ catFile' \in catMedia /\ catMedia' = {catFile'}
    /\ \E kept \in BOOLEAN :
         /\ kept => populated
         /\ populated /\ ~kept => wal' = EmptyFile /\ snap' = EmptyState /\ catFile' = NoCatalog
         /\ markerPowerLoss(kept)
    /\ reliance' = IF reliance = "exposed" THEN "lost" ELSE reliance
    /\ UNCHANGED <<promised, owner>>

Next ==
    \/ \E m \in Models : startOpen(m)
    \/ markerStep \/ markerSyncDirectory \/ openOther
    \/ \E h \in DedupeHorizons : openStore(h)
    \/ createWAL \/ recoverStore \/ loadCatalog \/ loadCatalogFails
    \/ \E b \in Buckets : Bucket(b)
    \/ \E r \in Requests : createDataset(r.name, r.options)
    \/ persistRename \/ persistSyncDirectory \/ persistFails
    \/ beginCommands
    \/ \E c \in CommandIDs, w \in Writes : Mutate(c, TRUE, w) \/ MutateFails(c, TRUE, w)
    \/ \E c \in CommandIDs : Mutate(c, FALSE, NoWrites) \/ MutateFails(c, FALSE, NoWrites)
    \/ commitStep
    \/ \E d \in catalog.datasets : beginScan(d)
    \/ visit \/ endScan
    \/ snapshotStep \/ snapshotDirectory
    \/ crash \/ losePower

Spec == Init /\ [][Next]_vars

-----------------------------------------------------------------------------
(* Properties *)

\* A handle has been returned to callers.
HasHandle == catPhase \in {"ready", "scan"}

\* The cursor Dataset.scan follows is the sorted list of the dataset's live record keys
\* after every command, failed append, failed Sync and reopen.
CursorExact ==
    HasHandle => \A id \in DatasetIDs : queryKeys[id] = Ordered(InDataset(mem.records, id))

\* A scan shows, record by record and in key order, the dataset as it was after the last
\* decision before the scan began: nothing interleaves with it.
ScanSeesOneState ==
    catPhase = "scan" =>
        LET records == StateAt(scan.at).records
            keys == Ordered(InDataset(records, scan.id))
        IN /\ Len(scan.shown) <= Len(keys)
           /\ \A i \in DOMAIN scan.shown :
                scan.shown[i] = <<keys[i], records[[id |-> scan.id, key |-> keys[i]]]>>

\* The catalog a healthy handle works with is the one its file was written from, also after
\* a structural call that failed half way.
CatalogCurrent == HasHandle /\ ~poisoned => catFile = decoded(catalog)

\* Every record a handle serves lies in the dataset it was written to (by name, as the
\* catalog file spells it), and no dataset exceeds its bound: IDs are never given to a
\* second name while records carry them, not even after power loss took the first name away.
RecordsStayInTheirDataset ==
    HasHandle =>
        /\ WithinBounds(catalog, mem.records)
        /\ \A k \in Live(mem.records) :
             {speltName(nameOf(d)) : d \in {e \in catalog.datasets : e.id = k.id}} = {speltName(owner[k.id])}

\* The names that encoding/json leaves alone, and that it makes of no other name.
Plain == {n \in Names : \A m \in Names : jsonName[m] = n <=> m = n}
PlainEntry(d) == d.bucket \in Plain /\ d.name \in Plain /\ jsonName[d.options.type] = d.options.type

\* The database identity, and the bucket and the dataset that a call returned under plain
\* names, are as they were in every later handle, whatever other names are stored beside
\* them, unless power loss undid a rename whose directory Sync had failed or was cut off.
PromisesKept ==
    HasHandle /\ reliance # "lost" =>
        /\ catalog.id = promised.id
        /\ promised.buckets \cap Plain \subseteq catalog.buckets
        /\ {d \in promised.datasets : PlainEntry(d)} \subseteq catalog.datasets

\* The keys in whatever power loss leaves of the two files of the store.
SnapshotKeys == UNION {Live(s.records) : s \in snapMedia}
FrameKeys == UNION {UNION {DOMAIN w.frames[i].writes : i \in DOMAIN w.frames} : w \in walMedia}

\* The dataset was last written to under a plain name.
PlainOwner(id) == owner[id] \in Plain \X Plain

\* Whatever power loss leaves of the marker, the catalog, the snapshot and the WAL fits
\* together: OpenCatalog will find the marker, and a dataset for the ID that it decodes from
\* the key of every record in the files, as long as no handle relies on a rename that is not
\* durable and the dataset was written to under a plain name.
FilesFitTogether ==
    LET ids == {jsonText[k].id : k \in SnapshotKeys \cup FrameKeys} IN
    reliance = "durable" =>
        /\ populated => \A m \in markerMedia : m[1] # "none"
        /\ \A c \in catMedia : \A id \in ids : PlainOwner(id) => \E d \in c.datasets : d.id = id
        /\ NoCatalog \in catMedia => (\A s \in snapMedia : s.sequence = 0) /\ \A w \in walMedia : w.frames = <<>>

\* A directory with acknowledged catalog data is never opened as another product model.
NeverReinterpreted ==
    acked # {} => ~(markerPhase = "matched" /\ opener # "catalog")

\* OpenCatalog accepts what Dataset and Mutate left in a directory that was closed
\* normally: its datasets and their records survive, whatever their IDs.
ReopenSurvives == catPhase \notin {"incompatible", "corrupt", "capacity"}
=============================================================================
