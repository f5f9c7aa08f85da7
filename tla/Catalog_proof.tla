---------------------------- MODULE Catalog_proof ----------------------------
(***************************************************************************)
(* The catalog product: what a handle has in memory is in its file, what   *)
(* calls have returned stays, and the catalog file, the FORMAT marker and  *)
(* the two files of the store stay together through every failure.         *)
(***************************************************************************)
EXTENDS Catalog, TLAPS

\* A leaf is tried with Zenon and then with the SMT solver, unless it names a prover.
USE ZenonT(2), SMTT(20), ZenonT(30)

-----------------------------------------------------------------------------
(* Who holds the token *)

\* Where catalog, marker and store can be at the same time: the catalog is read and written
\* only while the store is open and idle, the marker only while there is no handle.
Outcomes == {"closed", "incompatible", "corrupt", "capacity"}
Apart ==
    /\ catPhase \in {"scan", "rename", "sync"} => phase = "open" /\ ~poisoned
    /\ catPhase = "ready" => phase \in Serving
    /\ catPhase = "opening" => phase \in Closed \cup Recovering \cup {"open"} /\ ~poisoned
    /\ catPhase \notin {"scan", "rename", "sync", "ready", "opening"} => phase \in Closed
    /\ markerPhase \notin {"idle", "refused"} => catPhase = "closed"

\* No handle, and the store closed.
LEMMA ApartDropped ==
    ASSUME NEW outcome, DropHandle(outcome), outcome \in Outcomes, phase' \in Closed,
           outcome = "closed" \/ markerPhase' \in {"idle", "refused"}
    PROVE  Apart'
BY DEF Apart, DropHandle, Outcomes

\* The catalog's steps that leave store and marker alone.
HandleStep ==
    \/ \E b \in Buckets : Bucket(b)
    \/ \E r \in Requests : createDataset(r.name, r.options)
    \/ persistRename
    \/ \E d \in catalog.datasets : beginScan(d)
    \/ visit \/ endScan

\* They are taken by a healthy handle, or by the holder of its token.
LEMMA HandleStepEffect ==
    ASSUME HandleStep
    PROVE  /\ UNCHANGED <<storageVars, markerVars, catalog, catalogHistory>>
           /\ \/ catPhase = "ready" /\ phase = "open" /\ ~poisoned /\ catPhase' \in {"rename", "scan"}
              \/ catPhase = "rename" /\ catPhase' = "sync"
              \/ catPhase = "scan" /\ catPhase' \in {"scan", "ready"}
BY DEF HandleStep, Bucket, createDataset, persistRename, beginScan, visit, endScan, Admitted

\* Steps of a commit group.
GroupStep ==
    \/ beginCommands \/ commitStep
    \/ \E c \in CommandIDs, w \in Writes : Mutate(c, TRUE, w) \/ MutateFails(c, TRUE, w)
    \/ \E c \in CommandIDs : Mutate(c, FALSE, NoWrites) \/ MutateFails(c, FALSE, NoWrites)

\* They leave the catalog and the marker, and no poisoned handle recovers.
LEMMA GroupStepEffect ==
    ASSUME Apart, GroupStep
    PROVE  /\ catPhase = "ready" /\ phase \in {"open", "group", "reply"} /\ phase' \in {"open", "group", "reply"}
           /\ UNCHANGED <<catalog, catPhase, op, next, scan, catalogFile, promised, reliance, markerVars, opens>>
           /\ poisoned => poisoned'
<1> USE DEF Apart, Closed, Recovering, catalogVars, handleVars, catalogHistory
<1>1. CASE beginCommands
  BY <1>1 DEF beginCommands, beginGroup
<1>2. CASE commitStep
  BY <1>2 DEF commitStep, retry, syncKeyed, syncKeyedFails, skipSync, reply
<1>3. ASSUME NEW c, NEW applied, NEW w, Mutate(c, applied, w) \/ MutateFails(c, applied, w)
      PROVE  /\ catPhase = "ready" /\ phase \in {"open", "group", "reply"} /\ phase' \in {"open", "group", "reply"}
             /\ UNCHANGED <<catalog, catPhase, op, next, scan, catalogFile, promised, reliance, markerVars, opens>>
             /\ poisoned => poisoned'
  BY <1>3 DEF Mutate, MutateFails, stage, stageFails, Executes
<1> QED
  BY <1>1, <1>2, <1>3 DEF GroupStep

\* Every component waits for the others.
LEMMA ApartStep == Apart /\ [Next]_vars => Apart'
<1> SUFFICES ASSUME Apart, [Next]_vars PROVE Apart'
  OBVIOUS
<1>1. CASE UNCHANGED vars
  BY <1>1 DEF vars, storageVars, catalogVars, handleVars, markerVars, Apart
<1>2. CASE HandleStep
  BY <1>2, HandleStepEffect DEF storageVars, markerVars, Apart, Serving
<1>3. CASE GroupStep
  BY <1>3, GroupStepEffect DEF markerVars, Apart, Serving
<1>4. ASSUME NEW m \in Models, startOpen(m) PROVE Apart'
  <2>1. phase' \in Closed /\ DropHandle("closed")
    BY <1>4 DEF startOpen, storageVars
  <2> QED
    BY <2>1, ApartDropped DEF Outcomes
<1>5. CASE markerStep \/ markerSyncDirectory \/ openOther
  BY <1>5 DEF markerStep, markerSyncDirectory, openOther, renameMarker, markerFails, syncMarker, storageVars, handleVars, Apart
<1>6. ASSUME NEW h \in DedupeHorizons, openStore(h) PROVE Apart'
  BY <1>6 DEF openStore, openKeyed, Discard, Apart, Recovering
<1>7. CASE createWAL \/ recoverStore
  <2>1. phase \in Recovering /\ phase' \in Closed \cup Recovering \cup {"open"} /\ (poisoned' => poisoned)
    BY <1>7 DEF createWAL, recoverStore, loadKeyedSnapshot, replayKeyedWAL, ReplayVerdict, replayDone, truncateKeyedTail,
                truncateKeyedTailSync, openStorageFails, Opened, Discard, Recovering, Closed
  <2>2. UNCHANGED <<catPhase, markerPhase>>
    BY <1>7 DEF createWAL, recoverStore, catalogVars, handleVars, markerVars
  <2> QED
    BY <2>1, <2>2 DEF Apart, Recovering, Closed, Serving, Snapshotting
<1>8. ASSUME NEW outcome \in Outcomes, CatalogRefused(outcome), catPhase # "closed", UNCHANGED markerVars PROVE Apart'
  BY <1>8, ApartDropped DEF CatalogRefused, Apart, markerVars, Closed
<1>9. CASE loadCatalog
  <2>1. ASSUME NEW outcome, CatalogRefused(outcome), outcome \in Outcomes PROVE Apart'
    BY <1>8, <1>9, <2>1 DEF loadCatalog
  <2>2. validateCatalogState(catFile, mem.records) \in {"corrupt", "capacity", "ready"}
    BY DEF validateCatalogState
  <2>3. CASE catPhase' \in {"rename", "ready"} /\ UNCHANGED storageVars
    BY <1>9, <2>3 DEF loadCatalog, storageVars, markerVars, Apart, Serving
  <2> QED
    BY <1>9, <2>1, <2>2, <2>3 DEF loadCatalog, HandleReady, Outcomes
<1>10. CASE loadCatalogFails \/ persistFails
  <2>1. CASE CatalogRefused("closed")
    BY <1>8, <1>10, <2>1 DEF loadCatalogFails, persistFails, Outcomes
  <2>2. CASE catPhase' = "ready" /\ UNCHANGED <<phase, markerVars>>
    BY <1>10, <2>2 DEF loadCatalogFails, persistFails, markerVars, Apart, Serving
  <2> QED
    BY <1>10, <2>1, <2>2 DEF loadCatalogFails, persistFails
<1>11. CASE persistSyncDirectory
  BY <1>11 DEF persistSyncDirectory, StructuralReturn, HandleReady, Apart, Serving
<1>12. CASE snapshotStep
  <2>1. catPhase = "ready" /\ phase' \in Closed \cup Serving /\ UNCHANGED markerPhase
    BY <1>12 DEF snapshotStep, SnapshotKeyed, Close, snapshotRename, snapshotTruncate, snapshotSync, snapshotFails,
                 markerVars, Serving, Snapshotting, Closed
  <2>2. CASE phase' \in Closed
    BY <1>12, <2>1, <2>2, ApartDropped DEF snapshotStep, Outcomes
  <2>3. CASE phase' \notin Closed
    BY <1>12, <2>1, <2>3 DEF snapshotStep, handleVars, Apart
  <2> QED
    BY <2>2, <2>3
<1>13. CASE snapshotDirectory
  BY <1>13 DEF snapshotDirectory, snapshotSyncDirectory, handleVars, Apart, Closed, Recovering, Serving, Snapshotting
<1>14. CASE crash \/ losePower
  <2>1. phase' \in Closed /\ DropHandle("closed")
    BY <1>14 DEF crash, losePower, processCrash, powerLoss, storageVars, Closed
  <2> QED
    BY <2>1, ApartDropped DEF Outcomes
<1> QED
  BY <1>1, <1>2, <1>3, <1>4, <1>5, <1>6, <1>7, <1>9, <1>10, <1>11, <1>12, <1>13, <1>14 DEF Next, HandleStep, GroupStep

\* Steps before there is a handle, and the ends of the process.
OpenStep ==
    \/ \E m \in Models : startOpen(m)
    \/ markerStep \/ markerSyncDirectory \/ openOther
    \/ \E h \in DedupeHorizons : openStore(h)
    \/ createWAL \/ recoverStore \/ loadCatalogFails \/ crash \/ losePower

\* They give nobody a handle and return nothing new.
LEMMA OpenStepEffect ==
    ASSUME Apart, OpenStep
    PROVE  catPhase' \in Outcomes \cup {"opening"} /\ UNCHANGED promised
<1> USE DEF Outcomes
<1>1. CASE (\E m \in Models : startOpen(m)) \/ loadCatalogFails \/ crash \/ losePower
  BY <1>1 DEF startOpen, loadCatalogFails, CatalogRefused, crash, losePower, DropHandle, catalogHistory
<1>2. CASE markerStep \/ markerSyncDirectory \/ openOther
  BY <1>2 DEF markerStep, markerSyncDirectory, openOther, renameMarker, markerFails, syncMarker, handleVars, catalogHistory, Apart
<1>3. CASE \E h \in DedupeHorizons : openStore(h)
  BY <1>3 DEF openStore, catalogHistory
<1>4. CASE createWAL \/ recoverStore
  <2>1. phase \in Recovering
    BY <1>4 DEF createWAL, recoverStore, loadKeyedSnapshot, replayKeyedWAL, replayDone, truncateKeyedTail,
                truncateKeyedTailSync, openStorageFails, Recovering
  <2>2. UNCHANGED <<catPhase, promised>>
    BY <1>4 DEF createWAL, recoverStore, catalogVars, handleVars, catalogHistory
  <2> QED
    BY <2>1, <2>2 DEF Apart, Recovering, Closed, Serving, Snapshotting
<1> QED
  BY <1>1, <1>2, <1>3, <1>4 DEF OpenStep

\* Steps of a snapshot: the last one of Close ends the handle.
LEMMA SnapshotStepEffect ==
    ASSUME snapshotStep \/ snapshotDirectory
    PROVE  /\ UNCHANGED <<catFile, promised, marker, populated, opener, markerPhase, opens>>
           /\ \/ catPhase' = "closed" /\ phase' \in Closed
              \/ UNCHANGED handleVars /\ phase \notin Closed /\ (poisoned => poisoned')
<1>1. CASE snapshotDirectory
  BY <1>1 DEF snapshotDirectory, snapshotSyncDirectory, Closed
<1>2. CASE snapshotStep
  <2>1. /\ phase \notin Closed /\ opens' = opens
        /\ phase' \notin Closed => (poisoned => poisoned')
    BY <1>2 DEF snapshotStep, SnapshotKeyed, Close, snapshotRename, snapshotTruncate, snapshotSync, snapshotFails,
                Closed, Snapshotting
  <2> QED
    BY <1>2, <2>1 DEF snapshotStep, DropHandle, catalogFile, catalogHistory, markerVars
<1> QED
  BY <1>1, <1>2

-----------------------------------------------------------------------------
(* The catalog and its names *)

Options == [type : Names, maxRecords : Nat \ {0}, maxValueBytes : Nat \ {0}]
Infos == [bucket : Names, name : Names, id : Nat, options : Options]
Catalogs == [id : Nat, nextID : Nat, buckets : SUBSET Names, datasets : SUBSET Infos]

\* A catalog that has been through encoding/json.
SettledInfo(d) ==
    jsonName[d.bucket] = d.bucket /\ jsonName[d.name] = d.name /\ jsonName[d.options.type] = d.options.type
Settled(c) == (\A b \in c.buckets : jsonName[b] = b) /\ \A d \in c.datasets : SettledInfo(d)

\* A DatasetInfo is settled by one trip, and keeps its ID.
LEMMA SpeltInfo ==
    ASSUME NEW d \in Infos
    PROVE  /\ spelt(d) \in Infos /\ spelt(d).id = d.id /\ SettledInfo(spelt(d))
           /\ speltName(nameOf(spelt(d))) = speltName(nameOf(d))
           /\ SettledInfo(d) => spelt(d) = d
<1>1. /\ jsonName[d.bucket] \in Names /\ jsonName[d.name] \in Names /\ jsonName[d.options.type] \in Names
      /\ \A n \in Names : jsonName[jsonName[n]] = jsonName[n]
  BY CatalogAssumption DEF Infos, Options
<1>2. d.id \in Nat /\ d.options.maxRecords \in Nat \ {0} /\ d.options.maxValueBytes \in Nat \ {0}
  BY DEF Infos, Options
<1>3. d.bucket \in Names /\ d.name \in Names /\ d.options.type \in Names /\ d.options \in Options
  BY DEF Infos, Options
<1>4. [d.options EXCEPT !.type = jsonName[@]] = [type |-> jsonName[d.options.type],
          maxRecords |-> d.options.maxRecords, maxValueBytes |-> d.options.maxValueBytes]
  BY <1>3 DEF Options
<1>5. PICK o \in Options : o = [d.options EXCEPT !.type = jsonName[@]]
  BY <1>1, <1>2, <1>4 DEF Options
<1>6. o.type = jsonName[d.options.type]
  BY <1>4, <1>5
<1>7. spelt(d) = [bucket |-> jsonName[d.bucket], name |-> jsonName[d.name], id |-> d.id, options |-> o]
  BY <1>5 DEF spelt
<1>8. spelt(d) \in Infos /\ spelt(d).id = d.id /\ SettledInfo(spelt(d))
  BY <1>1, <1>2, <1>3, <1>6, <1>7 DEF Infos, SettledInfo
<1>9. speltName(nameOf(spelt(d))) = speltName(nameOf(d))
  BY <1>1, <1>3, <1>7 DEF speltName, nameOf
<1>10. ASSUME SettledInfo(d) PROVE spelt(d) = d
  <2>1. o = d.options
    BY <1>3, <1>4, <1>5, <1>10 DEF SettledInfo, Options
  <2> QED
    BY <1>7, <1>10, <2>1 DEF SettledInfo, Infos
<1> QED
  BY <1>8, <1>9, <1>10

\* What a catalog file holds, field by field.
LEMMA DecodedIs ==
    ASSUME NEW c \in Catalogs
    PROVE  /\ decoded(c) \in Catalogs /\ Settled(decoded(c))
           /\ decoded(c).id = c.id /\ decoded(c).nextID = c.nextID
           /\ decoded(c).buckets = {jsonName[b] : b \in c.buckets}
           /\ decoded(c).datasets = {spelt(d) : d \in unmarshalled(c)}
           /\ unmarshalled(c) \subseteq c.datasets
<1>1. decoded(c) = [id |-> c.id, nextID |-> c.nextID, buckets |-> {jsonName[b] : b \in c.buckets},
                    datasets |-> {spelt(d) : d \in unmarshalled(c)}]
  <2>1. PICK bs, ds : bs = {jsonName[b] : b \in c.buckets} /\ ds = {spelt(d) : d \in unmarshalled(c)}
    OBVIOUS
  <2>2. decoded(c) = [c EXCEPT !.buckets = bs, !.datasets = ds]
    BY <2>1 DEF decoded
  <2> QED
    BY <2>1, <2>2 DEF Catalogs
<1>2. unmarshalled(c) \subseteq c.datasets /\ c.datasets \subseteq Infos /\ c.buckets \subseteq Names /\ c.id \in Nat /\ c.nextID \in Nat
  BY DEF unmarshalled, Catalogs
<1>3. \A d \in unmarshalled(c) : spelt(d) \in Infos /\ SettledInfo(spelt(d))
  BY <1>2, SpeltInfo
<1>4. \A b \in c.buckets : jsonName[b] \in Names /\ jsonName[jsonName[b]] = jsonName[b]
  BY <1>2, CatalogAssumption
<1>5. decoded(c) \in Catalogs
  BY <1>1, <1>2, <1>3, <1>4 DEF Catalogs
<1>6. Settled(decoded(c))
  BY <1>1, <1>3, <1>4 DEF Settled
<1> QED
  BY <1>1, <1>2, <1>5, <1>6

\* A second trip changes nothing.
LEMMA DecodedOnce ==
    ASSUME NEW c \in Catalogs, Settled(c)
    PROVE  decoded(c) = c
<1>1. /\ c.datasets \subseteq Infos /\ c.buckets \subseteq Names
      /\ c = [id |-> c.id, nextID |-> c.nextID, buckets |-> c.buckets, datasets |-> c.datasets]
  BY DEF Catalogs
<1>2. {jsonName[b] : b \in c.buckets} = c.buckets
  BY DEF Settled
<1>3. \A d \in c.datasets : spelt(d) = d /\ jsonName[d.bucket] = d.bucket /\ jsonName[d.name] = d.name
  BY <1>1, SpeltInfo DEF Settled, SettledInfo
<1>4. \A b \in c.buckets : jsonName[b] = b /\ b <= b
  BY <1>1, CatalogAssumption DEF Settled
<1>5. \A d \in c.datasets : d.name <= d.name
  BY <1>1, CatalogAssumption DEF Infos
<1>6. unmarshalled(c) = c.datasets
  BY <1>3, <1>4, <1>5 DEF unmarshalled
<1>7. {spelt(d) : d \in unmarshalled(c)} = c.datasets
  BY <1>3, <1>6
<1> QED
  BY <1>1, <1>2, <1>7 DEF decoded, Catalogs

\* What has plain names stays as it is.
LEMMA PlainStays ==
    ASSUME NEW c \in Catalogs
    PROVE  /\ c.buckets \cap Plain \subseteq decoded(c).buckets
           /\ \A d \in c.datasets : nameOf(d) \in Plain \X Plain => spelt(d) \in decoded(c).datasets
           /\ \A d \in c.datasets : PlainEntry(d) => d \in decoded(c).datasets
<1>1. c.datasets \subseteq Infos /\ c.buckets \subseteq Names
  BY DEF Catalogs
<1>2. \A n \in Plain : n \in Nat /\ n <= n /\ jsonName[n] = n /\ \A m \in Names : jsonName[m] = n => m = n
  BY CatalogAssumption DEF Plain
<1>3. ASSUME NEW d \in c.datasets, d.bucket \in Plain, d.name \in Plain PROVE d \in unmarshalled(c)
  <2>1. \A b \in c.buckets : jsonName[b] = jsonName[d.bucket] => b <= d.bucket
    BY <1>1, <1>2, <1>3
  <2>2. \A e \in c.datasets : jsonName[e.name] = jsonName[d.name] => e.name <= d.name
    BY <1>1, <1>2, <1>3 DEF Infos
  <2> QED
    BY <2>1, <2>2 DEF unmarshalled
<1>4. c.buckets \cap Plain \subseteq decoded(c).buckets
  BY <1>2, DecodedIs
<1>5. ASSUME NEW d \in c.datasets, nameOf(d) \in Plain \X Plain PROVE spelt(d) \in decoded(c).datasets
  <2>1. d.bucket \in Plain /\ d.name \in Plain
    BY <1>5 DEF nameOf
  <2> QED
    BY <1>3, <2>1, DecodedIs
<1>6. ASSUME NEW d \in c.datasets, PlainEntry(d) PROVE d \in decoded(c).datasets
  <2>1. d \in unmarshalled(c)
    BY <1>3, <1>6 DEF PlainEntry
  <2>2. spelt(d) = d
    BY <1>1, <1>2, <1>6, SpeltInfo DEF PlainEntry, SettledInfo
  <2> QED
    BY <2>1, <2>2, DecodedIs
<1> QED
  BY <1>4, <1>5, <1>6

\* There is nothing to settle in an empty catalog.
LEMMA EmptySettled == NoCatalog \in Catalogs /\ Settled(NoCatalog) /\ decoded(NoCatalog) = NoCatalog
<1>1. NoCatalog \in Catalogs /\ Settled(NoCatalog)
  BY DEF NoCatalog, Catalogs, Settled
<1> QED
  BY <1>1, DecodedOnce

\* The catalog in memory, on its way to the file, in the file and in the history.
CatalogTypes ==
    /\ catalog \in Catalogs /\ next \in Catalogs /\ promised \in Catalogs
    /\ catFile \in Catalogs /\ Settled(catFile) /\ \A c \in catMedia : c \in Catalogs /\ Settled(c)
    /\ opens \in Nat /\ (phase \notin Closed => opens # 0)
    /\ reliance \in {"durable", "exposed", "lost"}

\* An open changes no catalog; power loss picks one of those in catMedia.
LEMMA OpenStepFiles ==
    ASSUME OpenStep
    PROVE  /\ catalog' \in {catalog, NoCatalog} /\ next' \in {next, NoCatalog}
           /\ catFile' \in catMedia \cup {catFile} /\ catMedia' \subseteq catMedia \cup {catFile}
           /\ opens' \in {opens, opens + 1} /\ (phase' \notin Closed /\ phase \in Closed => opens' = opens + 1)
<1> USE DEF catalogVars, handleVars, catalogFile, DropHandle
<1>1. CASE (\E m \in Models : startOpen(m)) \/ markerStep \/ openOther
  BY <1>1 DEF startOpen, markerStep, openOther, storageVars
<1>2. CASE markerSyncDirectory
  BY <1>2 DEF markerSyncDirectory, DirectoryDurable
<1>3. CASE \E h \in DedupeHorizons : openStore(h)
  BY <1>3 DEF openStore, openKeyed
<1>4. CASE createWAL \/ recoverStore
  BY <1>4 DEF createWAL, recoverStore, loadKeyedSnapshot, replayKeyedWAL, replayDone, truncateKeyedTail,
              truncateKeyedTailSync, openStorageFails, Recovering, Closed
<1>5. CASE loadCatalogFails \/ crash
  BY <1>5 DEF loadCatalogFails, CatalogRefused, crash, processCrash, storageVars, Closed
<1>6. CASE losePower
  BY <1>6 DEF losePower, powerLoss, Closed
<1> QED
  BY <1>1, <1>2, <1>3, <1>4, <1>5, <1>6 DEF OpenStep

\* No step takes a catalog out of its type.
LEMMA CatalogTypesStep == Apart /\ CatalogTypes /\ [Next]_vars => CatalogTypes'
<1> SUFFICES ASSUME Apart, CatalogTypes, [Next]_vars PROVE CatalogTypes'
  OBVIOUS
<1>1. NoCatalog \in Catalogs
  BY EmptySettled
<1>n. decoded(next) \in Catalogs /\ Settled(decoded(next))
  BY DecodedIs DEF CatalogTypes
<1>r. reliance' \in {"durable", "exposed", "lost"}
  BY DEF CatalogTypes, Next, vars, catalogVars, catalogHistory, startOpen, ReliesOn, markerStep, markerSyncDirectory,
         DirectoryDurable, openOther, openStore, createWAL, recoverStore, loadCatalog, loadCatalogFails, Bucket,
         createDataset, persistRename, persistSyncDirectory, persistFails, beginCommands, Mutate, MutateFails, commitStep,
         beginScan, visit, endScan, snapshotStep, snapshotDirectory, crash, losePower
<1>2. ASSUME catalog' \in {catalog, next, catFile, NoCatalog}, next' \in Catalogs, promised' \in Catalogs,
             catFile' \in catMedia \cup {catFile, decoded(next)}, catMedia' \subseteq catMedia \cup {catFile, decoded(next)},
             opens' \in {opens, opens + 1}, phase' \notin Closed /\ phase \in Closed => opens' = opens + 1
      PROVE  CatalogTypes'
  BY <1>1, <1>n, <1>r, <1>2 DEF CatalogTypes
<1>3. CASE UNCHANGED vars
  BY <1>2, <1>3 DEF vars, storageVars, catalogVars, handleVars, catalogFile, catalogHistory, CatalogTypes
<1>4. CASE HandleStep
  <2>1. next' \in Catalogs
    <3>1. ASSUME NEW b \in Buckets, Bucket(b) PROVE next' \in Catalogs
      <4>1. next' = [id |-> catalog.id, nextID |-> catalog.nextID, buckets |-> catalog.buckets \cup {b},
                     datasets |-> catalog.datasets]
        BY <3>1 DEF Bucket, Catalogs, CatalogTypes
      <4>2. b \in Names
        BY CatalogAssumption DEF Buckets
      <4> QED
        BY <4>1, <4>2 DEF Catalogs, CatalogTypes
    <3>2. ASSUME NEW r \in Requests, createDataset(r.name, r.options) PROVE next' \in Catalogs
      <4>1. PICK d \in Infos : d = [bucket |-> r.name[1], name |-> r.name[2], id |-> catalog.nextID, options |-> r.options]
        <5>1. r.name[1] \in Names /\ r.name[2] \in Names /\ r.options \in Options /\ catalog.nextID \in Nat
          BY CatalogAssumption DEF Options, Catalogs, CatalogTypes
        <5> QED
          BY <5>1 DEF Infos
      <4>2. next' = [catalog EXCEPT !.nextID = @ + 1, !.datasets = @ \cup {d}]
        BY <3>2, <4>1 DEF createDataset
      <4>3. next' = [id |-> catalog.id, nextID |-> catalog.nextID + 1, buckets |-> catalog.buckets,
                     datasets |-> catalog.datasets \cup {d}]
        BY <4>2 DEF Catalogs, CatalogTypes
      <4>4. /\ catalog.id \in Nat /\ catalog.nextID + 1 \in Nat
            /\ catalog.buckets \in SUBSET Names /\ catalog.datasets \cup {d} \in SUBSET Infos
        BY DEF Catalogs, CatalogTypes
      <4> QED
        BY <4>3, <4>4 DEF Catalogs
    <3> QED
      BY <1>4, <3>1, <3>2 DEF HandleStep, persistRename, beginScan, visit, endScan, CatalogTypes
  <2>2. catFile' \in {catFile, decoded(next)} /\ catMedia' \subseteq catMedia \cup {decoded(next)}
    BY <1>4 DEF HandleStep, Bucket, createDataset, persistRename, beginScan, visit, endScan, catalogFile
  <2> QED
    BY <1>2, <1>4, <2>1, <2>2, HandleStepEffect DEF storageVars, catalogHistory, CatalogTypes
<1>5. CASE GroupStep
  BY <1>2, <1>5, GroupStepEffect DEF catalogFile, CatalogTypes, Closed
<1>6. CASE OpenStep
  BY <1>1, <1>2, <1>6, OpenStepEffect, OpenStepFiles DEF CatalogTypes
<1>7. CASE snapshotStep \/ snapshotDirectory
  <2>1. catalog' \in {catalog, NoCatalog} /\ next' \in {next, NoCatalog} /\ catMedia' \subseteq catMedia \cup {catFile}
    BY <1>7 DEF snapshotStep, snapshotDirectory, DropHandle, DirectoryDurable, handleVars, catalogFile
  <2> QED
    BY <1>1, <1>2, <1>7, <2>1, SnapshotStepEffect DEF CatalogTypes
<1>8. ASSUME NEW c \in Catalogs, Returned(c) PROVE promised' \in Catalogs
  BY <1>8 DEF Returned, Catalogs, CatalogTypes
<1>9. CASE loadCatalog
  <2>1. NewCatalog \in Catalogs
    BY DEF NewCatalog, Catalogs, CatalogTypes
  <2>2. /\ catalog' \in {catalog, catFile, NoCatalog} /\ next' \in {NoCatalog, NewCatalog}
        /\ Returned(catFile) \/ UNCHANGED promised
        /\ UNCHANGED <<catFile, catMedia, opens>> /\ phase \notin Closed
    BY <1>9 DEF loadCatalog, CatalogRefused, DropHandle, HandleReady, catalogFile, storageVars, Closed
  <2> QED
    BY <1>1, <1>2, <1>8, <2>1, <2>2 DEF CatalogTypes
<1>10. CASE persistSyncDirectory
  <2>1. /\ catalog' = next /\ next' = NoCatalog /\ Returned(next)
        /\ catMedia' \subseteq catMedia \cup {catFile} /\ UNCHANGED <<catFile, opens, phase>>
    BY <1>10 DEF persistSyncDirectory, StructuralReturn, HandleReady, DirectoryDurable
  <2> QED
    BY <1>1, <1>2, <1>8, <2>1 DEF CatalogTypes
<1>11. CASE persistFails
  <2>1. /\ catalog' \in {catalog, NoCatalog} /\ next' = NoCatalog
        /\ UNCHANGED <<promised, catFile, catMedia, opens>> /\ (phase' \notin Closed => phase \notin Closed)
    BY <1>11 DEF persistFails, CatalogRefused, DropHandle, catalogFile, catalogHistory, Closed
  <2> QED
    BY <1>1, <1>2, <2>1 DEF CatalogTypes
<1> QED
  BY <1>3, <1>4, <1>5, <1>6, <1>7, <1>9, <1>10, <1>11 DEF Next, HandleStep, GroupStep, OpenStep

-----------------------------------------------------------------------------
(* The catalog in memory and in its file *)

\* A structural call persists before it installs: until the rename the file is written from
\* the catalog of the handle, or there is none yet; afterwards from the one that will be
\* installed.
Current ==
    /\ CatalogCurrent
    /\ catPhase = "rename" => catFile = IF op = "create" THEN NoCatalog ELSE decoded(catalog)
    /\ catPhase = "sync" => catFile = decoded(next)

\* A failed structural call poisons the handle whatever its rename did.
LEMMA CurrentStep == Apart /\ CatalogTypes /\ Current /\ [Next]_vars => Current'
<1> SUFFICES ASSUME Apart, CatalogTypes, Current, [Next]_vars PROVE Current'
  OBVIOUS
<1> USE DEF Current, CatalogCurrent, HasHandle
<1>1. ASSUME catPhase' \in Outcomes \cup {"opening"} PROVE Current'
  BY <1>1 DEF Outcomes
<1>2. ASSUME UNCHANGED <<catFile, catalog, catPhase, op, next>>, poisoned => poisoned' PROVE Current'
  BY <1>2
<1>3. CASE UNCHANGED vars
  BY <1>2, <1>3 DEF vars, storageVars, catalogVars, handleVars, catalogFile
<1>4. CASE HandleStep
  <2>1. CASE \/ \E b \in Buckets : Bucket(b)
             \/ \E r \in Requests : createDataset(r.name, r.options)
    BY <2>1 DEF Bucket, createDataset, Admitted, catalogFile
  <2>2. CASE persistRename
    BY <2>2 DEF persistRename
  <2>3. CASE (\E d \in catalog.datasets : beginScan(d)) \/ visit \/ endScan
    BY <2>3 DEF beginScan, visit, endScan, Admitted, catalogFile, storageVars, Apart
  <2> QED
    BY <1>4, <2>1, <2>2, <2>3 DEF HandleStep
<1>5. CASE GroupStep
  BY <1>2, <1>5, GroupStepEffect DEF catalogFile
<1>6. CASE OpenStep
  BY <1>1, <1>6, OpenStepEffect
<1>7. CASE snapshotStep \/ snapshotDirectory
  BY <1>1, <1>2, <1>7, SnapshotStepEffect DEF handleVars, Outcomes
<1>8. CASE loadCatalog
  <2>1. validateCatalogState(catFile, mem.records) \in {"corrupt", "capacity", "ready"}
    BY DEF validateCatalogState
  <2>2. decoded(catFile) = catFile
    BY DecodedOnce DEF CatalogTypes
  <2> QED
    BY <1>8, <2>1, <2>2 DEF loadCatalog, CatalogRefused, DropHandle, HandleReady, catalogFile
<1>9. CASE persistSyncDirectory
  BY <1>9 DEF persistSyncDirectory, StructuralReturn, HandleReady
<1>10. CASE persistFails
  BY <1>10 DEF persistFails, CatalogRefused, DropHandle
<1> QED
  BY <1>3, <1>4, <1>5, <1>6, <1>7, <1>8, <1>9, <1>10 DEF Next, HandleStep, GroupStep, OpenStep

\* They hold of every behaviour.
LEMMA CurrentInvariant == Spec => [](Apart /\ CatalogTypes /\ Current)
<1>1. Init => Apart /\ Current
  BY DEF Init, StorageInit, MarkerInit, Apart, Current, CatalogCurrent, HasHandle, Closed
<1>2. Init => CatalogTypes
  BY EmptySettled DEF Init, StorageInit, CatalogTypes, Closed
<1> QED
  BY <1>1, <1>2, ApartStep, CatalogTypesStep, CurrentStep, PTL DEF Spec

\* The catalog of a handle that is not poisoned is the one its file was written from, through
\* structural calls that fail before or after their rename, crashes and power loss, whatever
\* encoding/json does to its names.
THEOREM CatalogStaysCurrent == Spec => []CatalogCurrent
<1>1. Current => CatalogCurrent
  BY DEF Current
<1> QED
  BY <1>1, CurrentInvariant, PTL

-----------------------------------------------------------------------------
(* What calls have returned *)

\* loadOrCreateCatalog: OpenCatalog fails, or a first catalog is written over an empty store,
\* or the file is taken as it is.
LEMMA LoadEffect ==
    ASSUME loadCatalog
    PROVE  /\ phase = "open" /\ catPhase = "opening" /\ UNCHANGED <<catFile, catMedia, markerVars>>
           /\ \/ catPhase' \in Outcomes /\ UNCHANGED <<promised, reliance>>
              \/ /\ catPhase' = "rename" /\ op' = "create" /\ next' = NewCatalog
                 /\ catFile = NoCatalog /\ mem.sequence = 0 /\ Live(mem.records) = {}
                 /\ UNCHANGED <<promised, reliance, storageVars>>
              \/ /\ catPhase' = "ready" /\ catalog' = catFile /\ op' = "none" /\ Returned(catFile)
                 /\ validateCatalogState(catFile, mem.records) = "ready" /\ UNCHANGED storageVars
                 /\ ReliesOn(catMedia # {catFile})
<1>1. phase = "open" /\ catPhase = "opening" /\ UNCHANGED <<catFile, catMedia, markerVars>>
  BY DEF loadCatalog, catalogFile
<1>2. CASE \E outcome \in Outcomes : CatalogRefused(outcome) /\ UNCHANGED promised
  <2>1. catPhase' \in Outcomes
    BY <1>2 DEF CatalogRefused, DropHandle
  <2>2. reliance' = reliance
    BY <2>1 DEF loadCatalog, ReliesOn, Outcomes
  <2> QED
    BY <1>1, <1>2, <2>1, <2>2
<1>3. CASE catPhase' = "rename"
  <2>1. catPhase' \notin {"incompatible", "ready", validateCatalogState(catFile, mem.records)}
    BY <1>3 DEF validateCatalogState
  <2>2. reliance' = reliance
    BY <1>3 DEF loadCatalog, ReliesOn
  <2>3. /\ catFile = NoCatalog /\ mem.sequence = 0 /\ Live(mem.records) = {}
        /\ op' = "create" /\ next' = NewCatalog /\ UNCHANGED <<promised, storageVars>>
    BY <2>1 DEF loadCatalog, CatalogRefused, DropHandle, HandleReady
  <2> QED
    BY <1>1, <1>3, <2>2, <2>3
<1>4. CASE /\ HandleReady(catFile) /\ UNCHANGED storageVars /\ validateCatalogState(catFile, mem.records) = "ready"
  <2>1. catPhase' = "ready"
    BY <1>4 DEF HandleReady
  <2>2. ReliesOn(catMedia # {catFile})
    BY <2>1 DEF loadCatalog, ReliesOn
  <2> QED
    BY <1>1, <1>4, <2>1, <2>2 DEF HandleReady
<1>5. validateCatalogState(catFile, mem.records) \in {"corrupt", "capacity", "ready"}
  BY DEF validateCatalogState
<1> QED
  BY <1>1, <1>2, <1>3, <1>4, <1>5 DEF loadCatalog, Outcomes

\* Catalog c has what was promised under plain names.
Keeps(p, c) ==
    /\ p.buckets \cap Plain \subseteq c.buckets /\ {d \in p.datasets : PlainEntry(d)} \subseteq c.datasets
    /\ p.id # 0 => c.id = p.id

\* The file has what calls returned, and so has whatever power loss may leave in its place
\* unless a handle relies on a rename that is not durable.
FileKept ==
    reliance # "lost" =>
        /\ Keeps(promised, catFile)
        /\ reliance = "durable" => \A c \in catMedia : Keeps(promised, c)
\* So have the catalog of a handle and the one that is on its way to the file.
HandleKept ==
    reliance # "lost" =>
        /\ HasHandle \/ (catPhase \in {"rename", "sync"} /\ op # "create") =>
             Keeps(promised, catalog) /\ promised.id # 0
        /\ catPhase \in {"rename", "sync"} => Keeps(promised, next) /\ next.id # 0

\* A call returns with catalog c.
LEMMA ReturnedKept ==
    ASSUME CatalogTypes, NEW c \in Catalogs, Keeps(promised, c), c.id # 0, Returned(c)
    PROVE  Keeps(promised', c) /\ promised'.id # 0
<1>1. /\ promised'.id = IF promised.id = 0 THEN c.id ELSE promised.id
      /\ promised'.buckets = promised.buckets \cup c.buckets /\ promised'.datasets = promised.datasets \cup c.datasets
  BY DEF Returned, CatalogTypes, Catalogs
<1> QED
  BY <1>1 DEF Keeps

\* The file keeps what the catalog has that it is written from.
LEMMA KeepsDecoded ==
    ASSUME NEW c \in Catalogs, NEW p, Keeps(p, c)
    PROVE  Keeps(p, decoded(c))
<1>1. p.buckets \cap Plain \subseteq decoded(c).buckets
  BY PlainStays DEF Keeps
<1>2. {d \in p.datasets : PlainEntry(d)} \subseteq decoded(c).datasets
  BY PlainStays DEF Keeps
<1> QED
  BY <1>1, <1>2, DecodedIs DEF Keeps

\* A structural call adds to the catalog.
LEMMA StructuralAdds ==
    ASSUME CatalogTypes, (\E b \in Buckets : Bucket(b)) \/ \E r \in Requests : createDataset(r.name, r.options)
    PROVE  /\ next'.id = catalog.id /\ catalog.buckets \subseteq next'.buckets /\ catalog.datasets \subseteq next'.datasets
           /\ op' # "create" /\ UNCHANGED <<catFile, catMedia>> /\ catPhase' = "rename"
<1>1. CASE \E b \in Buckets : Bucket(b)
  BY <1>1 DEF Bucket, CatalogTypes, Catalogs, catalogFile
<1>2. CASE \E r \in Requests : createDataset(r.name, r.options)
  <2>1. PICK r \in Requests : createDataset(r.name, r.options)
    BY <1>2
  <2>2. PICK d : next' = [catalog EXCEPT !.nextID = @ + 1, !.datasets = @ \cup {d}]
    BY <2>1 DEF createDataset
  <2>3. next'.id = catalog.id /\ next'.buckets = catalog.buckets /\ next'.datasets = catalog.datasets \cup {d}
    BY <2>2 DEF CatalogTypes, Catalogs
  <2>4. op' # "create" /\ UNCHANGED <<catFile, catMedia>> /\ catPhase' = "rename"
    BY <2>1 DEF createDataset, catalogFile
  <2> QED
    BY <2>3, <2>4
<1> QED
  BY <1>1, <1>2

\* The directory Sync comes before the return, and a handle that reads a rename which was
\* not synced is counted as relying on it.
LEMMA KeptStep ==
    ASSUME DirectorySync
    PROVE  Apart /\ Current /\ CatalogTypes /\ FileKept /\ HandleKept /\ [Next]_vars => (FileKept /\ HandleKept)'
<1> SUFFICES ASSUME Apart, Current, CatalogTypes, FileKept, HandleKept, [Next]_vars PROVE (FileKept /\ HandleKept)'
  OBVIOUS
<1>1. ASSUME UNCHANGED <<promised, catFile>>, reliance' # "lost" => reliance # "lost",
             reliance' = "durable" => (reliance = "durable" /\ catMedia' = catMedia) \/ catMedia' = {catFile}
      PROVE  FileKept'
  BY <1>1 DEF FileKept
<1>2. ASSUME catPhase' \in Outcomes \cup {"opening"} PROVE HandleKept'
  BY <1>2 DEF Outcomes, HasHandle, HandleKept
<1>3. ASSUME UNCHANGED <<promised, catalog, catPhase, op, next>>, reliance' # "lost" => reliance # "lost" PROVE HandleKept'
  BY <1>3 DEF HasHandle, HandleKept
<1>4. ASSUME DirectoryDurable PROVE catMedia' = {catFile} /\ (reliance' # "lost" => reliance # "lost")
  BY <1>4 DEF DirectoryDurable
<1>5. CASE UNCHANGED vars
  BY <1>1, <1>3, <1>5 DEF vars, catalogVars, handleVars, catalogFile, catalogHistory
<1>6. CASE HandleStep
  <2>1. UNCHANGED <<promised, reliance, catalog>>
    BY <1>6, HandleStepEffect DEF catalogHistory
  <2>2. CASE (\E b \in Buckets : Bucket(b)) \/ \E r \in Requests : createDataset(r.name, r.options)
    <3>1. HasHandle
      BY <2>2 DEF Bucket, createDataset, Admitted, HasHandle
    <3> QED
      BY <1>1, <2>1, <2>2, <3>1, StructuralAdds DEF HandleKept, HasHandle, Keeps
  <2>3. CASE persistRename
    <3>1. /\ catPhase = "rename" /\ catPhase' = "sync" /\ catFile' = decoded(next) /\ catMedia' = catMedia \cup {decoded(next)}
          /\ UNCHANGED <<op, next>>
      BY <2>3 DEF persistRename
    <3>2. Keeps(promised, next) => Keeps(promised, decoded(next))
      BY KeepsDecoded DEF CatalogTypes
    <3>3. FileKept'
      BY <2>1, <3>1, <3>2 DEF FileKept, HandleKept
    <3>4. HandleKept'
      BY <2>1, <3>1 DEF HandleKept, HasHandle
    <3> QED
      BY <3>3, <3>4
  <2>4. CASE (\E d \in catalog.datasets : beginScan(d)) \/ visit \/ endScan
    <3>1. UNCHANGED <<catFile, catMedia>> /\ HasHandle /\ catPhase' \in {"ready", "scan"}
      BY <2>4 DEF beginScan, visit, endScan, Admitted, HasHandle, catalogFile
    <3> QED
      BY <1>1, <2>1, <3>1 DEF HandleKept, HasHandle
  <2> QED
    BY <1>6, <2>2, <2>3, <2>4 DEF HandleStep
<1>7. CASE GroupStep
  BY <1>1, <1>3, <1>7, GroupStepEffect DEF catalogFile
<1>8. CASE OpenStep
  <2>1. HandleKept' /\ UNCHANGED promised
    BY <1>2, <1>8, OpenStepEffect
  <2>2. CASE losePower
    BY <2>1, <2>2 DEF losePower, FileKept, CatalogTypes
  <2>3. CASE markerSyncDirectory
    BY <1>1, <1>4, <2>1, <2>3 DEF markerSyncDirectory
  <2>4. CASE OpenStep /\ ~losePower /\ ~markerSyncDirectory
    BY <1>1, <2>1, <2>4
       DEF OpenStep, startOpen, ReliesOn, markerStep, openOther, openStore, createWAL, recoverStore, loadCatalogFails, crash,
           catalogFile, catalogHistory, catalogVars
  <2> QED
    BY <1>8, <2>1, <2>2, <2>3, <2>4
<1>9. CASE snapshotStep \/ snapshotDirectory
  <2>1. /\ reliance' # "lost" => reliance # "lost"
        /\ reliance' = "durable" => (reliance = "durable" /\ catMedia' = catMedia) \/ catMedia' = {catFile}
    BY <1>4, <1>9 DEF snapshotStep, snapshotDirectory, catalogFile, catalogHistory
  <2> QED
    BY <1>1, <1>2, <1>3, <1>9, <2>1, SnapshotStepEffect DEF handleVars, Outcomes
<1>10. ASSUME NEW c \in Catalogs, Keeps(promised, c), c.id # 0, Returned(c), catPhase' = "ready", catalog' = c,
              catFile' = decoded(c),
              reliance' # "lost" => reliance # "lost", reliance' = "durable" => catMedia' = {decoded(c)}
       PROVE  (FileKept /\ HandleKept)'
  <2>1. Keeps(promised', c) /\ promised'.id # 0
    BY <1>10, ReturnedKept
  <2>2. Keeps(promised', decoded(c))
    BY <2>1, KeepsDecoded
  <2> QED
    BY <1>10, <2>1, <2>2 DEF FileKept, HandleKept, HasHandle
<1>11. CASE loadCatalog
  <2>1. CASE catPhase' \in Outcomes /\ UNCHANGED <<promised, reliance>>
    BY <1>1, <1>2, <1>11, <2>1, LoadEffect
  <2>2. CASE /\ catPhase' = "rename" /\ op' = "create" /\ next' = NewCatalog /\ catFile = NoCatalog
             /\ UNCHANGED <<promised, reliance, storageVars>>
    <3>1. NewCatalog.id # 0 /\ (Keeps(promised, NoCatalog) => Keeps(promised, NewCatalog))
      BY <1>11, LoadEffect DEF NewCatalog, NoCatalog, Keeps, CatalogTypes, Catalogs, Closed
    <3> QED
      BY <1>1, <1>11, <2>2, <3>1, LoadEffect DEF FileKept, HandleKept, HasHandle
  <2>3. CASE /\ catPhase' = "ready" /\ catalog' = catFile /\ Returned(catFile)
             /\ validateCatalogState(catFile, mem.records) = "ready" /\ ReliesOn(catMedia # {catFile})
    <3>1. PICK c \in Catalogs : c = catFile /\ c = decoded(c)
      BY DecodedOnce DEF CatalogTypes
    <3>2. c.id # 0
      BY <2>3, <3>1 DEF validateCatalogState
    <3>3. CASE reliance = "lost"
      BY <2>3, <3>3 DEF ReliesOn, FileKept, HandleKept
    <3>4. CASE reliance # "lost"
      <4>1. Keeps(promised, c)
        BY <3>1, <3>4 DEF FileKept
      <4>2. reliance' # "lost" /\ (reliance' = "durable" => catMedia' = {c})
        BY <1>11, <2>3, <3>1, <3>4, LoadEffect DEF ReliesOn
      <4> QED
        BY <1>10, <1>11, <2>3, <3>1, <3>2, <3>4, <4>1, <4>2, LoadEffect
    <3> QED
      BY <3>3, <3>4
  <2> QED
    BY <1>11, <2>1, <2>2, <2>3, LoadEffect
<1>12. CASE persistSyncDirectory
  <2>1. PICK c \in Catalogs : c = next
    BY DEF CatalogTypes
  <2>2. /\ catPhase = "sync" /\ catPhase' = "ready" /\ catalog' = c /\ Returned(c) /\ UNCHANGED catFile /\ DirectoryDurable
    BY <1>12, <2>1 DEF persistSyncDirectory, StructuralReturn, HandleReady
  <2>3. catFile = decoded(c)
    BY <2>1, <2>2 DEF Current
  <2>4. CASE reliance = "lost"
    BY <2>2, <2>4 DEF DirectoryDurable, FileKept, HandleKept
  <2>5. CASE reliance # "lost"
    BY <1>4, <1>10, <2>1, <2>2, <2>3, <2>5 DEF HandleKept
  <2> QED
    BY <2>4, <2>5
<1>13. CASE persistFails
  <2>1. CASE CatalogRefused("closed")
    BY <1>1, <1>2, <1>13, <2>1 DEF persistFails, CatalogRefused, DropHandle, Outcomes, catalogFile, catalogHistory
  <2>2. CASE op # "create"
    <3>1. catPhase \in {"rename", "sync"} /\ catPhase' = "ready" /\ UNCHANGED <<catalog, promised, reliance, catFile, catMedia>>
      BY <1>13, <2>2 DEF persistFails, catalogFile, catalogHistory
    <3> QED
      BY <1>1, <2>2, <3>1 DEF HandleKept, HasHandle
  <2> QED
    BY <1>13, <2>1, <2>2 DEF persistFails
<1> QED
  BY <1>5, <1>6, <1>7, <1>8, <1>9, <1>11, <1>12, <1>13 DEF Next, HandleStep, GroupStep, OpenStep

\* What calls returned is kept in every behaviour.
LEMMA KeptInvariant ==
    ASSUME DirectorySync
    PROVE  Spec => [](FileKept /\ HandleKept)
<1>1. Init => FileKept /\ HandleKept
  <2>1. Keeps(NoCatalog, NoCatalog)
    BY DEF NoCatalog, Keeps
  <2> QED
    BY <2>1 DEF Init, FileKept, HandleKept, HasHandle
<1> QED
  BY <1>1, CurrentInvariant, KeptStep, PTL DEF Spec

\* Every bucket and dataset that a call has returned under plain names, and the identity of
\* the database, are in every later handle, for any requests and any number of opens,
\* failures and crashes, also when names that encoding/json alters are stored beside them.
THEOREM PromisesHold ==
    ASSUME DirectorySync
    PROVE  Spec => []PromisesKept
<1>1. HandleKept => PromisesKept
  BY DEF HandleKept, PromisesKept, Keeps
<1> QED
  BY <1>1, KeptInvariant, PTL

-----------------------------------------------------------------------------
(* The FORMAT marker *)

\* What these steps use of the store.
StoreFacts ==
    /\ TypeOK /\ AckedDurable
    /\ wal \in walMedia /\ snap \in snapMedia
    /\ poisoned => phase \in {"open", "group", "reply"}

\* The marker names the product model that works in the directory, power loss may take it
\* away but puts no other in its place, and a directory with acknowledged decisions has
\* files, so that no other product takes it over.
Owned ==
    /\ opener \in Models
    /\ markerPhase \in {"sync", "matched"} => marker = opener
    /\ markerPhase = "rename" => marker = "none"
    /\ markerPhase \in {"rename", "sync"} => ~populated
    /\ phase \notin Closed => marker = "catalog"
    /\ phase \notin Closed \cup {"load"} => populated
    /\ \A m \in markerMedia : m[1] \in {"none", marker}
    /\ acked # {} => populated /\ marker \in {"none", "catalog"}

\* Steps of the store and the catalog once the store is loaded.
LEMMA OwnedKept ==
    ASSUME Owned, UNCHANGED <<marker, populated, opener, markerPhase>>, phase \notin Closed \cup {"load"},
           \A m \in markerMedia' : m[1] \in {"none", marker}
    PROVE  Owned'
BY DEF Owned

\* Power loss cannot empty a directory that holds an acknowledged decision.
LEMMA FilesLeft ==
    ASSUME TypeOK, AckedDurable, acked # {}, powerLoss
    PROVE  wal' # EmptyFile \/ snap' # EmptyState
<1> SUFFICES ASSUME EmptyFile \in walMedia, EmptyState \in snapMedia PROVE FALSE
  BY DEF powerLoss
<1>1. PICK r \in acked : TRUE
  OBVIOUS
<1>2. r.sequence \in Nat \ {0}
  BY DEF TypeOK, Record
<1> QED
  BY <1>2 DEF AckedDurable, EmptyFile, EmptyState

\* The names on the medium after a change are the old ones and the new one.
LEMMA MarkerNames ==
    ASSUME NEW m, NEW tmp, MarkerChanges(m, tmp), NEW x \in markerMedia'
    PROVE  x \in markerMedia \/ x[1] = m
<1>1. <<m, tmp>>[1] = m
  OBVIOUS
<1> QED
  BY <1>1 DEF MarkerChanges

\* The FORMAT marker names the directory's owner whatever step is taken.
LEMMA OwnedStep == StoreFacts /\ Apart /\ Owned /\ [Next]_vars => Owned'
<1> SUFFICES ASSUME StoreFacts, Apart, Owned, [Next]_vars PROVE Owned'
  OBVIOUS
<1> USE DEF markerVars, markerFile, SyncedMarker
<1>1. CASE UNCHANGED vars \/ HandleStep
  BY <1>1, HandleStepEffect DEF vars, catalogVars, storageVars, Owned
<1>2. CASE GroupStep
  BY <1>2, GroupStepEffect, OwnedKept DEF Closed, Owned
<1>3. CASE snapshotStep \/ snapshotDirectory
  <2>1. /\ phase \notin Closed \cup {"load"}
        /\ markerMedia' \in {markerMedia, {<<marker, markerTmp>>}} /\ UNCHANGED <<marker, populated, opener, markerPhase>>
    BY <1>3 DEF snapshotStep, snapshotDirectory, SnapshotKeyed, Close, snapshotRename, snapshotSyncDirectory,
                snapshotTruncate, snapshotSync, snapshotFails, Closed, Snapshotting
  <2> QED
    BY <2>1, OwnedKept DEF Owned
<1>4. CASE loadCatalog \/ loadCatalogFails \/ persistSyncDirectory \/ persistFails
  <2>1. /\ phase = "open" /\ UNCHANGED <<marker, populated, opener, markerPhase>>
        /\ markerMedia' \in {markerMedia, {<<marker, markerTmp>>}}
    BY <1>4 DEF loadCatalog, loadCatalogFails, persistSyncDirectory, persistFails, Apart
  <2> QED
    BY <2>1, OwnedKept DEF Owned, Closed
<1>5. ASSUME NEW m \in Models, startOpen(m) PROVE Owned'
  <2>1. UNCHANGED <<phase, acked, marker, populated>> /\ phase \in Closed
    BY <1>5 DEF startOpen, inspectMarker, storageVars, history, MarkerChanges
  <2>2. opener' = m /\ markerPhase' = IF marker = m THEN "matched"
                                     ELSE IF marker # "none" \/ populated THEN "refused" ELSE "rename"
    BY <1>5 DEF startOpen, inspectMarker
  <2>3. \A x \in markerMedia' : x[1] \in {"none", marker}
    BY <1>5, MarkerNames DEF startOpen, inspectMarker, Owned
  <2> QED
    BY <2>1, <2>2, <2>3 DEF Owned
<1>6. CASE markerStep \/ markerSyncDirectory \/ openOther
  <2>1. phase \in Closed /\ UNCHANGED <<phase, acked>>
    BY <1>6 DEF markerStep, markerSyncDirectory, openOther, renameMarker, markerFails, syncMarker, storageVars, history,
                Apart, Closed
  <2>2. CASE renameMarker
    <3>1. \A x \in markerMedia' : x[1] \in {"none", opener}
      BY <2>2, MarkerNames DEF renameMarker, Owned
    <3>2. markerPhase = "rename" /\ markerPhase' = "sync" /\ marker' = opener /\ UNCHANGED <<populated, opener>>
      BY <2>2 DEF renameMarker, MarkerChanges
    <3> QED
      BY <2>1, <3>1, <3>2 DEF Owned
  <2>3. CASE markerFails
    <3>1. \A x \in markerMedia' : x[1] \in {"none", marker}
      BY <2>3, MarkerNames DEF markerFails, Owned
    <3>2. markerPhase' = "idle" /\ UNCHANGED <<marker, populated, opener>>
      BY <2>3 DEF markerFails, MarkerChanges
    <3> QED
      BY <2>1, <3>1, <3>2 DEF Owned
  <2>4. CASE markerSyncDirectory \/ openOther
    BY <2>1, <2>4 DEF markerSyncDirectory, syncMarker, openOther, Owned
  <2> QED
    BY <1>6, <2>2, <2>3, <2>4 DEF markerStep
<1>7. ASSUME NEW h \in DedupeHorizons, openStore(h) PROVE Owned'
  BY <1>7 DEF openStore, openKeyed, history, Owned, Closed
<1>8. CASE createWAL
  <2>1. /\ phase = "load" /\ phase' \in {"capacity", "corrupt", "replay"}
        /\ phase' = "replay" => populated'
        /\ populated => populated'
        /\ UNCHANGED <<acked, marker, markerMedia, opener, markerPhase>>
    BY <1>8 DEF createWAL, loadKeyedSnapshot, history
  <2>2. phase \notin Closed
    BY <2>1 DEF Closed
  <2>3. markerPhase \notin {"rename", "sync"}
    BY <2>1, <2>2 DEF Apart, Closed
  <2> QED
    BY <2>1, <2>2, <2>3 DEF Owned, Closed
<1>9. CASE recoverStore
  <2>1. CASE phase = "load"
    BY <1>9, <2>1 DEF recoverStore, catalogVars, replayKeyedWAL, replayDone, truncateKeyedTail, truncateKeyedTailSync,
                      openStorageFails, history, Owned, Closed
  <2>2. CASE phase # "load"
    BY <1>9, <2>2, OwnedKept
       DEF recoverStore, catalogVars, replayKeyedWAL, replayDone, truncateKeyedTail, truncateKeyedTailSync,
           openStorageFails, Recovering, Owned, Closed
  <2> QED
    BY <2>1, <2>2
<1>10. CASE crash
  BY <1>10 DEF crash, processCrash, markerCrash, storageVars, history, Owned, Closed
<1>11. CASE losePower
  <2>1. PICK kept \in BOOLEAN : /\ kept => populated
                                /\ populated /\ ~kept => wal' = EmptyFile /\ snap' = EmptyState
                                /\ markerPowerLoss(kept)
    BY <1>11 DEF losePower
  <2>2. acked # {} => kept
    BY <1>11, <2>1, FilesLeft DEF losePower, Owned, StoreFacts
  <2>3. acked' = acked /\ phase' = "down"
    BY <1>11 DEF losePower, powerLoss, history
  <2>4. PICK left \in markerMedia : marker' = left[1] /\ markerMedia' = {left}
    BY <2>1 DEF markerPowerLoss
  <2> QED
    BY <2>1, <2>2, <2>3, <2>4 DEF markerPowerLoss, Owned, Closed
<1> QED
  BY <1>1, <1>2, <1>3, <1>4, <1>5, <1>6, <1>7, <1>8, <1>9, <1>10, <1>11 DEF Next, HandleStep, GroupStep

\* As long as no open relies on a marker that is not durable, power loss leaves a marker in
\* every directory that is in use.
MarkerFit ==
    reliance = "durable" /\ (populated \/ markerPhase = "matched" \/ phase \notin Closed) =>
        \A m \in markerMedia : m[1] # "none"

\* Steps that make no directory newly used.
LEMMA MarkerFitKept ==
    ASSUME MarkerFit, reliance' = "durable" => reliance = "durable", markerMedia' \subseteq markerMedia,
           populated' \/ markerPhase' = "matched" \/ phase' \notin Closed =>
               populated \/ markerPhase = "matched" \/ phase \notin Closed
    PROVE  MarkerFit'
BY DEF MarkerFit

\* Steps that sync the marker first.
LEMMA MarkerFitSynced ==
    ASSUME markerMedia' = {<<marker, markerTmp>>}, marker # "none"
    PROVE  MarkerFit'
<1>1. <<marker, markerTmp>>[1] = marker
  OBVIOUS
<1> QED
  BY <1>1 DEF MarkerFit

\* An open that finds a marker whose directory Sync failed is counted as relying on it.
LEMMA MarkerFitStep ==
    ASSUME DirectorySync
    PROVE  Apart /\ Owned /\ MarkerFit /\ [Next]_vars => MarkerFit'
<1> SUFFICES ASSUME Apart, Owned, MarkerFit, [Next]_vars PROVE MarkerFit'
  OBVIOUS
<1> USE DEF markerVars, markerFile, catalogHistory
<1>1. CASE UNCHANGED vars \/ HandleStep
  BY <1>1, HandleStepEffect, MarkerFitKept DEF vars, catalogVars, storageVars
<1>2. CASE GroupStep
  BY <1>2, GroupStepEffect, MarkerFitKept DEF Closed
<1>3. CASE snapshotStep
  <2>1. phase \notin Closed
    BY <1>3, SnapshotStepEffect DEF snapshotStep, SnapshotKeyed, Close, snapshotRename, snapshotTruncate, snapshotSync,
                                    snapshotFails, Closed, Snapshotting
  <2> QED
    BY <1>3, <2>1, MarkerFitKept DEF snapshotStep
<1>4. CASE snapshotDirectory \/ persistSyncDirectory
  <2>1. phase \notin Closed /\ SyncedMarker(DirectorySync)
    BY <1>4 DEF snapshotDirectory, snapshotSyncDirectory, persistSyncDirectory, Apart, Closed
  <2>2. marker # "none"
    BY <2>1 DEF Owned
  <2> QED
    BY <2>1, <2>2, MarkerFitSynced DEF SyncedMarker
<1>5. CASE loadCatalog \/ loadCatalogFails \/ persistFails
  <2>1. phase \notin Closed /\ UNCHANGED markerVars
    BY <1>5 DEF loadCatalog, loadCatalogFails, persistFails, Apart, Closed
  <2>2. reliance' = "durable" => reliance = "durable"
    BY <1>5 DEF loadCatalog, loadCatalogFails, persistFails, ReliesOn
  <2> QED
    BY <2>1, <2>2, MarkerFitKept
<1>6. ASSUME NEW m \in Models, startOpen(m) PROVE MarkerFit'
  <2>1. UNCHANGED <<phase, populated, marker>> /\ phase \in Closed
    BY <1>6 DEF startOpen, inspectMarker, storageVars, MarkerChanges
  <2>2. CASE markerPhase' = "matched"
    <3>1. marker = m /\ UNCHANGED markerMedia
      BY <1>6, <2>2 DEF startOpen, inspectMarker
    <3>2. marker # "none"
      BY <3>1, CatalogAssumption
    <3>3. CASE markerMedia = {<<marker, markerTmp>>}
      BY <3>1, <3>2, <3>3, MarkerFitSynced
    <3>4. CASE markerMedia # {<<marker, markerTmp>>}
      BY <1>6, <2>2, <3>4 DEF startOpen, ReliesOn, MarkerFit
    <3> QED
      BY <3>3, <3>4
  <2>3. CASE markerPhase' = "refused"
    <3>1. UNCHANGED markerMedia
      BY <1>6, <2>3 DEF startOpen, inspectMarker
    <3>2. reliance' = "durable" => reliance = "durable"
      BY <1>6 DEF startOpen, ReliesOn
    <3> QED
      BY <2>1, <2>3, <3>1, <3>2, MarkerFitKept
  <2>4. CASE markerPhase' = "rename"
    BY <1>6, <2>1, <2>4 DEF startOpen, inspectMarker, MarkerFit
  <2> QED
    BY <1>6, <2>2, <2>3, <2>4 DEF startOpen, inspectMarker
<1>7. CASE markerStep
  <2>1. phase' \in Closed /\ populated' = FALSE /\ markerPhase' # "matched"
    <3>1. phase \in Closed /\ ~populated /\ UNCHANGED <<phase, populated>> /\ markerPhase' \in {"sync", "idle"}
      BY <1>7 DEF markerStep, renameMarker, markerFails, storageVars, Apart, Owned, Closed
    <3> QED
      BY <3>1
  <2> QED
    BY <2>1 DEF MarkerFit
<1>8. CASE markerSyncDirectory
  <2>1. marker # "none"
    BY <1>8, CatalogAssumption DEF markerSyncDirectory, syncMarker, Owned
  <2> QED
    BY <1>8, <2>1, MarkerFitSynced DEF markerSyncDirectory, syncMarker, SyncedMarker
<1>9. CASE openOther \/ \E h \in DedupeHorizons : openStore(h)
  BY <1>9, MarkerFitKept DEF openOther, openStore
<1>10. CASE createWAL \/ recoverStore
  <2>1. phase \notin Closed
    BY <1>10 DEF createWAL, recoverStore, loadKeyedSnapshot, replayKeyedWAL, replayDone, truncateKeyedTail,
                 truncateKeyedTailSync, openStorageFails, Recovering, Closed
  <2> QED
    BY <1>10, <2>1, MarkerFitKept DEF createWAL, recoverStore, catalogVars
<1>11. CASE crash
  <2>1. phase' \in Closed
    BY <1>11 DEF crash, processCrash, storageVars, Closed
  <2> QED
    BY <1>11, <2>1, MarkerFitKept DEF crash, markerCrash
<1>12. CASE losePower
  <2>1. phase' \in Closed /\ (reliance' = "durable" => reliance = "durable")
    BY <1>12 DEF losePower, powerLoss, Closed
  <2> QED
    BY <1>12, <2>1, MarkerFitKept DEF losePower, markerPowerLoss
<1> QED
  BY <1>1, <1>2, <1>3, <1>4, <1>5, <1>6, <1>7, <1>8, <1>9, <1>10, <1>11, <1>12 DEF Next, HandleStep, GroupStep

-----------------------------------------------------------------------------
(* The catalog file and the files of the store *)

\* Catalog c has the dataset of this ID under this name.
Has(c, id, name) == \E d \in c.datasets : d.id = id /\ nameOf(d) = name

\* A plain name is the only one that is spelt as it is.
LEMMA PlainName ==
    ASSUME NEW d \in Infos, NEW name \in Plain \X Plain
    PROVE  speltName(nameOf(d)) = speltName(name) <=> nameOf(d) = name
<1>1. PICK p \in Plain, q \in Plain : name = <<p, q>>
  OBVIOUS
<1>2. jsonName[p] = p /\ jsonName[q] = q /\ \A m \in Names : (jsonName[m] = p => m = p) /\ (jsonName[m] = q => m = q)
  BY DEF Plain
<1>3. d.bucket \in Names /\ d.name \in Names
  BY DEF Infos
<1> QED
  BY <1>1, <1>2, <1>3 DEF speltName, nameOf

\* A catalog file has the datasets with plain names that the catalog has, and no others.
LEMMA HasDecoded ==
    ASSUME NEW c \in Catalogs, NEW id, NEW name \in Plain \X Plain
    PROVE  Has(decoded(c), id, name) <=> Has(c, id, name)
<1>1. c.datasets \subseteq Infos
  BY DEF Catalogs
<1>2. ASSUME NEW d \in c.datasets PROVE spelt(d).id = d.id /\ (nameOf(spelt(d)) = name <=> nameOf(d) = name)
  BY <1>1, SpeltInfo, PlainName
<1>3. ASSUME Has(c, id, name) PROVE Has(decoded(c), id, name)
  <2>1. PICK d \in c.datasets : d.id = id /\ nameOf(d) = name
    BY <1>3 DEF Has
  <2>2. spelt(d) \in decoded(c).datasets
    BY <2>1, PlainStays
  <2> QED
    BY <1>2, <2>1, <2>2 DEF Has
<1>4. ASSUME Has(decoded(c), id, name) PROVE Has(c, id, name)
  <2>1. PICK d \in unmarshalled(c) : spelt(d).id = id /\ nameOf(spelt(d)) = name
    BY <1>4, DecodedIs DEF Has
  <2> QED
    BY <1>2, <2>1, DecodedIs DEF Has
<1> QED
  BY <1>3, <1>4

\* OpenCatalog can use catalog c with these records, which were written under the names in
\* own; with the snapshot s; and with the WAL frames.
Fit(c, own, ks) == \A k \in ks \cap Keys : own[k.id] \in Plain \X Plain => Has(c, k.id, own[k.id])
FitSnap(c, own, s) == Fit(c, own, Live(s.records)) /\ (c = NoCatalog => s.sequence = 0)
FitFrames(c, own, frames) ==
    /\ \A i \in DOMAIN frames : Fit(c, own, DOMAIN frames[i].writes)
    /\ c = NoCatalog => frames = <<>>
Fits(c) == (\A s \in snapMedia : FitSnap(c, owner, s)) /\ \A w \in walMedia : FitFrames(c, owner, w.frames)

\* The catalog file fits every state of the store's files, and so does whatever power loss
\* may leave in its place.
FilesFit ==
    /\ reliance # "lost" => Fits(catFile)
    /\ reliance = "durable" => \A c \in catMedia : Fits(c)
\* What a handle is about to write fits too.
HandleFit ==
    /\ HasHandle /\ ~poisoned => catalog.id # 0 /\ (reliance = "durable" => catMedia = {catFile})
    /\ catPhase \in {"rename", "sync"} =>
         /\ next.id # 0
         /\ op # "create" => catalog.datasets \subseteq next.datasets

\* A dataset ID gets an owner by a command of a healthy handle, which has that dataset.
LEMMA OwnerEffect ==
    ASSUME Apart, [Next]_vars, NEW id \in DatasetIDs
    PROVE  \/ owner'[id] = owner[id]
           \/ HasHandle /\ ~poisoned /\ Has(catalog, id, owner'[id])
<1>1. ASSUME NEW c, NEW applied, NEW w, Mutate(c, applied, w)
      PROVE  owner'[id] = owner[id] \/ (HasHandle /\ ~poisoned /\ Has(catalog, id, owner'[id]))
  <2>1. HasHandle /\ ~poisoned
    BY <1>1 DEF Mutate, stage, Executes, Apart, Closed, Recovering, HasHandle
  <2>2. owner'[id] = IF applied /\ \E k \in DOMAIN w : k.id = id
                     THEN nameOf(CHOOSE d \in catalog.datasets : d.id = id) ELSE owner[id]
    BY <1>1 DEF Mutate
  <2>3. CASE applied /\ \E k \in DOMAIN w : k.id = id
    <3>1. \E d \in catalog.datasets : d.id = id
      BY <1>1, <2>3 DEF Mutate, PermittedWrites
    <3>2. PICK d \in catalog.datasets : d.id = id /\ d = CHOOSE e \in catalog.datasets : e.id = id
      BY <3>1
    <3> QED
      BY <2>1, <2>2, <2>3, <3>2 DEF Has
  <2> QED
    BY <2>2, <2>3
<1>2. CASE UNCHANGED owner
  BY <1>2
<1>3. CASE UNCHANGED vars \/ HandleStep \/ beginCommands \/ commitStep
  BY <1>2, <1>3, HandleStepEffect DEF vars, catalogVars, catalogHistory, beginCommands, commitStep
<1>4. ASSUME NEW c, NEW applied, NEW w, MutateFails(c, applied, w) PROVE UNCHANGED owner
  BY <1>4 DEF MutateFails, catalogVars, catalogHistory
<1>5. CASE OpenStep
  BY <1>2, <1>5 DEF OpenStep, startOpen, markerStep, markerSyncDirectory, openOther, openStore, createWAL, recoverStore,
                    loadCatalogFails, crash, losePower, catalogVars, catalogHistory
<1>6. CASE snapshotStep \/ snapshotDirectory \/ loadCatalog \/ persistSyncDirectory \/ persistFails
  BY <1>2, <1>6 DEF snapshotStep, snapshotDirectory, loadCatalog, persistSyncDirectory, persistFails, catalogHistory
<1> QED
  BY <1>1, <1>2, <1>3, <1>4, <1>5, <1>6 DEF Next, HandleStep, GroupStep, OpenStep

\* What a step may add to the states of the two files: a snapshot of memory, an empty WAL,
\* or one more frame, with the writes of a callback that the catalog permitted.
LEMMA FilesEffect ==
    ASSUME StoreFacts, Apart, [Next]_vars
    PROVE  /\ \A s \in snapMedia' : s \in snapMedia \/ (s = mem /\ HasHandle /\ ~poisoned)
           /\ \A w \in walMedia' :
                \/ w.frames = <<>>
                \/ \E v \in walMedia : v.frames = w.frames
                \/ /\ HasHandle /\ ~poisoned
                   /\ \E r \in Record : (\A k \in DOMAIN r.writes : Has(catalog, k.id, owner'[k.id]))
                                        /\ w.frames = Append(wal.frames, r)
<1> USE DEF HasHandle
<1>1. wal \in walMedia /\ snap \in snapMedia /\ EmptyFile.frames = <<>>
  BY DEF StoreFacts, EmptyFile
<1>2. CutTail(wal).frames = wal.frames /\ Tear(wal).frames = wal.frames
  BY DEF CutTail, Tear
<1>3. CASE UNCHANGED files
  BY <1>3 DEF files
<1>4. CASE walMedia' \subseteq walMedia \cup {CutTail(wal), Tear(wal), EmptyFile} /\ snapMedia' \subseteq snapMedia
  BY <1>1, <1>2, <1>4
<1>5. CASE UNCHANGED vars \/ HandleStep
  BY <1>3, <1>5, HandleStepEffect DEF vars, storageVars, files
<1>6. CASE GroupStep
  <2>1. ASSUME NEW c \in CommandIDs, NEW applied \in BOOLEAN, NEW x \in Writes \cup {NoWrites}, Mutate(c, applied, x),
               applied => x \in Writes
        PROVE  /\ snapMedia' = snapMedia /\ HasHandle /\ ~poisoned
               /\ \A w \in walMedia' :
                    \/ \E v \in walMedia : v.frames = w.frames
                    \/ \E r \in Record : (\A k \in DOMAIN r.writes : Has(catalog, k.id, owner'[k.id]))
                                         /\ w.frames = Append(wal.frames, r)
    <3> DEFINE r == NewRecord(c, applied, x)
    <3>1. r \in Record
      BY <2>1 DEF Record, NewRecord, StoreFacts, TypeOK, State
    <3>2. ASSUME NEW k \in DOMAIN r.writes PROVE Has(catalog, k.id, owner'[k.id])
      <4>1. applied /\ k \in DOMAIN x
        BY <3>2 DEF NewRecord, NoWrites
      <4>2. k.id \in DatasetIDs
        BY <2>1, <4>1, StorageAssumption DEF DatasetIDs
      <4>3. PICK d \in catalog.datasets : d.id = k.id /\ d = CHOOSE e \in catalog.datasets : e.id = k.id
        BY <2>1, <4>1 DEF Mutate, PermittedWrites
      <4>4. owner'[k.id] = nameOf(CHOOSE e \in catalog.datasets : e.id = k.id)
        BY <2>1, <4>1, <4>2 DEF Mutate
      <4> QED
        BY <4>3, <4>4 DEF Has
    <3>3. stage(c, applied, x) /\ ~poisoned /\ phase = "group"
      BY <2>1 DEF Mutate, stage, Executes
    <3>4. HasHandle
      BY <3>3 DEF Apart, Closed, Recovering
    <3>5. WriteFrame(wal, r).frames \in {wal.frames, Append(wal.frames, r)}
      BY DEF WriteFrame
    <3>6. walMedia' = walMedia \cup {WriteFrame(wal, r), Tear(wal)} /\ snapMedia' = snapMedia
      BY <3>3 DEF stage
    <3> HIDE DEF r
    <3> QED
      BY <1>1, <1>2, <3>1, <3>2, <3>3, <3>4, <3>5, <3>6
  <2>2. ASSUME NEW c, NEW applied, NEW w, MutateFails(c, applied, w)
        PROVE  walMedia' \subseteq walMedia \cup {Tear(wal)} /\ snapMedia' \subseteq snapMedia
    BY <1>1, <2>2 DEF MutateFails, stageFails
  <2>3. CASE beginCommands \/ commitStep
    BY <1>1, <1>4, <2>3 DEF beginCommands, beginGroup, commitStep, retry, syncKeyed, syncKeyedFails, skipSync, reply, files
  <2> QED
    BY <1>4, <1>6, <2>1, <2>2, <2>3 DEF GroupStep
<1>7. CASE OpenStep
  <2>1. CASE (\E m \in Models : startOpen(m)) \/ markerStep \/ openOther \/ (\E h \in DedupeHorizons : openStore(h))
             \/ createWAL \/ loadCatalogFails \/ crash
    BY <1>3, <2>1 DEF startOpen, markerStep, openOther, openStore, openKeyed, createWAL, loadKeyedSnapshot, loadCatalogFails,
                      CatalogRefused, crash, processCrash, storageVars, files
  <2>2. CASE markerSyncDirectory \/ recoverStore \/ losePower
    BY <1>1, <1>4, <2>2 DEF markerSyncDirectory, DirectoryDurable, recoverStore, replayKeyedWAL, replayDone, truncateKeyedTail,
                            truncateKeyedTailSync, openStorageFails, losePower, powerLoss, files
  <2> QED
    BY <1>7, <2>1, <2>2 DEF OpenStep
<1>8. CASE snapshotStep \/ snapshotDirectory
  <2>1. CASE snapshotStep /\ snapshotRename
    BY <2>1 DEF snapshotStep, snapshotRename, StoreFacts
  <2>2. CASE (snapshotStep /\ ~snapshotRename) \/ snapshotDirectory
    BY <1>1, <1>4, <2>2 DEF snapshotStep, SnapshotKeyed, Close, snapshotTruncate, snapshotSync, snapshotFails,
                            snapshotDirectory, snapshotSyncDirectory, files
  <2> QED
    BY <1>8, <2>1, <2>2
<1>9. CASE loadCatalog \/ persistFails
  <2>1. UNCHANGED files
    BY <1>9 DEF loadCatalog, CatalogRefused, HandleReady, persistFails, storageVars, files
  <2> QED
    BY <1>3, <2>1
<1>10. CASE persistSyncDirectory
  <2>1. UNCHANGED walMedia /\ snapMedia' \subseteq snapMedia
    BY <1>1, <1>10 DEF persistSyncDirectory, DirectoryDurable
  <2> QED
    BY <1>4, <2>1
<1> QED
  BY <1>5, <1>6, <1>7, <1>8, <1>9, <1>10 DEF Next, HandleStep, GroupStep, OpenStep

\* A catalog that fits, and is the one of a handle that writes, fits after the step.
LEMMA FitsAfter ==
    ASSUME StoreFacts, Apart, CatalogTypes, Current, HandleFit, RecordsStayInTheirDataset, [Next]_vars,
           NEW c, Fits(c), c = catFile \/ (reliance = "durable" /\ c \in catMedia)
    PROVE  /\ \A s \in snapMedia' : FitSnap(c, owner', s)
           /\ \A w \in walMedia' : FitFrames(c, owner', w.frames)
<1>1. wal \in walMedia /\ wal.frames \in Seq(Record)
  BY DEF StoreFacts, TypeOK, File
<1>2. ASSUME HasHandle, ~poisoned PROVE c = decoded(catalog) /\ c # NoCatalog
  <2>1. catFile = decoded(catalog)
    BY <1>2 DEF Current, CatalogCurrent
  <2>2. catalog.id # 0 /\ c = catFile
    BY <1>2 DEF HandleFit
  <2>3. NoCatalog.id = 0 /\ decoded(catalog).id = catalog.id
    BY DecodedIs DEF NoCatalog, CatalogTypes
  <2> QED
    BY <2>1, <2>2, <2>3
<1>3. ASSUME NEW ks, Fit(c, owner, ks) PROVE Fit(c, owner', ks)
  <2> SUFFICES ASSUME NEW k \in ks \cap Keys, owner'[k.id] \in Plain \X Plain PROVE Has(c, k.id, owner'[k.id])
    BY DEF Fit
  <2>1. k.id \in DatasetIDs
    BY DEF DatasetIDs
  <2>2. CASE owner'[k.id] = owner[k.id]
    BY <1>3, <2>2 DEF Fit
  <2>3. CASE HasHandle /\ ~poisoned /\ Has(catalog, k.id, owner'[k.id])
    BY <1>2, <2>3, HasDecoded DEF CatalogTypes
  <2> QED
    BY <2>1, <2>2, <2>3, OwnerEffect
<1>4. ASSUME HasHandle, ~poisoned PROVE Fit(c, owner, Live(mem.records))
  <2> SUFFICES ASSUME NEW k \in Live(mem.records), owner[k.id] \in Plain \X Plain PROVE Has(c, k.id, owner[k.id])
    BY DEF Fit
  <2>1. {speltName(nameOf(d)) : d \in {e \in catalog.datasets : e.id = k.id}} = {speltName(owner[k.id])}
    BY <1>4 DEF RecordsStayInTheirDataset
  <2>2. PICK d \in catalog.datasets : d.id = k.id /\ speltName(nameOf(d)) = speltName(owner[k.id])
    BY <2>1
  <2>3. d \in Infos
    BY DEF CatalogTypes, Catalogs
  <2>4. Has(catalog, k.id, owner[k.id])
    BY <2>2, <2>3, PlainName DEF Has
  <2> QED
    BY <1>2, <1>4, <2>4, HasDecoded DEF CatalogTypes
<1>5. ASSUME NEW s \in snapMedia' PROVE FitSnap(c, owner', s)
  <2>1. CASE s \in snapMedia
    BY <1>3, <2>1 DEF Fits, FitSnap
  <2>2. CASE s = mem /\ HasHandle /\ ~poisoned
    BY <1>2, <1>3, <1>4, <2>2 DEF FitSnap
  <2> QED
    BY <2>1, <2>2, FilesEffect
<1>6. ASSUME NEW w \in walMedia' PROVE FitFrames(c, owner', w.frames)
  <2>1. CASE w.frames = <<>>
    BY <2>1 DEF FitFrames
  <2>2. CASE \E v \in walMedia : v.frames = w.frames
    <3>1. FitFrames(c, owner, w.frames)
      BY <2>2 DEF Fits
    <3> QED
      BY <1>3, <3>1 DEF FitFrames
  <2>3. ASSUME HasHandle /\ ~poisoned, NEW r \in Record, w.frames = Append(wal.frames, r),
               \A k \in DOMAIN r.writes : Has(catalog, k.id, owner'[k.id])
        PROVE  FitFrames(c, owner', w.frames)
    <3>1. Fit(c, owner', DOMAIN r.writes) /\ c # NoCatalog
      BY <1>2, <2>3, HasDecoded DEF Fit, CatalogTypes
    <3>2. \A i \in DOMAIN wal.frames : Fit(c, owner', DOMAIN wal.frames[i].writes)
      BY <1>1, <1>3 DEF Fits, FitFrames
    <3>3. /\ DOMAIN w.frames = 1..(Len(wal.frames) + 1) /\ DOMAIN wal.frames = 1..Len(wal.frames) /\ Len(wal.frames) \in Nat
          /\ \A i \in 1..Len(wal.frames) : w.frames[i] = wal.frames[i]
          /\ w.frames[Len(wal.frames) + 1] = r
      BY <1>1, <2>3
    <3>4. ASSUME NEW i \in DOMAIN w.frames PROVE Fit(c, owner', DOMAIN w.frames[i].writes)
      <4>1. i \in DOMAIN wal.frames \/ i = Len(wal.frames) + 1
        BY <3>3
      <4> QED
        BY <3>1, <3>2, <3>3, <4>1
    <3> QED
      BY <3>1, <3>4 DEF FitFrames
  <2> QED
    BY <2>1, <2>2, <2>3, FilesEffect
<1> QED
  BY <1>5, <1>6

\* What a step does to the catalog file.
LEMMA CatalogFileEffect ==
    ASSUME DirectorySync, [Next]_vars
    PROVE  \/ persistRename \/ losePower
           \/ /\ UNCHANGED catFile /\ (reliance' # "lost" => reliance # "lost")
              /\ reliance' = "durable" => (reliance = "durable" /\ catMedia' = catMedia) \/ catMedia' = {catFile}
BY DEF Next, vars, catalogVars, catalogFile, catalogHistory, startOpen, ReliesOn, markerStep, markerSyncDirectory,
       DirectoryDurable, openOther, openStore, createWAL, recoverStore, loadCatalog, loadCatalogFails, Bucket,
       createDataset, persistSyncDirectory, persistFails, beginCommands, Mutate, MutateFails, commitStep,
       beginScan, visit, endScan, snapshotStep, snapshotDirectory, crash

\* Files fit together after every step.
LEMMA FilesFitStep ==
    ASSUME DirectorySync
    PROVE  /\ StoreFacts /\ Apart /\ Current /\ CatalogTypes /\ HandleFit /\ FilesFit
           /\ RecordsStayInTheirDataset /\ [Next]_vars
           => FilesFit'
<1> SUFFICES ASSUME StoreFacts, Apart, Current, CatalogTypes, HandleFit, FilesFit, RecordsStayInTheirDataset, [Next]_vars
             PROVE  FilesFit'
  OBVIOUS
<1> DEFINE After(c) == /\ \A s \in snapMedia' : FitSnap(c, owner', s)
                       /\ \A w \in walMedia' : FitFrames(c, owner', w.frames)
<1>1. reliance # "lost" => After(catFile)
  BY FitsAfter DEF FilesFit
<1>2. reliance = "durable" => \A c \in catMedia : After(c)
  BY FitsAfter DEF FilesFit
<1>3. ASSUME reliance' # "lost" => After(catFile'), reliance' = "durable" => \A c \in catMedia' : After(c)
      PROVE  FilesFit'
  BY <1>3 DEF FilesFit, Fits
<1> HIDE DEF After
<1>4. CASE persistRename
  <2>1. /\ catPhase = "rename" /\ catFile' = decoded(next) /\ catMedia' = catMedia \cup {decoded(next)} /\ UNCHANGED reliance
        /\ catFile = IF op = "create" THEN NoCatalog ELSE decoded(catalog)
    BY <1>4 DEF persistRename, catalogHistory, Current
  <2>2. decoded(next) # NoCatalog
    BY <2>1, DecodedIs DEF HandleFit, NoCatalog, CatalogTypes
  <2>3. ASSUME NEW id, NEW name \in Plain \X Plain, Has(catFile, id, name) PROVE Has(decoded(next), id, name)
    <3>1. catFile = decoded(catalog) /\ catalog.datasets \subseteq next.datasets
      BY <2>1, <2>3 DEF HandleFit, Has, NoCatalog
    <3>2. Has(catalog, id, name)
      BY <2>3, <3>1, HasDecoded DEF CatalogTypes
    <3>3. Has(next, id, name)
      BY <3>1, <3>2 DEF Has
    <3> QED
      BY <3>3, HasDecoded DEF CatalogTypes
  <2>4. ASSUME NEW ks, Fit(catFile, owner', ks) PROVE Fit(decoded(next), owner', ks)
    BY <2>3, <2>4 DEF Fit
  <2>5. ASSUME After(catFile) PROVE After(decoded(next))
    <3>1. \A s \in snapMedia' : FitSnap(decoded(next), owner', s)
      BY <2>2, <2>4, <2>5 DEF After, FitSnap
    <3>2. \A w \in walMedia' : FitFrames(decoded(next), owner', w.frames)
      BY <2>2, <2>4, <2>5 DEF After, FitFrames
    <3> QED
      BY <3>1, <3>2 DEF After
  <2> QED
    BY <1>1, <1>2, <1>3, <2>1, <2>5
<1>5. CASE losePower
  <2>1. catFile' \in catMedia /\ catMedia' = {catFile'} /\ reliance' = IF reliance = "exposed" THEN "lost" ELSE reliance
    BY <1>5 DEF losePower
  <2> QED
    BY <1>2, <1>3, <2>1 DEF CatalogTypes
<1>6. CASE /\ UNCHANGED catFile /\ (reliance' # "lost" => reliance # "lost")
           /\ reliance' = "durable" => (reliance = "durable" /\ catMedia' = catMedia) \/ catMedia' = {catFile}
  BY <1>1, <1>2, <1>3, <1>6
<1> QED
  BY <1>4, <1>5, <1>6, CatalogFileEffect

\* A healthy handle has an identity and a durable file, and what it writes only adds.
LEMMA HandleFitStep ==
    ASSUME DirectorySync
    PROVE  Apart /\ Current /\ CatalogTypes /\ HandleFit /\ [Next]_vars => HandleFit'
<1> SUFFICES ASSUME Apart, Current, CatalogTypes, HandleFit, [Next]_vars PROVE HandleFit'
  OBVIOUS
<1> USE DEF HasHandle
<1>1. ASSUME catPhase' \in Outcomes \cup {"opening"} PROVE HandleFit'
  BY <1>1 DEF Outcomes, HandleFit
<1>2. ASSUME UNCHANGED <<catalog, catPhase, op, next, catFile>>, poisoned => poisoned',
             ~poisoned' /\ reliance' = "durable" => catMedia' = {catFile} \/ (catMedia' = catMedia /\ reliance = "durable")
      PROVE  HandleFit'
  BY <1>2 DEF HandleFit
<1>3. CASE UNCHANGED vars
  BY <1>2, <1>3 DEF vars, storageVars, catalogVars, handleVars, catalogFile, catalogHistory
<1>4. CASE HandleStep
  <2>1. UNCHANGED <<poisoned, catalog, reliance>>
    BY <1>4, HandleStepEffect DEF storageVars, catalogHistory
  <2>2. CASE (\E b \in Buckets : Bucket(b)) \/ \E r \in Requests : createDataset(r.name, r.options)
    <3>1. HasHandle /\ ~poisoned
      BY <2>2 DEF Bucket, createDataset, Admitted
    <3>2. catPhase' = "rename" /\ next'.id = catalog.id /\ catalog.datasets \subseteq next'.datasets
      BY <2>2, StructuralAdds
    <3> QED
      BY <2>1, <3>1, <3>2 DEF HandleFit
  <2>3. CASE persistRename
    BY <2>1, <2>3 DEF persistRename, HandleFit
  <2>4. CASE (\E d \in catalog.datasets : beginScan(d)) \/ visit \/ endScan
    <3>1. UNCHANGED <<catFile, catMedia>> /\ HasHandle /\ catPhase' \in {"ready", "scan"}
      BY <2>4 DEF beginScan, visit, endScan, Admitted, catalogFile
    <3> QED
      BY <2>1, <3>1 DEF HandleFit
  <2> QED
    BY <1>4, <2>2, <2>3, <2>4 DEF HandleStep
<1>5. CASE GroupStep
  BY <1>2, <1>5, GroupStepEffect DEF catalogFile
<1>6. CASE OpenStep
  BY <1>1, <1>6, OpenStepEffect
<1>7. CASE snapshotStep \/ snapshotDirectory
  <2>1. CASE catPhase' = "closed"
    BY <1>1, <2>1 DEF Outcomes
  <2>2. CASE UNCHANGED handleVars /\ (poisoned => poisoned')
    <3>1. UNCHANGED catFile /\ (reliance' = "durable" => catMedia' = {catFile} \/ (catMedia' = catMedia /\ reliance = "durable"))
      BY <1>7 DEF snapshotStep, snapshotDirectory, DirectoryDurable, catalogFile, catalogHistory
    <3> QED
      BY <1>2, <2>2, <3>1 DEF handleVars
  <2> QED
    BY <1>7, <2>1, <2>2, SnapshotStepEffect
<1>8. CASE loadCatalog
  <2>1. CASE catPhase' \in Outcomes
    BY <1>1, <2>1
  <2>2. CASE catPhase' = "rename" /\ op' = "create" /\ next' = NewCatalog
    <3>1. NewCatalog.id # 0
      BY <1>8, LoadEffect DEF NewCatalog, CatalogTypes, Closed
    <3> QED
      BY <2>2, <3>1 DEF HandleFit
  <2>3. CASE /\ catPhase' = "ready" /\ catalog' = catFile /\ validateCatalogState(catFile, mem.records) = "ready"
             /\ ReliesOn(catMedia # {catFile})
    <3>1. catFile.id # 0
      BY <2>3 DEF validateCatalogState
    <3>2. UNCHANGED <<catFile, catMedia>> /\ (reliance' = "durable" => catMedia = {catFile})
      BY <1>8, <2>3, LoadEffect DEF ReliesOn
    <3> QED
      BY <2>3, <3>1, <3>2 DEF HandleFit
  <2> QED
    BY <1>8, <2>1, <2>2, <2>3, LoadEffect
<1>9. CASE persistSyncDirectory
  <2>1. /\ catPhase = "sync" /\ catPhase' = "ready" /\ catalog' = next /\ catMedia' = {catFile}
        /\ UNCHANGED catFile
    BY <1>9 DEF persistSyncDirectory, StructuralReturn, HandleReady, DirectoryDurable
  <2> QED
    BY <2>1 DEF HandleFit
<1>10. CASE persistFails
  BY <1>1, <1>10 DEF persistFails, CatalogRefused, DropHandle, Outcomes, HandleFit
<1> QED
  BY <1>3, <1>4, <1>5, <1>6, <1>7, <1>8, <1>9, <1>10 DEF Next, HandleStep, GroupStep, OpenStep

-----------------------------------------------------------------------------
(* Datasets and the room in them *)

\* Counting the empty set: its fixed point exists, and is 0 there.
LEMMA NoneCounted == Cardinality({}) = 0
<1> DEFINE Counts(f) == f = [T \in SUBSET {} |-> IF T = {} THEN 0 ELSE 1 + f[T \ {CHOOSE x : x \in T}]]
           zero == [T \in SUBSET {} |-> 0]
           c == CHOOSE f : Counts(f)
<1>1. Counts(zero)
  OBVIOUS
<1>2. Counts(c)
  <2> HIDE DEF Counts, zero
  <2> QED
    BY <1>1, Zenon
<1>3. c[{}] = 0
  <2> HIDE DEF c
  <2> QED
    BY <1>2
<1>4. Cardinality({}) = c[{}]
  BY DEF Cardinality
<1> QED
  BY <1>3, <1>4

\* IDs are used once in a catalog, and the next one is free.
Sound(c) ==
    /\ \A d \in c.datasets : d.id < c.nextID
    /\ \A d, e \in c.datasets : d.id = e.id => d = e

\* Two entries of one dataset, as far as its ID and the spelling of its name tell.
Same(d, e) == d.id = e.id /\ speltName(nameOf(d)) = speltName(nameOf(e))

\* The catalogs that a handle has, is about to write, or may find after power loss.
Serves == HasHandle \/ (catPhase \in {"rename", "sync"} /\ op # "create")
Held ==
    catMedia \cup {c \in {catalog} : Serves} \cup {c \in {next} : catPhase \in {"rename", "sync"}}

\* They give an ID to one name only, and IDs are handed out upwards.
Chained ==
    /\ catFile \in catMedia
    /\ \A c \in Held : Sound(c)
    /\ \A c1, c2 \in Held : \A d \in c1.datasets, e \in c2.datasets : d.id = e.id => Same(d, e)
    /\ \A c \in catMedia : c.nextID <= catFile.nextID
    /\ Serves => catalog.nextID <= catFile.nextID
    /\ catPhase \in {"rename", "sync"} => catFile.nextID <= next.nextID

\* Catalog c has a dataset for each of these records.
Named(c, ks) == \A k \in ks : \E d \in c.datasets : d.id = k.id

\* The records in memory have their datasets, within bounds.
Room(c) == Named(c, Live(mem.records)) /\ WithinBounds(c, mem.records)
Roomy ==
    /\ Serves => Room(catalog)
    /\ catPhase \in {"rename", "sync"} => Room(next)

\* A handle works, or is about to.
Working == catPhase \in {"ready", "scan", "rename", "sync"}

\* What a step does to the catalog file and what power loss may leave of it.
LEMMA CatalogMediaEffect ==
    ASSUME DirectorySync, [Next]_vars
    PROVE  persistRename \/ losePower \/ (UNCHANGED catFile /\ catMedia' \in {catMedia, {catFile}})
BY DEF Next, vars, catalogVars, catalogFile, startOpen, markerStep, markerSyncDirectory,
       DirectoryDurable, openOther, openStore, createWAL, recoverStore, loadCatalog, loadCatalogFails, Bucket,
       createDataset, persistSyncDirectory, persistFails, beginCommands, Mutate, MutateFails, commitStep,
       beginScan, visit, endScan, snapshotStep, snapshotDirectory, crash

\* A structural call works on a copy of the catalog in the file; a new dataset gets a new ID.
LEMMA NextSound ==
    ASSUME CatalogTypes, Sound(catalog),
           (\E b \in Buckets : Bucket(b)) \/ \E r \in Requests : createDataset(r.name, r.options)
    PROVE  /\ Sound(next') /\ next'.nextID \in {catalog.nextID, catalog.nextID + 1}
           /\ \A d \in next'.datasets : d \in catalog.datasets \/ (d.id = catalog.nextID /\ d.options.maxRecords \in Nat)
<1>1. CASE \E b \in Buckets : Bucket(b)
  <2>1. next'.datasets = catalog.datasets /\ next'.nextID = catalog.nextID
    BY <1>1 DEF Bucket, CatalogTypes, Catalogs
  <2> QED
    BY <2>1 DEF Sound
<1>2. CASE \E r \in Requests : createDataset(r.name, r.options)
  <2>1. PICK r \in Requests : createDataset(r.name, r.options)
    BY <1>2
  <2>2. PICK d : d = [bucket |-> r.name[1], name |-> r.name[2], id |-> catalog.nextID, options |-> r.options]
    OBVIOUS
  <2>3. next' = [catalog EXCEPT !.nextID = @ + 1, !.datasets = @ \cup {d}]
    BY <2>1, <2>2 DEF createDataset
  <2>4. /\ next'.datasets = catalog.datasets \cup {d} /\ next'.nextID = catalog.nextID + 1
        /\ catalog.nextID \in Nat /\ \A e \in catalog.datasets : e.id \in Nat
    BY <2>3 DEF CatalogTypes, Catalogs, Infos
  <2>5. d.id = catalog.nextID /\ d.options.maxRecords \in Nat
    BY <2>2, CatalogAssumption
  <2>6. \A e \in catalog.datasets : e.id < catalog.nextID
    BY DEF Sound
  <2>7. \A e \in next'.datasets : e.id < next'.nextID
    BY <2>4, <2>5, <2>6
  <2>8. ASSUME NEW e \in next'.datasets, NEW f \in next'.datasets, e.id = f.id PROVE e = f
    BY <2>4, <2>5, <2>6, <2>8 DEF Sound
  <2> QED
    BY <2>4, <2>5, <2>7, <2>8 DEF Sound
<1> QED
  BY <1>1, <1>2

\* The calls that add to the catalog.
Structural == (\E b \in Buckets : Bucket(b)) \/ \E r \in Requests : createDataset(r.name, r.options)

\* Where the catalogs after a step come from.
LEMMA HeldEffect ==
    ASSUME DirectorySync, Apart, catFile \in catMedia, [Next]_vars, NEW c \in Held'
    PROVE  \/ c \in Held
           \/ persistRename /\ c = decoded(next)
           \/ Structural /\ c = next'
           \/ loadCatalog /\ c = NewCatalog /\ catFile = NoCatalog
<1> USE DEF HasHandle
<1>1. c \in catMedia' \/ (c = catalog' /\ Serves') \/ (c = next' /\ catPhase' \in {"rename", "sync"})
  BY DEF Held
<1>2. c \in catMedia' => c \in catMedia \/ (persistRename /\ c = decoded(next))
  BY CatalogMediaEffect DEF persistRename, losePower
<1>3. catMedia \subseteq Held
  BY DEF Held
<1>4. ASSUME catPhase' \in Outcomes \cup {"opening"} PROVE c \in Held \/ (persistRename /\ c = decoded(next))
  BY <1>1, <1>2, <1>3, <1>4 DEF Outcomes, Serves
<1>5. ASSUME UNCHANGED <<catalog, catPhase, op, next>> PROVE c \in Held \/ (persistRename /\ c = decoded(next))
  BY <1>1, <1>2, <1>3, <1>5 DEF Held, Serves
<1>6. ASSUME HasHandle', catalog' \in Held PROVE c \in Held \/ (persistRename /\ c = decoded(next))
  BY <1>1, <1>2, <1>3, <1>6
<1>7. CASE UNCHANGED vars
  BY <1>5, <1>7 DEF vars, catalogVars, handleVars
<1>8. CASE HandleStep
  <2>1. UNCHANGED catalog
    BY <1>8, HandleStepEffect
  <2>2. CASE Structural
    <3>1. HasHandle
      BY <2>2 DEF Structural, Bucket, createDataset, Admitted
    <3>2. catalog \in Held
      BY <3>1 DEF Held, Serves
    <3> QED
      BY <1>1, <1>2, <1>3, <2>1, <2>2, <3>2
  <2>3. CASE persistRename
    <3>1. catPhase = "rename" /\ catPhase' = "sync" /\ UNCHANGED <<op, next>>
      BY <2>3 DEF persistRename
    <3> QED
      BY <1>1, <1>2, <1>3, <2>1, <3>1 DEF Held, Serves
  <2>4. CASE (\E d \in catalog.datasets : beginScan(d)) \/ visit \/ endScan
    <3>1. HasHandle /\ HasHandle'
      BY <2>4 DEF beginScan, visit, endScan, Admitted
    <3> QED
      BY <1>6, <2>1, <3>1 DEF Held, Serves
  <2> QED
    BY <1>8, <2>2, <2>3, <2>4 DEF HandleStep, Structural
<1>9. CASE GroupStep
  BY <1>5, <1>9, GroupStepEffect
<1>10. CASE OpenStep
  BY <1>4, <1>10, OpenStepEffect
<1>11. CASE snapshotStep \/ snapshotDirectory
  BY <1>4, <1>5, <1>11, SnapshotStepEffect DEF Outcomes, handleVars
<1>12. CASE loadCatalog
  <2>1. CASE catPhase' = "rename" /\ op' = "create" /\ next' = NewCatalog /\ catFile = NoCatalog
    BY <1>1, <1>2, <1>3, <1>12, <2>1 DEF Serves
  <2> QED
    BY <1>3, <1>4, <1>6, <1>12, <2>1, LoadEffect
<1>13. CASE persistSyncDirectory
  <2>1. catPhase = "sync" /\ catPhase' = "ready" /\ catalog' = next
    BY <1>13 DEF persistSyncDirectory, StructuralReturn, HandleReady
  <2> QED
    BY <1>6, <2>1 DEF Held
<1>14. CASE persistFails
  <2>1. CASE op = "create"
    BY <1>4, <1>14, <2>1 DEF persistFails, CatalogRefused, DropHandle, Outcomes
  <2>2. CASE op # "create"
    BY <1>6, <1>14, <2>2 DEF persistFails, Held, Serves
  <2> QED
    BY <2>1, <2>2
<1> QED
  BY <1>7, <1>8, <1>9, <1>10, <1>11, <1>12, <1>13, <1>14 DEF Next, HandleStep, GroupStep, OpenStep

\* A structural call starts from the catalog in the file, and nothing reaches above it.
LEMMA StructuralStart ==
    ASSUME CatalogTypes, Current, Chained, Structural
    PROVE  /\ HasHandle /\ ~poisoned /\ catalog \in Held /\ Sound(catalog) /\ catalog.nextID = catFile.nextID
           /\ \A c \in Held : c.nextID <= catFile.nextID
<1>1. catPhase = "ready" /\ HasHandle /\ ~poisoned
  BY DEF Structural, Bucket, createDataset, Admitted, HasHandle
<1>2. catalog \in Held /\ \A c \in Held : c \in catMedia \/ c = catalog
  BY <1>1 DEF Held, Serves
<1>3. catFile = decoded(catalog)
  BY <1>1 DEF Current, CatalogCurrent
<1>4. catalog.nextID = catFile.nextID
  BY <1>3, DecodedIs DEF CatalogTypes
<1> QED
  BY <1>1, <1>2, <1>4 DEF Chained, Serves

\* A catalog file is as sound as the catalog it is written from, and has no other datasets.
LEMMA DecodedSound ==
    ASSUME NEW c \in Catalogs, Sound(c)
    PROVE  Sound(decoded(c)) /\ \A d \in decoded(c).datasets : \E e \in c.datasets : Same(d, e)
<1>1. c.datasets \subseteq Infos /\ unmarshalled(c) \subseteq c.datasets /\ decoded(c).nextID = c.nextID
  BY DecodedIs DEF Catalogs
<1>2. \A e \in unmarshalled(c) : spelt(e).id = e.id /\ Same(spelt(e), e)
  BY <1>1, SpeltInfo DEF Same
<1>3. \A d \in decoded(c).datasets : \E e \in unmarshalled(c) : d = spelt(e)
  BY DecodedIs
<1>4. \A d \in decoded(c).datasets : d.id < decoded(c).nextID
  BY <1>1, <1>2, <1>3 DEF Sound
<1>5. ASSUME NEW d \in decoded(c).datasets, NEW e \in decoded(c).datasets, d.id = e.id PROVE d = e
  <2>1. PICK f \in unmarshalled(c), g \in unmarshalled(c) : d = spelt(f) /\ e = spelt(g)
    BY <1>3
  <2>2. f = g
    BY <1>1, <1>2, <1>5, <2>1 DEF Sound
  <2> QED
    BY <2>1, <2>2
<1> QED
  BY <1>1, <1>2, <1>3, <1>4, <1>5 DEF Sound

\* Where the entries of these catalogs come from; a new dataset gets a new ID.
LEMMA HeldEntries ==
    ASSUME DirectorySync, Apart, CatalogTypes, Current, Chained, [Next]_vars, NEW c \in Held'
    PROVE  /\ Sound(c)
           /\ \A d \in c.datasets :
                \/ \E x \in Held : \E e \in x.datasets : Same(d, e)
                \/ Structural /\ c = next' /\ d.id = catFile.nextID
<1>1. CASE c \in Held
  BY <1>1 DEF Chained, Same
<1>2. CASE persistRename /\ c = decoded(next)
  <2>1. next \in Held
    BY <1>2 DEF persistRename, Held
  <2>2. next \in Catalogs /\ Sound(next)
    BY <2>1 DEF Chained, CatalogTypes
  <2> QED
    BY <1>2, <2>1, <2>2, DecodedSound
<1>3. CASE Structural /\ c = next'
  <2>1. catalog \in Held /\ Sound(catalog) /\ catalog.nextID = catFile.nextID
    BY <1>3, StructuralStart
  <2>2. Sound(c) /\ \A d \in c.datasets : d \in catalog.datasets \/ d.id = catalog.nextID
    BY <1>3, <2>1, NextSound DEF Structural
  <2> QED
    BY <1>3, <2>1, <2>2 DEF Same
<1>4. CASE c = NewCatalog
  BY <1>4 DEF NewCatalog, Sound
<1> QED
  BY <1>1, <1>2, <1>3, <1>4, HeldEffect DEF Chained

\* Catalogs stay chained.
LEMMA ChainedStep ==
    ASSUME DirectorySync
    PROVE  Apart /\ Current /\ CatalogTypes /\ Chained /\ [Next]_vars => Chained'
<1> SUFFICES ASSUME Apart, Current, CatalogTypes, Chained, [Next]_vars PROVE Chained'
  OBVIOUS
<1> USE DEF HasHandle
<1>1. \A c \in Held' : Sound(c)
  BY HeldEntries
<1>2. ASSUME NEW c1 \in Held', NEW c2 \in Held', NEW d \in c1.datasets, NEW e \in c2.datasets, d.id = e.id PROVE Same(d, e)
  <2>1. ASSUME NEW c \in Held', NEW f \in c.datasets, ~\E x \in Held : \E g \in x.datasets : Same(f, g)
        PROVE  Structural /\ c = next' /\ f.id = catFile.nextID
    BY <2>1, HeldEntries
  <2>2. ASSUME Structural, NEW x \in Held, NEW g \in x.datasets PROVE g.id # catFile.nextID
    <3>1. g.id < x.nextID /\ x.nextID <= catFile.nextID
      BY <2>2, StructuralStart DEF Chained, Sound
    <3>2. x \in Catalogs /\ catFile \in Catalogs
      BY DEF Held, CatalogTypes
    <3>3. g.id \in Nat /\ x.nextID \in Nat /\ catFile.nextID \in Nat
      BY <3>2 DEF Catalogs, Infos
    <3> QED
      BY <3>1, <3>3
  <2>3. CASE (\E x \in Held : \E g \in x.datasets : Same(d, g)) /\ \E x \in Held : \E g \in x.datasets : Same(e, g)
    <3>1. PICK x \in Held, y \in Held : (\E g \in x.datasets : Same(d, g)) /\ \E g \in y.datasets : Same(e, g)
      BY <2>3
    <3>2. PICK f \in x.datasets, g \in y.datasets : Same(d, f) /\ Same(e, g)
      BY <3>1
    <3>3. f.id = g.id
      BY <1>2, <3>2 DEF Same
    <3>4. Same(f, g)
      <4>1. \A a, b \in Held : \A h \in a.datasets, i \in b.datasets : h.id = i.id => Same(h, i)
        BY DEF Chained
      <4> QED
        BY <3>3, <4>1
    <3> QED
      BY <3>2, <3>4 DEF Same
  <2>4. CASE ~(\E x \in Held : \E g \in x.datasets : Same(d, g)) /\ ~\E x \in Held : \E g \in x.datasets : Same(e, g)
    <3>1. c1 = next' /\ c2 = next'
      BY <2>1, <2>4
    <3>2. d = e
      BY <1>1, <1>2, <3>1 DEF Sound
    <3> QED
      BY <3>2 DEF Same
  <2>5. ASSUME NEW c \in Held', NEW f \in c.datasets, ~\E x \in Held : \E g \in x.datasets : Same(f, g),
               NEW x \in Held, NEW g \in x.datasets, f.id = g.id
        PROVE  FALSE
    BY <2>1, <2>2, <2>5
  <2> QED
    BY <1>2, <2>3, <2>4, <2>5 DEF Same
<1>3. ASSUME catFile' \in catMedia', \A c \in catMedia' : c.nextID <= catFile'.nextID,
             Serves' => catalog'.nextID <= catFile'.nextID,
             catPhase' \in {"rename", "sync"} => catFile'.nextID <= next'.nextID
      PROVE  Chained'
  BY <1>1, <1>2, <1>3 DEF Chained
<1>4. /\ catFile.nextID \in Nat /\ catalog.nextID \in Nat /\ next.nextID \in Nat /\ \A c \in catMedia : c.nextID \in Nat
      /\ decoded(next).nextID = next.nextID
  BY DecodedIs DEF CatalogTypes, Catalogs
<1>5. CASE persistRename
  <2>1. /\ catPhase = "rename" /\ catPhase' = "sync" /\ catFile' = decoded(next) /\ catMedia' = catMedia \cup {decoded(next)}
        /\ UNCHANGED <<catalog, next, op>>
    BY <1>5 DEF persistRename
  <2>2. catFile.nextID <= next.nextID /\ (\A c \in catMedia : c.nextID <= catFile.nextID) /\ (Serves => catalog.nextID <= catFile.nextID)
    BY <2>1 DEF Chained
  <2>3. Serves' => Serves
    BY <2>1 DEF Serves
  <2>4. \A c \in catMedia' : c.nextID <= catFile'.nextID
    BY <1>4, <2>1, <2>2
  <2>5. Serves' => catalog'.nextID <= catFile'.nextID
    BY <1>4, <2>1, <2>2, <2>3
  <2>6. catFile'.nextID <= next'.nextID
    BY <1>4, <2>1
  <2> QED
    BY <1>3, <2>1, <2>4, <2>5, <2>6
<1>6. CASE losePower
  <2>1. catPhase' = "closed" /\ catFile' \in catMedia /\ catMedia' = {catFile'}
    BY <1>6 DEF losePower, DropHandle
  <2> QED
    BY <1>3, <1>4, <2>1 DEF Serves
<1>7. CASE UNCHANGED catFile /\ catMedia' \in {catMedia, {catFile}}
  <2>1. catFile' \in catMedia' /\ \A c \in catMedia' : c.nextID <= catFile'.nextID
    BY <1>4, <1>7 DEF Chained
  <2>2. ASSUME catPhase' \in Outcomes \cup {"opening"} PROVE Chained'
    BY <1>3, <2>1, <2>2 DEF Outcomes, Serves
  <2>3. ASSUME UNCHANGED <<catalog, catPhase, op, next>> PROVE Chained'
    BY <1>3, <1>7, <2>1, <2>3 DEF Chained, Serves
  <2>4. ASSUME HasHandle', catalog'.nextID <= catFile.nextID PROVE Chained'
    BY <1>3, <1>7, <2>1, <2>4
  <2>5. CASE HandleStep
    <3>1. UNCHANGED catalog
      BY <2>5, HandleStepEffect
    <3>2. CASE Structural
      <4>1. catPhase' = "rename" /\ catalog.nextID = catFile.nextID
        BY <3>2, StructuralStart, StructuralAdds DEF Structural
      <4>2. next'.nextID \in {catalog.nextID, catalog.nextID + 1}
        BY <3>2, StructuralStart, NextSound DEF Structural
      <4> QED
        BY <1>3, <1>4, <1>7, <2>1, <3>1, <4>1, <4>2
    <3>3. CASE (\E d \in catalog.datasets : beginScan(d)) \/ visit \/ endScan
      <4>1. HasHandle /\ catPhase' \in {"ready", "scan"}
        BY <3>3 DEF beginScan, visit, endScan, Admitted
      <4> QED
        BY <2>4, <3>1, <4>1 DEF Chained, Serves
    <3> QED
      BY <1>5, <2>5, <3>2, <3>3 DEF HandleStep, Structural
  <2>6. CASE GroupStep
    BY <2>3, <2>6, GroupStepEffect
  <2>7. CASE OpenStep
    BY <2>2, <2>7, OpenStepEffect
  <2>8. CASE snapshotStep \/ snapshotDirectory
    BY <2>2, <2>3, <2>8, SnapshotStepEffect DEF Outcomes, handleVars
  <2>9. CASE loadCatalog
    <3>1. CASE catPhase' = "rename" /\ op' = "create" /\ next' = NewCatalog /\ catFile = NoCatalog
      <4>1. NewCatalog.nextID = 1 /\ NoCatalog.nextID = 0
        BY DEF NewCatalog, NoCatalog
      <4> QED
        BY <1>3, <1>7, <2>1, <3>1, <4>1 DEF Serves
    <3> QED
      BY <1>4, <2>2, <2>4, <2>9, <3>1, LoadEffect
  <2>10. CASE persistSyncDirectory
    <3>1. catPhase = "sync" /\ catPhase' = "ready" /\ catalog' = next
      BY <2>10 DEF persistSyncDirectory, StructuralReturn, HandleReady
    <3>2. catFile.nextID = next.nextID
      BY <1>4, <3>1 DEF Current
    <3> QED
      BY <1>4, <2>4, <3>1, <3>2
  <2>11. CASE persistFails
    <3>1. CASE op = "create"
      BY <2>2, <2>11, <3>1 DEF persistFails, CatalogRefused, DropHandle, Outcomes
    <3>2. CASE op # "create"
      BY <2>4, <2>11, <3>2 DEF persistFails, Chained, Serves
    <3> QED
      BY <3>1, <3>2
  <2>12. CASE UNCHANGED vars
    BY <2>3, <2>12 DEF vars, catalogVars, handleVars
  <2> QED
    BY <1>5, <1>6, <2>5, <2>6, <2>7, <2>8, <2>9, <2>10, <2>11, <2>12 DEF Next, HandleStep, GroupStep, OpenStep
<1> QED
  BY <1>5, <1>6, <1>7, CatalogMediaEffect

\* Mutate lets no dataset grow past its bound, and a new dataset has no records.
LEMMA RoomyStep ==
    Apart /\ Current /\ CatalogTypes /\ Chained /\ Roomy /\ [Next]_vars => Roomy'
<1> SUFFICES ASSUME Apart, Current, CatalogTypes, Chained, Roomy, [Next]_vars PROVE Roomy'
  OBVIOUS
<1> USE DEF HasHandle, Serves
<1>1. ASSUME catPhase' \in Outcomes \cup {"opening"} PROVE Roomy'
  BY <1>1 DEF Outcomes, Roomy
<1>2. ASSUME UNCHANGED <<mem, catalog, catPhase, op, next>> PROVE Roomy'
  BY <1>2 DEF Roomy, Room
<1>3. ASSUME HasHandle', Room(catalog)' PROVE Roomy'
  BY <1>3 DEF Roomy
<1>4. CASE UNCHANGED vars
  BY <1>2, <1>4 DEF vars, storageVars, catalogVars, handleVars
<1>5. CASE HandleStep
  <2>1. UNCHANGED <<mem, catalog>>
    BY <1>5, HandleStepEffect DEF storageVars
  <2>2. CASE (\E b \in Buckets : Bucket(b)) \/ \E r \in Requests : createDataset(r.name, r.options)
    <3>1. HasHandle /\ ~poisoned
      BY <2>2 DEF Bucket, createDataset, Admitted
    <3>2. Sound(catalog) /\ Room(catalog)
      BY <2>2, <3>1, StructuralStart DEF Structural, Roomy
    <3>3. catPhase' = "rename" /\ catalog.datasets \subseteq next'.datasets
      BY <2>2, StructuralAdds
    <3>4. Named(next', Live(mem.records))
      BY <3>2, <3>3 DEF Room, Named
    <3>5. ASSUME NEW d \in next'.datasets PROVE Cardinality(InDataset(mem.records, d.id)) <= d.options.maxRecords
      <4>1. CASE d \in catalog.datasets
        BY <3>2, <4>1 DEF Room, WithinBounds
      <4>2. CASE d.id = catalog.nextID /\ d.options.maxRecords \in Nat
        <5>1. \A e \in catalog.datasets : e.id < catalog.nextID /\ e.id \in Nat /\ catalog.nextID \in Nat
          BY <3>2 DEF Sound, CatalogTypes, Catalogs, Infos
        <5>2. InDataset(mem.records, d.id) = {}
          BY <3>2, <4>2, <5>1 DEF InDataset, Room, Named
        <5>3. Cardinality({}) = 0
          BY NoneCounted
        <5> QED
          BY <4>2, <5>2, <5>3
      <4> QED
        BY <2>2, <3>2, <4>1, <4>2, NextSound
    <3>6. Room(next)' /\ Room(catalog)'
      BY <2>1, <3>2, <3>4, <3>5 DEF Room, WithinBounds
    <3> QED
      BY <3>3, <3>6 DEF Roomy
  <2>3. CASE persistRename
    BY <2>1, <2>3 DEF persistRename, Roomy, Room
  <2>4. CASE (\E d \in catalog.datasets : beginScan(d)) \/ visit \/ endScan
    <3>1. HasHandle /\ catPhase' \in {"ready", "scan"}
      BY <2>4 DEF beginScan, visit, endScan, Admitted
    <3> QED
      BY <1>3, <2>1, <3>1 DEF Roomy, Room
  <2> QED
    BY <1>5, <2>2, <2>3, <2>4 DEF HandleStep
<1>6. CASE GroupStep
  <2>1. UNCHANGED <<catalog, catPhase, op, next>> /\ HasHandle
    BY <1>6, GroupStepEffect
  <2>2. ASSUME NEW c, NEW applied, NEW w, Mutate(c, applied, w) PROVE Room(catalog)'
    <3>1. mem'.records = IF applied THEN Overwrite(mem.records, w) ELSE mem.records
      BY <2>2 DEF Mutate, stage, applyKeyed, NewRecord
    <3>2. Room(catalog)
      BY <2>1 DEF Roomy
    <3>3. applied => Named(catalog, DOMAIN w) /\ WithinBounds(catalog, Overwrite(mem.records, w))
      BY <2>2 DEF Mutate, PermittedWrites, Named
    <3>4. Live(Overwrite(mem.records, w)) \subseteq Live(mem.records) \cup DOMAIN w
      BY DEF Live, Overwrite
    <3>5. Named(catalog, Live(mem'.records))
      BY <3>1, <3>2, <3>3, <3>4 DEF Room, Named
    <3>6. WithinBounds(catalog, mem'.records)
      BY <3>1, <3>2, <3>3 DEF Room
    <3> QED
      BY <2>1, <3>5, <3>6 DEF Room, WithinBounds
  <2>3. CASE UNCHANGED mem
    BY <1>2, <2>1, <2>3
  <2> QED
    BY <1>3, <1>6, <2>1, <2>2, <2>3 DEF GroupStep, beginCommands, beginGroup, commitStep, retry, syncKeyed, syncKeyedFails,
                                        skipSync, reply, MutateFails, stageFails
<1>7. CASE OpenStep
  BY <1>1, <1>7, OpenStepEffect
<1>8. CASE snapshotStep \/ snapshotDirectory
  <2>1. CASE catPhase' = "closed"
    BY <1>1, <2>1 DEF Outcomes
  <2>2. CASE UNCHANGED handleVars /\ UNCHANGED mem
    BY <1>2, <2>2 DEF handleVars
  <2> QED
    BY <1>8, <2>1, <2>2 DEF snapshotStep, DropHandle, SnapshotKeyed, Close, snapshotRename, snapshotTruncate, snapshotSync,
                            snapshotFails, snapshotDirectory, snapshotSyncDirectory, Closed
<1>9. CASE loadCatalog
  <2>1. CASE catPhase' = "rename" /\ op' = "create" /\ next' = NewCatalog /\ Live(mem.records) = {} /\ UNCHANGED storageVars
    <3>1. NewCatalog.datasets = {}
      BY DEF NewCatalog
    <3>2. Room(next)'
      BY <2>1, <3>1 DEF Room, Named, WithinBounds, storageVars
    <3> QED
      BY <2>1, <3>2 DEF Roomy
  <2>2. CASE /\ catPhase' = "ready" /\ catalog' = catFile /\ validateCatalogState(catFile, mem.records) = "ready"
             /\ UNCHANGED storageVars
    <3>1. Named(catFile, Live(mem.records)) /\ WithinBounds(catFile, mem.records)
      BY <2>2 DEF validateCatalogState, Named
    <3>2. Room(catalog)'
      BY <2>2, <3>1 DEF Room, WithinBounds, storageVars
    <3> QED
      BY <1>3, <2>2, <3>2
  <2> QED
    BY <1>1, <1>9, <2>1, <2>2, LoadEffect
<1>10. CASE persistSyncDirectory
  <2>1. catPhase = "sync" /\ catPhase' = "ready" /\ catalog' = next /\ UNCHANGED mem
    BY <1>10 DEF persistSyncDirectory, StructuralReturn, HandleReady
  <2> QED
    BY <1>3, <2>1 DEF Roomy, Room
<1>11. CASE persistFails
  <2>1. CASE op = "create"
    BY <1>1, <1>11, <2>1 DEF persistFails, CatalogRefused, DropHandle, Outcomes
  <2>2. CASE op # "create"
    <3>1. catPhase \in {"rename", "sync"} /\ catPhase' = "ready" /\ UNCHANGED <<mem, catalog>>
      BY <1>11, <2>2 DEF persistFails
    <3> QED
      BY <1>3, <2>2, <3>1 DEF Roomy, Room
  <2> QED
    BY <2>1, <2>2
<1> QED
  BY <1>4, <1>5, <1>6, <1>7, <1>8, <1>9, <1>10, <1>11 DEF Next, HandleStep, GroupStep, OpenStep

\* The steps that matter here: the catalog file is replaced or read, power is lost, or a
\* command is decided.
LEMMA RecordSteps ==
    ASSUME DirectorySync, Apart, [Next]_vars
    PROVE  \/ persistRename \/ losePower \/ loadCatalog
           \/ \E c \in CommandIDs, w \in Writes : Mutate(c, TRUE, w)
           \/ \E c \in CommandIDs : Mutate(c, FALSE, NoWrites)
           \/ UNCHANGED <<catFile, owner>> /\ (Working' => Working) /\ (mem' = mem \/ phase' # "group")
<1> DEFINE Rest == UNCHANGED <<catFile, owner>> /\ (Working' => Working) /\ (mem' = mem \/ phase' # "group")
<1>1. CASE UNCHANGED vars
  BY <1>1 DEF vars, storageVars, catalogVars, handleVars, catalogFile, catalogHistory, Working
<1>2. ASSUME HandleStep, ~persistRename PROVE Rest
  <2>1. UNCHANGED catFile
    BY <1>2 DEF HandleStep, Bucket, createDataset, beginScan, visit, endScan, catalogFile
  <2> QED
    BY <1>2, <2>1, HandleStepEffect DEF storageVars, catalogHistory, Working
<1>3. CASE beginCommands \/ commitStep
  BY <1>3 DEF beginCommands, beginGroup, commitStep, retry, syncKeyed, syncKeyedFails, skipSync, reply,
              catalogVars, handleVars, catalogFile, catalogHistory, Working
<1>4. ASSUME NEW c, NEW applied, NEW w, MutateFails(c, applied, w) PROVE Rest
  BY <1>4 DEF MutateFails, stageFails, catalogVars, handleVars, catalogFile, catalogHistory, Working
<1>5. ASSUME OpenStep, ~losePower PROVE Rest
  <2>1. ~Working'
    BY <1>5, OpenStepEffect DEF Working, Outcomes
  <2>2. UNCHANGED <<catFile, owner>>
    BY <1>5 DEF OpenStep, startOpen, markerStep, markerSyncDirectory, openOther, openStore, createWAL, recoverStore,
                loadCatalogFails, crash, catalogVars, catalogFile, catalogHistory
  <2>3. CASE (\E m \in Models : startOpen(m)) \/ markerStep \/ markerSyncDirectory \/ openOther
    BY <2>1, <2>2, <2>3 DEF startOpen, markerStep, markerSyncDirectory, openOther, storageVars
  <2>4. CASE (\E h \in DedupeHorizons : openStore(h)) \/ createWAL \/ recoverStore
    <3>1. phase' # "group"
      BY <2>4 DEF openStore, openKeyed, createWAL, loadKeyedSnapshot, recoverStore, replayKeyedWAL, ReplayVerdict, replayDone,
                  Opened, truncateKeyedTail, truncateKeyedTailSync, openStorageFails
    <3> QED
      BY <2>1, <2>2, <3>1
  <2>5. CASE loadCatalogFails \/ crash
    BY <2>1, <2>2, <2>5 DEF loadCatalogFails, CatalogRefused, crash, processCrash, storageVars
  <2> QED
    BY <1>5, <2>3, <2>4, <2>5 DEF OpenStep
<1>6. CASE snapshotStep \/ snapshotDirectory
  <2>1. UNCHANGED <<catFile, owner>> /\ (Working' => Working)
    BY <1>6 DEF snapshotStep, snapshotDirectory, DropHandle, handleVars, catalogFile, catalogHistory, Working
  <2>2. phase' # "group"
    BY <1>6 DEF snapshotStep, snapshotDirectory, SnapshotKeyed, Close, snapshotRename, snapshotTruncate, snapshotSync,
                snapshotFails, snapshotSyncDirectory
  <2> QED
    BY <2>1, <2>2
<1>7. CASE persistSyncDirectory
  BY <1>7 DEF persistSyncDirectory, Working
<1>8. CASE persistFails
  BY <1>8 DEF persistFails, CatalogRefused, DropHandle, catalogFile, catalogHistory, Working
<1> QED
  BY <1>1, <1>2, <1>3, <1>4, <1>5, <1>6, <1>7, <1>8 DEF Next, HandleStep, OpenStep

-----------------------------------------------------------------------------
(* Scans *)

\* The slices are what initializeQueryKeys would build from the records.
Follows(keys, records) == \A id \in DatasetIDs : keys[id] = Ordered(InDataset(records, id))

\* They are kept through structural calls, and a scan has shown the records up to where it is.
Cursor == Serves => Follows(queryKeys, mem.records)
Visited(i) == <<keysOf(scan.id)[i], mem.records[[id |-> scan.id, key |-> keysOf(scan.id)[i]]]>>
Scanning ==
    catPhase = "scan" =>
        /\ scan = [id |-> scan.id, at |-> mem.sequence, shown |-> scan.shown]
        /\ \E n \in 0..Len(keysOf(scan.id)) : scan.shown = [i \in 1..n |-> Visited(i)]

\* What the steps of a scan need of the slices: the mutations of a command bring them to
\* where sorting would, and they are sequences.  CatalogStore_proof has it from QueryKeys_proof.
SliceFacts ==
    /\ \A keys, records : \A w \in Writes :
         Follows(keys, records) => Follows(applyQueryKeyMutations(keys, w), Overwrite(records, w))
    /\ \A ks \in SUBSET Keys : Len(Ordered(ks)) \in Nat
    /\ Ordered({}) = <<>>

\* Every step keeps the slices with the records.
LEMMA CursorStep == SliceFacts /\ Apart /\ Cursor /\ [Next]_vars => Cursor'
<1> SUFFICES ASSUME SliceFacts, Apart, Cursor, [Next]_vars PROVE Cursor'
  OBVIOUS
<1> USE DEF HasHandle, Serves
<1>1. ASSUME catPhase' \in Outcomes \cup {"opening"} PROVE Cursor'
  BY <1>1 DEF Outcomes, Cursor
<1>2. ASSUME UNCHANGED <<mem, queryKeys, catPhase, op>> PROVE Cursor'
  BY <1>2 DEF Cursor, Follows
<1>3. ASSUME UNCHANGED <<mem, queryKeys>>, HasHandle \/ (catPhase \in {"rename", "sync"} /\ op # "create") PROVE Cursor'
  BY <1>3 DEF Cursor, Follows
<1>4. ASSUME queryKeys' = initializeQueryKeys(mem.records), UNCHANGED mem PROVE Cursor'
  BY <1>4 DEF Cursor, Follows, initializeQueryKeys
<1>5. CASE UNCHANGED vars
  BY <1>2, <1>5 DEF vars, storageVars, catalogVars, handleVars
<1>6. CASE HandleStep
  <2>1. UNCHANGED <<mem, queryKeys>>
    BY <1>6 DEF HandleStep, Bucket, createDataset, persistRename, beginScan, visit, endScan, storageVars
  <2>2. CASE persistRename
    BY <2>1, <2>2 DEF persistRename, Cursor, Follows
  <2> QED
    BY <1>3, <1>6, <2>1, <2>2 DEF HandleStep, Bucket, createDataset, beginScan, visit, endScan, Admitted
<1>7. CASE GroupStep
  <2>1. catPhase = "ready" /\ catPhase' = "ready"
    BY <1>7, GroupStepEffect
  <2>2. Follows(queryKeys, mem.records)
    BY <2>1 DEF Cursor
  <2>3. ASSUME NEW c, NEW w \in Writes, Mutate(c, TRUE, w) PROVE Cursor'
    <3>1. mem'.records = Overwrite(mem.records, w) /\ queryKeys' = applyQueryKeyMutations(queryKeys, w)
      BY <2>3 DEF Mutate, stage, applyKeyed, NewRecord
    <3>2. Follows(queryKeys', mem'.records)
      BY <2>2, <3>1 DEF SliceFacts
    <3> QED
      BY <3>2 DEF Cursor, Follows
  <2>4. ASSUME NEW c, NEW w, Mutate(c, FALSE, w) PROVE Cursor'
    <3>1. mem'.records = mem.records /\ queryKeys' = queryKeys
      BY <2>4 DEF Mutate, stage, applyKeyed, NewRecord
    <3> QED
      BY <2>2, <3>1 DEF Cursor, Follows
  <2>5. CASE UNCHANGED <<mem, queryKeys>>
    BY <1>3, <2>1, <2>5
  <2> QED
    BY <1>7, <2>3, <2>4, <2>5 DEF GroupStep, beginCommands, beginGroup, commitStep, retry, syncKeyed, syncKeyedFails,
                                  skipSync, reply, MutateFails, stageFails, catalogVars, handleVars
<1>8. CASE OpenStep
  BY <1>1, <1>8, OpenStepEffect
<1>9. CASE snapshotStep \/ snapshotDirectory
  <2>1. CASE catPhase' = "closed"
    BY <1>1, <2>1 DEF Outcomes
  <2>2. CASE UNCHANGED handleVars /\ UNCHANGED mem
    BY <1>2, <2>2 DEF handleVars
  <2> QED
    BY <1>9, <2>1, <2>2 DEF snapshotStep, DropHandle, SnapshotKeyed, Close, snapshotRename, snapshotTruncate, snapshotSync,
                            snapshotFails, snapshotDirectory, snapshotSyncDirectory, Closed
<1>10. CASE loadCatalog
  <2>1. CASE catPhase' = "rename" /\ op' = "create"
    BY <2>1 DEF Cursor
  <2>2. CASE HandleReady(catFile) /\ UNCHANGED storageVars
    BY <1>4, <2>2 DEF HandleReady, storageVars
  <2>3. ASSUME NEW outcome, outcome \in Outcomes, CatalogRefused(outcome) PROVE Cursor'
    BY <1>1, <2>3 DEF CatalogRefused, DropHandle
  <2>4. validateCatalogState(catFile, mem.records) \in Outcomes \cup {"ready"}
    BY DEF validateCatalogState, Outcomes
  <2> QED
    BY <1>10, <2>1, <2>2, <2>3, <2>4 DEF loadCatalog, Outcomes
<1>11. CASE persistSyncDirectory
  <2>1. catPhase = "sync" /\ StructuralReturn /\ UNCHANGED mem
    BY <1>11 DEF persistSyncDirectory
  <2> QED
    BY <1>3, <1>4, <2>1 DEF StructuralReturn, HandleReady
<1>12. CASE persistFails
  <2>1. CASE op = "create"
    BY <1>1, <1>12, <2>1 DEF persistFails, CatalogRefused, DropHandle, Outcomes
  <2>2. CASE op # "create"
    BY <1>3, <1>12, <2>2 DEF persistFails
  <2> QED
    BY <2>1, <2>2
<1> QED
  BY <1>5, <1>6, <1>7, <1>8, <1>9, <1>10, <1>11, <1>12 DEF Next, HandleStep, GroupStep, OpenStep

\* A handle's slices are what sorting the records would give.
LEMMA CursorKeys ==
    ASSUME SliceFacts, Cursor, HasHandle, NEW id
    PROVE  keysOf(id) = Ordered(InDataset(mem.records, id)) /\ Len(keysOf(id)) \in Nat
<1> DEFINE ks == InDataset(mem.records, id)
<1>1. ks \in SUBSET Keys /\ (id \notin DatasetIDs => ks = {})
  BY DEF InDataset, Live, DatasetIDs
<1>2. id \in DatasetIDs => keysOf(id) = Ordered(ks)
  BY DEF Cursor, Serves, Follows, keysOf
<1> HIDE DEF ks
<1>3. Len(Ordered(ks)) \in Nat
  BY <1>1 DEF SliceFacts
<1>4. id \notin DatasetIDs => keysOf(id) = Ordered(ks)
  BY <1>1 DEF SliceFacts, keysOf
<1> QED
  BY <1>2, <1>3, <1>4 DEF ks

\* One more.
LEMMA AppendNext ==
    ASSUME NEW n \in Nat, NEW S, NEW v \in [1..(n + 1) -> S]
    PROVE  Append([i \in 1..n |-> v[i]], v[n + 1]) = v /\ Len([i \in 1..n |-> v[i]]) = n
<1> DEFINE u == [i \in 1..n |-> v[i]]
<1>1. u \in Seq(S) /\ Len(u) = n /\ (\A i \in 1..n : u[i] = v[i]) /\ v[n + 1] \in S
  OBVIOUS
<1> HIDE DEF u
<1>2. Append(u, v[n + 1]) \in Seq(S) /\ Len(Append(u, v[n + 1])) = n + 1
  BY <1>1
<1>3. \A i \in 1..(n + 1) : Append(u, v[n + 1])[i] = v[i]
  BY <1>1
<1>4. Append(u, v[n + 1]) = v
  BY <1>2, <1>3
<1> QED
  BY <1>1, <1>4 DEF u

\* Nothing but the scan itself moves while it runs.
LEMMA ScanningStep == SliceFacts /\ Apart /\ Cursor /\ Scanning /\ [Next]_vars => Scanning'
<1> SUFFICES ASSUME SliceFacts, Apart, Cursor, Scanning, [Next]_vars, catPhase' = "scan" PROVE Scanning'
  BY DEF Scanning
<1>1. ASSUME catPhase = "scan", UNCHANGED <<mem, queryKeys, scan>> PROVE Scanning'
  BY <1>1 DEF Scanning, Visited, keysOf
<1>2. CASE UNCHANGED vars
  BY <1>1, <1>2 DEF vars, storageVars, catalogVars, handleVars
<1>3. ASSUME NEW d, beginScan(d) PROVE Scanning'
  <2>1. /\ scan' = [id |-> d.id, at |-> mem.sequence, shown |-> <<>>] /\ UNCHANGED <<mem, queryKeys>>
        /\ catPhase = "ready"
    BY <1>3 DEF beginScan, storageVars, Admitted
  <2>2. Len(keysOf(d.id)) \in Nat /\ keysOf(d.id)' = keysOf(d.id)
    BY <2>1, CursorKeys DEF HasHandle, keysOf
  <2>3. 0 \in 0..Len(keysOf(d.id))
    BY <2>2
  <2>4. scan'.id = d.id /\ scan'.shown = [i \in 1..0 |-> Visited(i)']
    BY <2>1
  <2> QED
    BY <2>1, <2>2, <2>3, <2>4 DEF Scanning, keysOf
<1>4. CASE visit
  <2> DEFINE keys == keysOf(scan.id)
  <2>1. /\ catPhase = "scan" /\ Len(scan.shown) + 1 <= Len(keys) /\ UNCHANGED <<mem, queryKeys>>
        /\ scan' = [scan EXCEPT !.shown = Append(@, Visited(Len(scan.shown) + 1))]
    BY <1>4 DEF visit, Visited, storageVars
  <2>2. PICK n \in 0..Len(keys) : scan.shown = [i \in 1..n |-> Visited(i)]
    BY <2>1 DEF Scanning
  <2>3. Len(keys) \in Nat /\ n \in Nat
    BY <2>1, CursorKeys DEF HasHandle
  <2> DEFINE v == [i \in 1..(n + 1) |-> Visited(i)]
             S == {Visited(i) : i \in 1..(n + 1)}
  <2>4. v \in [1..(n + 1) -> S] /\ v[n + 1] = Visited(n + 1) /\ scan.shown = [i \in 1..n |-> v[i]]
    BY <2>2, <2>3
  <2> HIDE DEF v, S
  <2>5. Len(scan.shown) = n /\ Append(scan.shown, Visited(n + 1)) = v
    BY <2>3, <2>4, AppendNext
  <2>6. scan' = [scan EXCEPT !.shown = v] /\ n + 1 \in 0..Len(keys)
    <3>1. Append(scan.shown, Visited(Len(scan.shown) + 1)) = v
      BY <2>5, Zenon
    <3>2. scan' = [scan EXCEPT !.shown = Append(scan.shown, Visited(Len(scan.shown) + 1))]
      BY <2>1, Zenon
    <3>3. n + 1 <= Len(keys)
      BY <2>1, <2>5, Zenon
    <3>4. n + 1 \in 0..Len(keys)
      BY <2>3, <3>3
    <3> QED
      BY <3>1, <3>2, <3>4, Zenon
  <2>7. /\ scan'.id = scan.id /\ scan'.shown = v
        /\ scan' = [id |-> scan'.id, at |-> mem'.sequence, shown |-> scan'.shown]
    <3>1. scan = [id |-> scan.id, at |-> mem.sequence, shown |-> scan.shown] /\ mem' = mem
      BY <2>1, Zenon DEF Scanning
    <3>2. scan' = [id |-> scan.id, at |-> mem.sequence, shown |-> v]
      BY <2>6, <3>1
    <3> QED
      BY <3>1, <3>2
  <2>8. keysOf(scan.id)' = keys /\ \A i : Visited(i)' = Visited(i)
    BY <2>1, <2>7 DEF keysOf, Visited
  <2>9. v = [i \in 1..(n + 1) |-> Visited(i)']
    BY <2>8 DEF v
  <2> HIDE DEF keys
  <2> QED
    BY <2>6, <2>7, <2>8, <2>9 DEF Scanning
<1>5. CASE GroupStep
  BY <1>5, GroupStepEffect
<1>6. CASE OpenStep
  BY <1>6, OpenStepEffect DEF Outcomes
<1>7. CASE snapshotStep \/ snapshotDirectory
  <2>1. catPhase = "scan" => phase = "open"
    BY DEF Apart
  <2> QED
    BY <1>7, <2>1 DEF snapshotStep, snapshotDirectory, snapshotSyncDirectory, DropHandle, handleVars
<1>8. CASE loadCatalog
  BY <1>8, LoadEffect DEF Outcomes
<1>9. CASE persistSyncDirectory \/ persistFails
  BY <1>9 DEF persistSyncDirectory, StructuralReturn, HandleReady, persistFails, CatalogRefused, DropHandle
<1>10. CASE (\E b \in Buckets : Bucket(b)) \/ (\E r \in Requests : createDataset(r.name, r.options)) \/ persistRename \/ endScan
  BY <1>10 DEF Bucket, createDataset, persistRename, endScan
<1> QED
  BY <1>2, <1>3, <1>4, <1>5, <1>6, <1>7, <1>8, <1>9, <1>10 DEF Next, GroupStep, OpenStep

=============================================================================
