-------------------------- MODULE CatalogStore_proof --------------------------
(***************************************************************************)
(* What is proved about the store holds under the catalog product too,     *)
(* which shares the directory with it, poisons it and closes it; and what  *)
(* Catalog_proof shows for every step holds of every behaviour.            *)
(***************************************************************************)
EXTENDS Catalog_proof, KeyedPromise_proof, QueryKeys_proof

\* A leaf is tried with Zenon and then with the SMT solver, unless it names a prover.
USE ZenonT(2), SMTT(20), ZenonT(30)

-----------------------------------------------------------------------------
(* The store below *)

\* The catalog uses the store as its own callers do, or in one of these three ways.
LEMMA CatalogStoreStep ==
    ASSUME DirectorySync
    PROVE  Apart /\ [Next]_vars => SharedStoreStep
<1> SUFFICES ASSUME Apart, [Next]_vars PROVE SharedStoreStep
  OBVIOUS
<1>1. ASSUME NEW c, NEW w, stage(c, FALSE, NoWrites) \/ stageFails(c, FALSE, NoWrites), w \in Writes
      PROVE  stage(c, FALSE, w) \/ stageFails(c, FALSE, w)
  BY <1>1 DEF stage, stageFails, Executes, NewRecord
<1>2. CASE GroupStep
  <2>1. CASE \E c \in CommandIDs : Mutate(c, FALSE, NoWrites) \/ MutateFails(c, FALSE, NoWrites)
    <3>1. PICK c \in CommandIDs : stage(c, FALSE, NoWrites) \/ stageFails(c, FALSE, NoWrites)
      BY <2>1 DEF Mutate, MutateFails
    <3>2. PICK w \in Writes : TRUE
      BY CatalogAssumption
    <3> QED
      BY <1>1, <3>1, <3>2 DEF SharedStoreStep, StorageNext
  <2>2. CASE \E c \in CommandIDs, w \in Writes : Mutate(c, TRUE, w) \/ MutateFails(c, TRUE, w)
    BY <2>2 DEF Mutate, MutateFails, SharedStoreStep, StorageNext
  <2>3. CASE beginCommands \/ commitStep
    BY <2>3 DEF beginCommands, commitStep, SharedStoreStep, StorageNext
  <2> QED
    BY <1>2, <2>1, <2>2, <2>3 DEF GroupStep
<1>3. CASE UNCHANGED storageVars
  BY <1>3 DEF SharedStoreStep
<1>4. CASE UNCHANGED vars \/ HandleStep
  BY <1>3, <1>4, HandleStepEffect DEF vars
<1>5. ASSUME NEW outcome, phase = "open", CatalogRefused(outcome) PROVE SharedStoreStep
  BY <1>5 DEF CatalogRefused, SharedStoreStep, Abandoned
<1>6. CASE OpenStep
  <2>1. CASE (\E m \in Models : startOpen(m)) \/ markerStep \/ openOther
    BY <1>3, <2>1 DEF startOpen, markerStep, openOther
  <2>2. CASE markerSyncDirectory
    BY <2>2 DEF markerSyncDirectory, DirectoryDurable, SharedStoreStep, SharedSync
  <2>3. CASE (\E h \in DedupeHorizons : openStore(h)) \/ createWAL \/ recoverStore
    BY <2>3 DEF openStore, createWAL, recoverStore, SharedStoreStep, StorageNext
  <2>4. CASE loadCatalogFails
    BY <1>5, <2>4 DEF loadCatalogFails
  <2>5. CASE crash \/ losePower
    BY <1>3, <2>5 DEF crash, losePower, SharedStoreStep, StorageNext
  <2> QED
    BY <1>6, <2>1, <2>2, <2>3, <2>4, <2>5 DEF OpenStep
<1>7. CASE snapshotStep \/ snapshotDirectory
  BY <1>7 DEF snapshotStep, snapshotDirectory, SharedStoreStep, StorageNext
<1>8. CASE loadCatalog
  BY <1>3, <1>5, <1>8 DEF loadCatalog
<1>9. CASE persistSyncDirectory
  BY <1>9 DEF persistSyncDirectory, DirectoryDurable, SharedStoreStep, SharedSync
<1>10. CASE persistFails
  <2>1. phase = "open"
    BY <1>10 DEF persistFails, Apart
  <2> QED
    BY <1>5, <1>10, <2>1 DEF persistFails, SharedStoreStep, Poisoned
<1> QED
  BY <1>2, <1>4, <1>6, <1>7, <1>8, <1>9, <1>10 DEF Next, HandleStep, GroupStep, OpenStep

\* The facts behind durability hold under the catalog.
LEMMA StoreInvariant ==
    ASSUME DirectorySync
    PROVE  Spec => [](TypeOK /\ Bounds /\ SafeFiles /\ Staged /\ AckedDurable /\ PoisonedIdle)
<1> DEFINE Inv == TypeOK /\ Bounds /\ SafeFiles /\ Staged /\ AckedDurable /\ PoisonedIdle
<1>1. Init => Inv
  BY BoundsInit, DurableInit, PoisonedIdleInit DEF Init
<1>2. Inv /\ SharedStoreStep => Inv'
  BY StoreBoundsStep, StoreDurableStep
<1> HIDE DEF Inv
<1>3. Spec => []Inv
  BY <1>1, <1>2, CatalogStoreStep, CurrentInvariant, PTL DEF Spec
<1> QED
  BY <1>3 DEF Inv

\* What Mutate has reported survives every crash of the catalog product, although other
\* components share the directory with its store, poison it and close it.
THEOREM CatalogDurability ==
    ASSUME DirectorySync
    PROVE  Spec => []AckedDurable
BY StoreInvariant, PTL

\* So do the facts behind exact recovery.
LEMMA StoreExactInvariant ==
    ASSUME PlainText, OneHorizon, DirectorySync
    PROVE  Spec => [](TimelineExact /\ CopiesExact /\ Windows /\ AtMostOnceInHorizon)
<1> DEFINE Inv == TimelineExact /\ CopiesExact /\ Windows /\ AtMostOnceInHorizon
<1>1. Init => Inv
  BY ExactInit, OnceInit DEF Init
<1>2. TypeOK /\ Bounds /\ Inv /\ SharedStoreStep => Inv'
  BY StoreExactStep
<1> HIDE DEF Inv
<1>3. Spec => []Inv
  BY <1>1, <1>2, CatalogStoreStep, CurrentInvariant, StoreInvariant, PTL DEF Spec
<1> QED
  BY <1>3 DEF Inv

\* The catalog product keeps the promise of the abstract log of decisions.
THEOREM CatalogKeepsPromise ==
    ASSUME PlainText, OneHorizon, DirectorySync
    PROVE  Spec => ImplementsDecisionLog
<1>1. Init => Promise!Init
  BY DEF Init, StorageInit, Promise!Init
<1>2. PromiseInv /\ PromiseInv' /\ SharedStoreStep => [Promise!Next]_(Promise!vars)
  <2> SUFFICES ASSUME PromiseInv, PromiseInv', SharedStoreStep PROVE [Promise!Next]_(Promise!vars)
    OBVIOUS
  <2>1. CASE [StorageNext]_storageVars
    BY <2>1, PromiseStep
  <2>2. CASE SharedSync \/ Abandoned \/ Poisoned
    BY <2>2 DEF SharedSync, Abandoned, Poisoned, history, Promise!vars
  <2> QED
    BY <2>1, <2>2 DEF SharedStoreStep
<1>3. Spec => []PromiseInv
  BY StoreInvariant, StoreExactInvariant, PTL DEF PromiseInv
<1> QED
  BY <1>1, <1>2, <1>3, CatalogStoreStep, CurrentInvariant, PTL DEF Spec, ImplementsDecisionLog, Promise!Spec

-----------------------------------------------------------------------------
(* Records and their datasets *)

\* A recoverable record under an ID that some catalog has was written to that dataset.
Agreed ==
    \A c \in Held, m \in Recoverable : \A k \in Live(m.records), d \in c.datasets :
        d.id = k.id => speltName(nameOf(d)) = speltName(owner[k.id])

\* As long as a handle works, the next ID of the catalog file is above those of all
\* recoverable records.  Power loss may leave a catalog with a lower one, but then only one
\* state to recover, and validateCatalogState looks at that one.
Low == \A m \in Recoverable : \A k \in Live(m.records) : k.id < catFile.nextID
Single == \A m, n \in Recoverable : m = n
Validated == (Low \/ Single) /\ (Working => Low)

\* What the store gives: mem is recoverable, and only a decision adds to what is.
Grows ==
    /\ phase \in Serving => mem \in Recoverable
    /\ \A m \in Recoverable' : m \in Recoverable \/ (m = mem' /\ phase' = "group" /\ mem' # mem)

\* A command writes to datasets of the handle's catalog.
LEMMA MutateKeeps ==
    ASSUME Apart, CatalogTypes, Current, Chained, Agreed, Validated, Grows,
           NEW c \in CommandIDs, NEW applied \in BOOLEAN, NEW w \in Writes \cup {NoWrites}, Mutate(c, applied, w)
    PROVE  Agreed' /\ Validated'
<1>1. /\ catPhase = "ready" /\ phase = "group" /\ ~poisoned /\ UNCHANGED <<catFile, catMedia, catalog, catPhase, op, next>>
      /\ mem'.records = IF applied THEN Overwrite(mem.records, w) ELSE mem.records
  BY DEF Apart, Closed, Recovering, Mutate, stage, Executes, applyKeyed, NewRecord, catalogFile
<1>2. catalog \in Held /\ Held' = Held
  BY <1>1 DEF Held, Serves, HasHandle
<1>3. Sound(catalog) /\ catalog.nextID <= catFile.nextID /\ Low /\ mem \in Recoverable
  BY <1>1, <1>2 DEF HasHandle, Chained, Serves, Validated, Working, Grows, Serving
<1>4. applied => \A k \in DOMAIN w : \E d \in catalog.datasets : d.id = k.id
  BY DEF Mutate, PermittedWrites
<1>5. ASSUME NEW m \in Recoverable', NEW k \in Live(m.records)
      PROVE  (applied /\ k \in DOMAIN w) \/ \E n \in Recoverable : k \in Live(n.records)
  <2>1. CASE m \in Recoverable
    BY <1>5, <2>1
  <2>2. CASE m = mem'
    <3>1. k \in Live(mem.records) \/ (applied /\ k \in DOMAIN w)
      BY <1>1, <1>5, <2>2 DEF Live, Overwrite
    <3> QED
      BY <1>3, <3>1
  <2> QED
    BY <2>1, <2>2 DEF Grows
<1>6. Low'
  <2> SUFFICES ASSUME NEW m \in Recoverable', NEW k \in Live(m.records) PROVE k.id < catFile.nextID
    BY <1>1 DEF Low
  <2>1. CASE \E n \in Recoverable : k \in Live(n.records)
    BY <1>3, <2>1 DEF Low
  <2>2. CASE applied /\ k \in DOMAIN w
    <3>1. PICK d \in catalog.datasets : d.id = k.id /\ d.id < catalog.nextID
      BY <1>3, <1>4, <2>2 DEF Sound
    <3>2. d.id \in Nat /\ catalog.nextID \in Nat /\ catFile.nextID \in Nat
      BY DEF CatalogTypes, Catalogs, Infos
    <3> QED
      BY <1>3, <3>1, <3>2
  <2> QED
    BY <1>5, <2>1, <2>2
<1>7. Agreed'
  <2> SUFFICES ASSUME NEW a \in Held, NEW m \in Recoverable', NEW k \in Live(m.records), NEW d \in a.datasets, d.id = k.id
               PROVE  speltName(nameOf(d)) = speltName(owner'[k.id])
    BY <1>2 DEF Agreed
  <2>1. k.id \in DatasetIDs
    BY DEF Live, DatasetIDs
  <2>2. owner'[k.id] = IF applied /\ \E j \in DOMAIN w : j.id = k.id
                       THEN nameOf(CHOOSE e \in catalog.datasets : e.id = k.id) ELSE owner[k.id]
    BY <2>1 DEF Mutate
  <2>3. CASE applied /\ \E j \in DOMAIN w : j.id = k.id
    <3>1. PICK e \in catalog.datasets : e.id = k.id /\ e = CHOOSE f \in catalog.datasets : f.id = k.id
      BY <1>4, <2>3
    <3>2. Same(d, e)
      <4>1. \A x, y \in Held : \A f \in x.datasets, g \in y.datasets : f.id = g.id => Same(f, g)
        BY DEF Chained
      <4> QED
        BY <1>2, <3>1, <4>1
    <3> QED
      BY <2>2, <2>3, <3>1, <3>2 DEF Same
  <2>4. CASE ~(applied /\ \E j \in DOMAIN w : j.id = k.id)
    <3>1. PICK n \in Recoverable : k \in Live(n.records)
      BY <1>5, <2>4
    <3> QED
      BY <2>2, <2>4, <3>1 DEF Agreed
  <2> QED
    BY <2>3, <2>4
<1> QED
  BY <1>6, <1>7 DEF Validated

\* The other steps take no record to another dataset: a new ID is above those of all records.
LEMMA AgreedKept ==
    ASSUME DirectorySync, Apart, CatalogTypes, Current, Chained, Agreed, Validated, [Next]_vars,
           Recoverable' \subseteq Recoverable, UNCHANGED owner
    PROVE  Agreed'
<1> SUFFICES ASSUME NEW c \in Held', NEW m \in Recoverable, NEW k \in Live(m.records), NEW d \in c.datasets, d.id = k.id
             PROVE  speltName(nameOf(d)) = speltName(owner[k.id])
  BY DEF Agreed
<1>1. CASE \E x \in Held : \E e \in x.datasets : Same(d, e)
  <2>1. PICK x \in Held : \E e \in x.datasets : Same(d, e)
    BY <1>1
  <2>2. PICK e \in x.datasets : Same(d, e)
    BY <2>1
  <2>3. speltName(nameOf(e)) = speltName(owner[k.id])
    BY <2>2 DEF Agreed, Same
  <2> QED
    BY <2>2, <2>3 DEF Same
<1>2. CASE Structural /\ d.id = catFile.nextID
  <2>1. HasHandle
    BY <1>2, StructuralStart
  <2>2. k.id < catFile.nextID
    BY <2>1 DEF HasHandle, Validated, Working, Low
  <2>3. catFile.nextID \in Nat
    BY DEF CatalogTypes, Catalogs
  <2> QED
    BY <1>2, <2>2, <2>3
<1> QED
  BY <1>1, <1>2, HeldEntries

\* Every record that recovery may find stays with its dataset.
LEMMA AgreedStep ==
    ASSUME DirectorySync
    PROVE  /\ Apart /\ CatalogTypes /\ Current /\ Chained /\ Grows /\ Agreed /\ Validated /\ [Next]_vars
           /\ losePower => Single'
           => (Agreed /\ Validated)'
<1> SUFFICES ASSUME Apart, CatalogTypes, Current, Chained, Grows, Agreed, Validated, [Next]_vars, losePower => Single'
             PROVE  (Agreed /\ Validated)'
  OBVIOUS
<1>1. ASSUME mem' = mem \/ phase' # "group" PROVE Recoverable' \subseteq Recoverable
  BY <1>1 DEF Grows
<1>2. ASSUME Recoverable' \subseteq Recoverable, UNCHANGED <<catFile, owner>>, Working' => Low
      PROVE  (Agreed /\ Validated)'
  <2>1. Validated'
    BY <1>2 DEF Validated, Low, Single
  <2> QED
    BY <1>2, <2>1, AgreedKept
<1>3. CASE persistRename
  <2>1. catPhase = "rename" /\ catFile' = decoded(next) /\ UNCHANGED <<storageVars, owner>>
    BY <1>3 DEF persistRename, catalogHistory
  <2>2. Recoverable' \subseteq Recoverable
    BY <1>1, <2>1 DEF storageVars
  <2>3. Low /\ catFile.nextID <= next.nextID /\ catFile'.nextID = next.nextID
    BY <2>1, DecodedIs DEF Validated, Working, Chained, CatalogTypes
  <2>4. Low'
    <3> SUFFICES ASSUME NEW m \in Recoverable, NEW k \in Live(m.records) PROVE k.id < catFile'.nextID
      BY <2>2 DEF Low
    <3>1. k.id \in Nat /\ catFile.nextID \in Nat /\ next.nextID \in Nat
      BY CatalogAssumption DEF Live, CatalogTypes, Catalogs
    <3>2. k.id < catFile.nextID
      BY <2>3 DEF Low
    <3> QED
      BY <2>3, <3>1, <3>2
  <2>5. Agreed'
    BY <2>1, <2>2, AgreedKept
  <2> QED
    BY <2>4, <2>5 DEF Validated
<1>4. CASE losePower
  <2>1. phase' = "down" /\ catPhase' = "closed" /\ UNCHANGED owner
    BY <1>4 DEF losePower, powerLoss, DropHandle
  <2>2. Agreed'
    BY <1>1, <2>1, AgreedKept
  <2> QED
    BY <1>4, <2>1, <2>2 DEF Validated, Working
<1>5. CASE loadCatalog
  <2>1. UNCHANGED <<catFile, owner>> /\ phase = "open" /\ phase' # "group"
    BY <1>5 DEF loadCatalog, CatalogRefused, HandleReady, storageVars, catalogFile
  <2>2. ASSUME Working', NEW k \in Live(mem.records) PROVE k.id < catFile.nextID
    <3>1. validateCatalogState(catFile, mem.records) = "ready"
      BY <1>5, <2>2, LoadEffect DEF Working, Outcomes
    <3>2. PICK d \in catFile.datasets : d.id = k.id
      BY <2>2, <3>1 DEF validateCatalogState
    <3>3. Sound(catFile)
      BY DEF Chained, Held
    <3> QED
      BY <3>2, <3>3 DEF Sound
  <2>3. mem \in Recoverable
    BY <2>1 DEF Grows, Serving
  <2>4. Working' => Low
    <3>1. CASE Low
      BY <3>1
    <3>2. ASSUME Single, Working', NEW m \in Recoverable, NEW k \in Live(m.records) PROVE k.id < catFile.nextID
      <4>1. m = mem
        BY <2>3, <3>2 DEF Single
      <4> QED
        BY <2>2, <3>2, <4>1
    <3> QED
      BY <3>1, <3>2 DEF Validated, Low
  <2> QED
    BY <1>1, <1>2, <2>1, <2>4
<1>6. ASSUME NEW c \in CommandIDs, NEW applied \in BOOLEAN, NEW w \in Writes \cup {NoWrites}, Mutate(c, applied, w)
      PROVE  (Agreed /\ Validated)'
  BY <1>6, MutateKeeps
<1>7. CASE UNCHANGED <<catFile, owner>> /\ (Working' => Working) /\ (mem' = mem \/ phase' # "group")
  BY <1>1, <1>2, <1>7 DEF Validated
<1> QED
  BY <1>3, <1>4, <1>5, <1>6, <1>7, RecordSteps

\* After power loss there is one state to recover.
LEMMA PowerLeavesOne ==
    ASSUME TypeOK, TypeOK', losePower
    PROVE  Single'
<1>1. walMedia' = {wal'} /\ snapMedia' = {snap'}
  BY DEF losePower, powerLoss
<1>2. ASSUME NEW m \in Nat, NEW n \in Nat, Recovers(m)', Recovers(n)' PROVE m = n
  <2>1. Tops(snap', wal', m) /\ Tops(snap', wal', n)
    BY <1>1, <1>2 DEF Recovers, Tops
  <2>2. m <= n /\ n <= m
    BY <2>1 DEF Tops
  <2> QED
    BY <2>2
<1>3. Len(log') \in Nat
  BY DEF TypeOK
<1> QED
  BY <1>2, <1>3 DEF Single, Recoverable

\* The invariants of the store and of the files give what these steps use.
LEMMA RecordsInvariant ==
    ASSUME PlainText, OneHorizon, DirectorySync
    PROVE  Spec => [](Sourced /\ Chained /\ Roomy /\ Agreed /\ Validated)
<1> DEFINE Store == TypeOK /\ Bounds /\ SafeFiles /\ CopiesExact
           Base == Apart /\ Current /\ CatalogTypes
           Inv == Sourced /\ Chained /\ Roomy /\ Agreed /\ Validated
<1>1. Init => Inv
  <2> SUFFICES ASSUME Init PROVE Inv
    OBVIOUS
  <2>1. catPhase = "closed" /\ phase = "down" /\ catFile = NoCatalog /\ catMedia = {NoCatalog} /\ NoCatalog.datasets = {}
    BY DEF Init, StorageInit, NoCatalog
  <2>2. Sourced
    BY <2>1 DEF Sourced, Serving, Snapshotting
  <2>3. Chained /\ Roomy /\ Agreed
    <3>1. Held = {NoCatalog} /\ ~Serves
      BY <2>1 DEF Held, Serves, HasHandle
    <3>2. NoCatalog.nextID <= NoCatalog.nextID
      BY DEF NoCatalog
    <3> QED
      BY <2>1, <3>1, <3>2 DEF Chained, Sound, Roomy, Agreed
  <2>4. \A m \in Recoverable : m = EmptyState
    BY DEF Init, StorageInit, Recoverable, StateIn
  <2>5. Validated
    BY <2>1, <2>4 DEF Validated, Working, Single
  <2> QED
    BY <2>2, <2>3, <2>5
<1>2. Store /\ Store' /\ Base /\ Inv /\ [Next]_vars => Inv'
  <2> SUFFICES ASSUME Store, Store', Base, Inv, [Next]_vars PROVE Inv'
    OBVIOUS
  <2>1. SharedStoreStep
    BY CatalogStoreStep
  <2>2. Sourced'
    BY <2>1, SourcedStep
  <2>3. Chained' /\ Roomy'
    BY ChainedStep, RoomyStep
  <2>4. Grows
    BY <2>1, MemRecoverable, RecoverableStep DEF Grows
  <2>5. losePower => Single'
    BY PowerLeavesOne
  <2> QED
    BY <2>2, <2>3, <2>4, <2>5, AgreedStep
<1>3. Spec => [](Store /\ Base)
  BY StoreInvariant, StoreExactInvariant, CurrentInvariant, PTL
<1> HIDE DEF Store, Base, Inv
<1>4. Spec => []Inv
  BY <1>1, <1>2, <1>3, PTL DEF Spec
<1> QED
  BY <1>4 DEF Inv

\* Every record a handle serves is in the dataset that it was last written to, by name as the
\* catalog file spells it, and no dataset exceeds its bound, although power loss can take
\* names away and IDs are given again after it, and whatever encoding/json does to names.
THEOREM RecordsStay ==
    ASSUME PlainText, OneHorizon, DirectorySync
    PROVE  Spec => []RecordsStayInTheirDataset
<1>1. TypeOK /\ Bounds /\ CopiesExact /\ Apart /\ Sourced /\ Chained /\ Roomy /\ Agreed => RecordsStayInTheirDataset
  <2> SUFFICES ASSUME TypeOK, Bounds, CopiesExact, Apart, Sourced, Chained, Roomy, Agreed, HasHandle
               PROVE  /\ WithinBounds(catalog, mem.records)
                      /\ \A k \in Live(mem.records) :
                           {speltName(nameOf(d)) : d \in {e \in catalog.datasets : e.id = k.id}} = {speltName(owner[k.id])}
    BY DEF RecordsStayInTheirDataset
  <2>1. mem \in Recoverable
    BY MemRecoverable DEF Apart, HasHandle, Serving
  <2>2. Room(catalog) /\ catalog \in Held
    BY DEF Roomy, Serves, Held
  <2>3. ASSUME NEW k \in Live(mem.records)
        PROVE  {speltName(nameOf(d)) : d \in {e \in catalog.datasets : e.id = k.id}} = {speltName(owner[k.id])}
    <3>1. \E d \in catalog.datasets : d.id = k.id
      BY <2>2 DEF Room, Named
    <3>2. \A d \in catalog.datasets : d.id = k.id => speltName(nameOf(d)) = speltName(owner[k.id])
      BY <2>1, <2>2 DEF Agreed
    <3> QED
      BY <3>1, <3>2
  <2> QED
    BY <2>2, <2>3 DEF Room
<1> QED
  BY <1>1, StoreInvariant, StoreExactInvariant, CurrentInvariant, RecordsInvariant, PTL

-----------------------------------------------------------------------------
(* The marker and the files *)

\* The store gives the catalog what its steps use.
LEMMA FactsHold ==
    ASSUME DirectorySync
    PROVE  Spec => []StoreFacts
<1>1. TypeOK /\ Bounds /\ AckedDurable /\ PoisonedIdle => StoreFacts
  BY DEF StoreFacts, Bounds, FileBounds, PoisonedIdle
<1> QED
  BY <1>1, StoreInvariant, PTL

\* The marker names the owner in every behaviour.
LEMMA OwnedInvariant ==
    ASSUME DirectorySync
    PROVE  Spec => []Owned
<1>1. Init => Owned
  BY DEF Init, StorageInit, MarkerInit, Owned, Closed
<1> QED
  BY <1>1, OwnedStep, FactsHold, CurrentInvariant, PTL DEF Spec

\* No directory with acknowledged catalog data is ever opened as another product model,
\* whichever models there are and whenever the marker's creation was cut off.
THEOREM OwnerStays ==
    ASSUME DirectorySync
    PROVE  Spec => []NeverReinterpreted
<1>1. Owned => NeverReinterpreted
  BY CatalogAssumption DEF Owned, NeverReinterpreted
<1> QED
  BY <1>1, OwnedInvariant, PTL

\* The three files together, on the medium and on their way to it.
LEMMA FitInvariant ==
    ASSUME PlainText, OneHorizon, DirectorySync
    PROVE  Spec => [](FilesFit /\ HandleFit /\ MarkerFit)
<1>1. Init => FilesFit /\ HandleFit /\ MarkerFit
  <2>1. \A own : FitSnap(NoCatalog, own, EmptyState) /\ FitFrames(NoCatalog, own, EmptyFile.frames)
    BY DEF FitSnap, FitFrames, Fit, NoCatalog, EmptyState, EmptyFile, Live
  <2> QED
    BY <2>1 DEF Init, StorageInit, MarkerInit, FilesFit, Fits, HandleFit, HasHandle, MarkerFit, Closed
<1> DEFINE Base == StoreFacts /\ Apart /\ Current /\ CatalogTypes /\ Owned /\ RecordsStayInTheirDataset
           Together == FilesFit /\ HandleFit /\ MarkerFit
<1>2. Base /\ Together /\ [Next]_vars => Together'
  BY FilesFitStep, HandleFitStep, MarkerFitStep
<1>3. Spec => []Base
  BY FactsHold, CurrentInvariant, OwnedInvariant, RecordsStay, PTL
<1> HIDE DEF Base, Together
<1>4. Init => Together
  BY <1>1 DEF Together
<1>5. Spec => []Together
  BY <1>2, <1>3, <1>4, PTL DEF Spec
<1> QED
  BY <1>5 DEF Together

\* Whatever power loss leaves of the marker, the catalog, the snapshot and the WAL fits
\* together, for any keys, requests and product models, when encoding/json leaves the keys
\* alone; a dataset is found if its own name is plain, whatever the other names are.
THEOREM FilesStayTogether ==
    ASSUME PlainText, OneHorizon, DirectorySync
    PROVE  Spec => []FilesFitTogether
<1>1. TypeOK /\ FilesFit /\ MarkerFit => FilesFitTogether
  <2> SUFFICES ASSUME TypeOK, FilesFit, MarkerFit, reliance = "durable"
               PROVE  /\ populated => \A m \in markerMedia : m[1] # "none"
                      /\ \A c \in catMedia : \A id \in {jsonText[k].id : k \in SnapshotKeys \cup FrameKeys} :
                           PlainOwner(id) => \E d \in c.datasets : d.id = id
                      /\ NoCatalog \in catMedia => /\ \A s \in snapMedia : s.sequence = 0
                                                   /\ \A w \in walMedia : w.frames = <<>>
    BY DEF FilesFitTogether
  <2>1. ASSUME NEW w \in walMedia, NEW i \in DOMAIN w.frames PROVE DOMAIN w.frames[i].writes \subseteq Keys
    <3>1. w.frames \in Seq(Record)
      BY DEF TypeOK, File
    <3>2. w.frames[i] \in Record
      BY <2>1, <3>1
    <3>3. w.frames[i].writes \in Writes \cup {NoWrites}
      BY <3>2 DEF Record
    <3> QED
      BY <3>3, StorageAssumption DEF NoWrites
  <2>2. ASSUME NEW c \in catMedia, NEW k \in SnapshotKeys \cup FrameKeys, PlainOwner(jsonText[k].id)
        PROVE  \E d \in c.datasets : d.id = jsonText[k].id
    <3>1. Fits(c)
      BY DEF FilesFit
    <3>2. \/ \E s \in snapMedia : k \in Live(s.records)
          \/ \E w \in walMedia : \E i \in DOMAIN w.frames : k \in DOMAIN w.frames[i].writes
      <4>1. ASSUME k \in SnapshotKeys PROVE \E s \in snapMedia : k \in Live(s.records)
        BY <4>1, Zenon DEF SnapshotKeys
      <4>2. ASSUME k \in FrameKeys
            PROVE  \E w \in walMedia : \E i \in DOMAIN w.frames : k \in DOMAIN w.frames[i].writes
        <5>1. PICK ks \in {UNION {DOMAIN w.frames[i].writes : i \in DOMAIN w.frames} : w \in walMedia} : k \in ks
          BY <4>2, Zenon DEF FrameKeys
        <5>2. PICK w \in walMedia : ks = UNION {DOMAIN w.frames[i].writes : i \in DOMAIN w.frames}
          BY <5>1, Zenon
        <5>3. \E i \in DOMAIN w.frames : k \in DOMAIN w.frames[i].writes
          BY <5>1, <5>2, Zenon
        <5> QED
          BY <5>3, Zenon
      <4> QED
        BY <4>1, <4>2
    <3>3. k \in Keys
      BY <2>1, <3>2 DEF Live
    <3>4. jsonText[k] = k
      BY <3>3 DEF PlainText
    <3>5. \E ks : k \in ks /\ Fit(c, owner, ks)
      BY <3>1, <3>2 DEF Fits, FitSnap, FitFrames
    <3>6. Has(c, k.id, owner[k.id])
      BY <2>2, <3>3, <3>4, <3>5 DEF Fit, PlainOwner
    <3> QED
      BY <3>4, <3>6 DEF Has
  <2>3. ASSUME NoCatalog \in catMedia
        PROVE  (\A s \in snapMedia : s.sequence = 0) /\ \A w \in walMedia : w.frames = <<>>
    BY <2>3 DEF FilesFit, Fits, FitSnap, FitFrames
  <2>4. populated => \A m \in markerMedia : m[1] # "none"
    BY DEF MarkerFit
  <2> QED
    BY <2>2, <2>3, <2>4
<1> QED
  BY <1>1, FitInvariant, StoreInvariant, PTL

-----------------------------------------------------------------------------
(* Scans *)

\* afterApply brings the slices to where rebuilding them would.
LEMMA SlicesHold == SliceFacts
<1>1. IsFiniteSet(Keys) /\ \A k \in Keys : k.key \in Nat
  BY CatalogAssumption
<1>2. ASSUME NEW keys, NEW records, NEW w \in Writes, Follows(keys, records), NEW id \in DatasetIDs
      PROVE  applyQueryKeyMutations(keys, w)[id] = Ordered(InDataset(Overwrite(records, w), id))
  <2> DEFINE K == {k \in Keys : k.id = id}
             S == {k \in DOMAIN w : k.id = id}
             deletes == {k \in DOMAIN w : w[k] = Absent}
             ks == InDataset(records, id)
             next_ == InDataset(Overwrite(records, w), id)
  <2>1. keys[id] = Ordered(ks)
    BY <1>2 DEF Follows
  <2>2. IsFiniteSet(K)
    BY <1>1, FS_Subset
  <2>3. (\A k \in K : k.key \in Nat) /\ \A x, y \in K : x.key = y.key => x = y
    BY CatalogAssumption
  <2>4. S \in SUBSET K /\ ks \in SUBSET K
    BY StorageAssumption DEF InDataset, Live
  <2>5. next_ = (ks \ S) \cup (S \ deletes)
    BY StorageAssumption DEF InDataset, Live, Overwrite
  <2>6. applyQueryKeyMutations(keys, w)[id] = ApplyKeyMutations(keys[id], S, deletes)
    BY DEF applyQueryKeyMutations
  <2> HIDE DEF K, S, deletes, ks, next_
  <2>7. ApplyKeyMutations(Ordered(ks), S, deletes) = Ordered(next_)
    BY <2>2, <2>3, <2>4, <2>5, SliceFollows
  <2> QED
    BY <2>1, <2>6, <2>7 DEF next_
<1>3. ASSUME NEW ks \in SUBSET Keys PROVE Len(Ordered(ks)) \in Nat
  <2>1. IsFiniteSet(ks) /\ \A k \in ks : k.key \in Nat
    BY <1>1, FS_Subset
  <2>2. Rising(Ordered(ks))
    BY <2>1, KeysRise
  <2> QED
    BY <2>2 DEF Rising
<1>4. Ordered({}) = <<>>
  <2>1. Rising(<<>>) /\ Entries(<<>>) = {} /\ {k.key : k \in {}} = {}
    BY DEF Rising, Entries
  <2> QED
    BY <2>1, OrderedIs
<1> QED
  BY <1>2, <1>3, <1>4 DEF SliceFacts, Follows

\* Both hold in every behaviour.
LEMMA ScanInvariant == Spec => [](Cursor /\ Scanning)
<1>1. Init => Cursor /\ Scanning
  BY DEF Init, Cursor, Serves, Scanning, HasHandle
<1> QED
  BY <1>1, SlicesHold, CursorStep, ScanningStep, CurrentInvariant, PTL DEF Spec

\* For any keys, write buffers and datasets, the slices that single mutations have brought
\* about are the sorted live keys of each dataset.
THEOREM CursorStaysExact == Spec => []CursorExact
<1>1. Cursor => CursorExact
  BY DEF Cursor, Serves, Follows, CursorExact
<1> QED
  BY <1>1, ScanInvariant, PTL

\* A scan shows the dataset as it was after one decision, however long it takes.
THEOREM ScansSeeOneState ==
    ASSUME PlainText, OneHorizon, DirectorySync
    PROVE  Spec => []ScanSeesOneState
<1>1. CopiesExact /\ Cursor /\ Scanning => ScanSeesOneState
  <2> SUFFICES ASSUME CopiesExact, Cursor, Scanning, catPhase = "scan"
               PROVE  LET records == StateAt(scan.at).records
                          keys == Ordered(InDataset(records, scan.id))
                      IN /\ Len(scan.shown) <= Len(keys)
                         /\ \A i \in DOMAIN scan.shown :
                              scan.shown[i] = <<keys[i], records[[id |-> scan.id, key |-> keys[i]]]>>
    BY DEF ScanSeesOneState
  <2>1. scan.at = mem.sequence
    BY DEF Scanning
  <2>2. StateAt(scan.at) = mem
    BY <2>1 DEF CopiesExact, StateAt, StateIn
  <2>3. keysOf(scan.id) = Ordered(InDataset(mem.records, scan.id)) /\ Len(keysOf(scan.id)) \in Nat
    BY SlicesHold, CursorKeys DEF HasHandle
  <2>4. PICK n \in 0..Len(keysOf(scan.id)) : scan.shown = [i \in 1..n |-> Visited(i)]
    BY DEF Scanning
  <2>5. n \in Nat /\ Len(scan.shown) = n /\ DOMAIN scan.shown = 1..n /\ \A i \in 1..n : scan.shown[i] = Visited(i)
    BY <2>3, <2>4
  <2> QED
    BY <2>2, <2>3, <2>5 DEF Visited
<1> QED
  BY <1>1, ScanInvariant, StoreExactInvariant, PTL

=============================================================================
