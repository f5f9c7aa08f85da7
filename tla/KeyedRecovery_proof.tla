------------------------ MODULE KeyedRecovery_proof -------------------------
(***************************************************************************)
(* Recovery is exact, and a command is decided once in its horizon, when   *)
(* text survives encoding/json and the horizon stays the same from open to *)
(* open. As long as power stays on, what was shown is never lost and every *)
(* store opens again.                                                      *)
(***************************************************************************)
EXTENDS KeyedStorage_proof

\* A leaf is tried with Zenon and then with the SMT solver, unless it names a prover.
USE ZenonT(2), SMTT(20), ZenonT(30)

\* Every open uses the same DedupeHorizon.
OneHorizon == \A g, h \in DedupeHorizons : g = h

-----------------------------------------------------------------------------
(* Exactness *)

StateIn(l, n) == IF n = 0 THEN EmptyState ELSE l[n].after

\* Each decision of the timeline led from the state before it to the state after it.
TimelineExact ==
    \A i \in DOMAIN log :
        /\ log[i].rec.sequence = i
        /\ log[i].after = applyKeyed(StateIn(log, i - 1), log[i].rec, horizon)
        /\ Covered(log[i].after)

\* Memory and both files, on every medium, hold states and decisions of the timeline.
CopiesExact ==
    /\ mem = StateIn(log, mem.sequence)
    /\ \A s \in snapMedia : s = StateIn(log, s.sequence)
    /\ \A w \in walMedia : \A i \in DOMAIN w.frames :
           w.frames[i].sequence \in DOMAIN log /\ w.frames[i] = log[w.frames[i].sequence].rec

\* A new store retains nothing.
LEMMA EmptyCovered == Covered(EmptyState)
BY DEF Covered, EmptyState

\* States of the timeline are well formed.
LEMMA StateInFacts ==
    ASSUME TypeOK, TimelineExact, NEW n \in 0..Len(log)
    PROVE  StateIn(log, n) \in State /\ StateIn(log, n).sequence = n /\ Covered(StateIn(log, n))
<1>1. CASE n = 0
  BY <1>1, EmptyTypes, EmptyCovered DEF StateIn, EmptyState
<1>2. CASE n # 0
  <2>1. n \in DOMAIN log /\ log[n].after \in State /\ log[n].rec \in Record
    <3>1. log \in Seq(Entry)
      BY DEF TypeOK
    <3>2. n \in 1..Len(log)
      BY <1>2, <3>1
    <3>3. n \in DOMAIN log /\ log[n] \in Entry
      BY <3>1, <3>2
    <3> QED
      BY <3>3 DEF Entry
  <2>2. log[n].after.sequence = log[n].rec.sequence
    <3>1. log[n].after = applyKeyed(StateIn(log, n - 1), log[n].rec, horizon)
      BY <2>1 DEF TimelineExact
    <3> QED
      BY <3>1 DEF applyKeyed
  <2> QED
    BY <1>2, <2>1, <2>2 DEF StateIn, TimelineExact
<1> QED
  BY <1>1, <1>2

\* The timeline stays exact.
LEMMA TimelineStep ==
    ASSUME OneHorizon
    PROVE  TypeOK /\ TypeOK' /\ Bounds /\ TimelineExact /\ CopiesExact /\ [StorageNext]_storageVars
               => TimelineExact'
<1> SUFFICES ASSUME TypeOK, TypeOK', Bounds, TimelineExact, CopiesExact, [StorageNext]_storageVars
             PROVE  TimelineExact'
  OBVIOUS
<1>1. horizon' = horizon
  BY DEF OneHorizon, TypeOK
<1>2. CASE UNCHANGED log
  BY <1>1, <1>2 DEF TimelineExact
<1>3. CASE replayDone \/ truncateKeyedTailSync
  <2>1. /\ Len(log') = mem.sequence /\ \A i \in 1..mem.sequence : log'[i] = log[i]
        /\ mem.sequence <= Len(log) /\ mem.sequence \in Nat
    BY <1>3, OpenedLog, Numbers DEF replayDone, truncateKeyedTailSync, Bounds, MemBounds
  <2>2. DOMAIN log' = 1..mem.sequence /\ DOMAIN log = 1..Len(log) /\ Len(log) \in Nat
    BY <2>1 DEF TypeOK
  <2>3. ASSUME NEW i \in DOMAIN log'
        PROVE  i \in DOMAIN log /\ log'[i] = log[i] /\ StateIn(log', i - 1) = StateIn(log, i - 1)
    BY <2>1, <2>2 DEF StateIn
  <2> QED
    BY <1>1, <2>3 DEF TimelineExact
<1>4. ASSUME NEW c \in CommandIDs, NEW applied \in BOOLEAN, NEW w \in Writes, stage(c, applied, w)
      PROVE  TimelineExact'
  <2> DEFINE r == NewRecord(c, applied, w)
  <2>1. r \in Record /\ r.sequence = Len(log) + 1 /\ mem.sequence = Len(log)
    BY <1>4, NewRecordType DEF TypeOK, stage, Executes, NewRecord, Bounds, MemBounds, Serving
  <2> HIDE DEF r
  <2>2. log' = Append(log, [rec |-> r, after |-> mem']) /\ mem' = applyKeyed(mem, r, horizon)
    BY <1>4 DEF stage, r
  <2>3. log \in Seq(Entry) /\ mem \in State /\ horizon \in Nat \ {0}
    BY StorageAssumption DEF TypeOK
  <2>4. Covered(mem')
    <3>1. mem = StateIn(log, Len(log)) /\ Len(log) \in 0..Len(log)
      BY <2>1, Numbers DEF CopiesExact
    <3>2. Covered(mem)
      BY <3>1, StateInFacts
    <3> QED
      BY <2>1, <2>2, <2>3, <3>2, ApplyKeyedCovered
  <2>5. ASSUME NEW i \in DOMAIN log'
        PROVE  /\ StateIn(log', i - 1) = StateIn(log, i - 1)
               /\ \/ i \in DOMAIN log /\ log'[i] = log[i]
                  \/ i = Len(log) + 1 /\ log'[i] = [rec |-> r, after |-> mem']
    BY <2>2, <2>3 DEF StateIn
  <2>6. mem = StateIn(log, Len(log))
    BY <2>1 DEF CopiesExact
  <2>7. ASSUME NEW i \in DOMAIN log'
        PROVE  /\ log'[i].rec.sequence = i
               /\ log'[i].after = applyKeyed(StateIn(log', i - 1), log'[i].rec, horizon')
               /\ Covered(log'[i].after)
    <3>1. CASE i \in DOMAIN log /\ log'[i] = log[i]
      BY <1>1, <2>5, <3>1 DEF TimelineExact
    <3>2. CASE i = Len(log) + 1 /\ log'[i] = [rec |-> r, after |-> mem']
      <4>1. log'[i].rec = r /\ log'[i].after = mem' /\ StateIn(log', i - 1) = mem
        BY <2>5, <2>6, <3>2, Numbers
      <4> QED
        BY <1>1, <2>1, <2>2, <2>4, <3>2, <4>1
    <3> QED
      BY <2>5, <3>1, <3>2
  <2> QED
    BY <2>7 DEF TimelineExact
<1> QED
  BY Zenon, <1>2, <1>3, <1>4
     DEF StorageNext, storageVars, history, openKeyed, loadKeyedSnapshot, replayKeyedWAL, truncateKeyedTail,
         openStorageFails, beginGroup, stageFails, retry, syncKeyed, syncKeyedFails, skipSync, reply, GetKeyed,
         SnapshotKeyed, Close, snapshotRename, snapshotSyncDirectory, snapshotTruncate, snapshotSync,
         snapshotFails, processCrash, powerLoss

\* A cut or a longer timeline has the same states up to where both go.
LEMMA SameStates ==
    ASSUME NEW l \in Seq(Entry), NEW k \in Seq(Entry), NEW n \in Nat, n <= Len(l), n <= Len(k),
           \A i \in 1..n : l[i] = k[i]
    PROVE  StateIn(l, n) = StateIn(k, n)
BY DEF StateIn

\* Memory and files stay exact: loading a snapshot and replaying a frame rebuild what the
\* callbacks computed.
LEMMA CopiesStep ==
    ASSUME PlainText
    PROVE  TypeOK /\ TypeOK' /\ Bounds /\ TimelineExact /\ CopiesExact /\ [StorageNext]_storageVars
               => CopiesExact'
<1> SUFFICES ASSUME TypeOK, TypeOK', Bounds, TimelineExact, CopiesExact, [StorageNext]_storageVars
             PROVE  CopiesExact'
  OBVIOUS
<1>1. log \in Seq(Entry) /\ log' \in Seq(Entry) /\ Len(log) \in Nat /\ DOMAIN log = 1..Len(log)
  BY DEF TypeOK
<1>2. ASSUME log' = log, mem' = mem \/ mem' = EmptyState,
             \A s \in snapMedia' : s \in snapMedia \/ s = mem,
             \A f \in walMedia' : f = EmptyFile \/ \E w \in walMedia : f.frames = w.frames
      PROVE  CopiesExact'
  <2>1. mem' = StateIn(log', mem'.sequence)
    BY <1>2 DEF CopiesExact, StateIn, EmptyState
  <2>2. \A s \in snapMedia' : s = StateIn(log', s.sequence)
    BY <1>2 DEF CopiesExact
  <2>3. ASSUME NEW f \in walMedia', NEW i \in DOMAIN f.frames
        PROVE  f.frames[i].sequence \in DOMAIN log' /\ f.frames[i] = log'[f.frames[i].sequence].rec
    <3>1. f # EmptyFile
      BY <2>3 DEF EmptyFile
    <3>2. PICK w \in walMedia : f.frames = w.frames
      BY <1>2, <3>1
    <3> QED
      BY <1>2, <2>3, <3>2 DEF CopiesExact
  <2> QED
    BY <2>1, <2>2, <2>3 DEF CopiesExact
<1>3. CASE loadKeyedSnapshot
  <2>1. snap \in State /\ Covered(snap) /\ snap = StateIn(log, snap.sequence)
    <3>1. snap = StateIn(log, snap.sequence) /\ snap.sequence \in 0..Len(log)
      BY Numbers DEF CopiesExact, Bounds, FileBounds
    <3> QED
      BY <3>1, StateInFacts
  <2>2. DecodeState(snap) = snap
    BY <2>1, DecodeStateIdentity
  <2>3. mem' = mem \/ mem' = snap
    BY <1>3, <2>2 DEF loadKeyedSnapshot
  <2>4. UNCHANGED <<walMedia, snapMedia, log>>
    BY <1>3 DEF loadKeyedSnapshot, files, history
  <2> QED
    BY <2>1, <2>3, <2>4 DEF CopiesExact
<1>4. CASE replayKeyedWAL
  <2> DEFINE r == wal.frames[pos]
             last == IF pos = 1 THEN 0 ELSE wal.frames[pos - 1].sequence
  <2>1. pos \in DOMAIN wal.frames /\ wal \in walMedia
    BY <1>4 DEF replayKeyedWAL, TypeOK, File, Bounds, FileBounds
  <2>2. r \in Record /\ r.sequence \in DOMAIN log /\ r = log[r.sequence].rec
    BY <2>1, Numbers DEF CopiesExact
  <2>3. DecodeRecord(r) = r
    BY <2>2, DecodeRecordIdentity
  <2>4. UNCHANGED <<walMedia, snapMedia, log>>
    BY <1>4 DEF replayKeyedWAL, files, history
  <2> HIDE DEF r, last
  <2>5. /\ phase' = ReplayVerdict(r, last)
        /\ mem' = IF phase' = "replay" /\ r.sequence > mem.sequence THEN applyKeyed(mem, r, horizon) ELSE mem
    BY <1>4, <2>3 DEF replayKeyedWAL, r, last
  <2>6. CASE phase' = "replay" /\ r.sequence > mem.sequence
    <3>1. r.sequence = mem.sequence + 1
      BY <2>3, <2>5, <2>6 DEF ReplayVerdict
    <3>2. log[r.sequence].after = applyKeyed(StateIn(log, r.sequence - 1), r, horizon)
      BY <2>2 DEF TimelineExact
    <3>3. StateIn(log, r.sequence - 1) = mem
      BY <3>1, Numbers DEF CopiesExact
    <3>4. mem' = log[r.sequence].after
      BY <2>5, <2>6, <3>2, <3>3
    <3>5. mem'.sequence = r.sequence
      BY <2>5, <2>6 DEF applyKeyed
    <3>6. r.sequence # 0
      BY <2>2 DEF Record
    <3>7. mem' = StateIn(log', mem'.sequence)
      BY <2>4, <3>4, <3>5, <3>6 DEF StateIn
    <3> QED
      BY <2>4, <3>7 DEF CopiesExact
  <2>7. CASE ~(phase' = "replay" /\ r.sequence > mem.sequence)
    BY <2>4, <2>5, <2>7 DEF CopiesExact
  <2> QED
    BY <2>6, <2>7
<1>5. CASE replayDone \/ truncateKeyedTailSync
  <2>1. /\ Len(log') = mem.sequence /\ \A i \in 1..mem.sequence : log'[i] = log[i]
        /\ mem.sequence <= Len(log) /\ mem.sequence \in Nat
    BY <1>5, OpenedLog, Numbers DEF replayDone, truncateKeyedTailSync, Bounds, MemBounds
  <2>2. /\ \A s \in snapMedia : s.sequence <= mem.sequence
        /\ \A w \in walMedia : \A i \in DOMAIN w.frames : w.frames[i].sequence <= mem.sequence
    BY <1>5, AllReached DEF replayDone, truncateKeyedTailSync
  <2>3. mem' = mem /\ snapMedia' = snapMedia /\ walMedia' \subseteq walMedia
    BY <1>5 DEF replayDone, truncateKeyedTailSync, files, Bounds, FileBounds
  <2>4. \A n \in Nat : n <= mem.sequence => StateIn(log', n) = StateIn(log, n)
    BY SMTT(30), <1>1, <2>1, SameStates
  <2>5. \A s \in snapMedia' : s = StateIn(log', s.sequence)
    BY <2>2, <2>3, <2>4, Numbers DEF CopiesExact
  <2>6. ASSUME NEW w \in walMedia', NEW i \in DOMAIN w.frames
        PROVE  w.frames[i].sequence \in DOMAIN log' /\ w.frames[i] = log'[w.frames[i].sequence].rec
    <3>1. w.frames[i].sequence \in 1..mem.sequence
      BY <1>1, <2>2, <2>3, <2>6, Numbers DEF CopiesExact
    <3> QED
      BY <1>1, <2>1, <2>3, <2>6, <3>1 DEF CopiesExact
  <2> QED
    BY <2>1, <2>3, <2>4, <2>5, <2>6 DEF CopiesExact
<1>6. ASSUME NEW c \in CommandIDs, NEW applied \in BOOLEAN, NEW w \in Writes, stage(c, applied, w)
      PROVE  CopiesExact'
  <2> DEFINE r == NewRecord(c, applied, w)
  <2>1. r \in Record /\ r.sequence = Len(log) + 1
    BY <1>6, NewRecordType DEF TypeOK, stage, Executes, NewRecord, Bounds, MemBounds, Serving
  <2> HIDE DEF r
  <2>2. /\ log' = Append(log, [rec |-> r, after |-> mem']) /\ mem' = applyKeyed(mem, r, horizon)
        /\ wal' = WriteFrame(wal, r) /\ walMedia' = walMedia \cup {wal', Tear(wal)} /\ snapMedia' = snapMedia
    BY <1>6 DEF stage, r
  <2>3. /\ Len(log') = Len(log) + 1 /\ \A i \in 1..Len(log) : log'[i] = log[i]
        /\ log'[Len(log) + 1] = [rec |-> r, after |-> mem'] /\ DOMAIN log' = 1..Len(log) + 1
    BY <1>1, <2>2
  <2>4. \A n \in Nat : n <= Len(log) => StateIn(log', n) = StateIn(log, n)
    BY <1>1, <2>3, SameStates
  <2>5. mem' = StateIn(log', mem'.sequence)
    <3>1. mem'.sequence = Len(log) + 1
      BY <2>1, <2>2 DEF applyKeyed
    <3> QED
      BY <1>1, <2>3, <3>1 DEF StateIn
  <2>6. \A s \in snapMedia' : s = StateIn(log', s.sequence)
    BY <2>2, <2>4, Numbers DEF CopiesExact, Bounds, FileBounds
  <2>7. \A f \in walMedia : \A i \in DOMAIN f.frames :
           f.frames[i].sequence \in DOMAIN log' /\ f.frames[i] = log'[f.frames[i].sequence].rec
    BY <1>1, <2>3 DEF CopiesExact
  <2>8. \A i \in DOMAIN wal'.frames : \/ i \in DOMAIN wal.frames /\ wal'.frames[i] = wal.frames[i]
                                     \/ wal'.frames[i] = r
    BY <2>1, <2>2 DEF WriteFrame, TypeOK, File
  <2>9. wal \in walMedia
    BY DEF Bounds, FileBounds
  <2>10. r.sequence \in DOMAIN log' /\ r = log'[r.sequence].rec
    BY <1>1, <2>1, <2>3
  <2>11. \A f \in walMedia' : \A i \in DOMAIN f.frames :
            f.frames[i].sequence \in DOMAIN log' /\ f.frames[i] = log'[f.frames[i].sequence].rec
    <3>1. \A i \in DOMAIN wal'.frames :
             wal'.frames[i].sequence \in DOMAIN log' /\ wal'.frames[i] = log'[wal'.frames[i].sequence].rec
      BY <2>7, <2>8, <2>9, <2>10
    <3>2. Tear(wal).frames = wal.frames
      BY DEF Tear
    <3> QED
      BY <2>2, <2>7, <2>9, <3>1, <3>2
  <2> QED
    BY <2>5, <2>6, <2>11 DEF CopiesExact
<1>7. CASE UNCHANGED <<mem, walMedia, snapMedia, log>>
  BY <1>7 DEF CopiesExact
<1>8. CASE Discard /\ log' = log /\ walMedia' \subseteq walMedia /\ snapMedia' \subseteq snapMedia
  BY <1>2, <1>8 DEF Discard
<1>9. CASE \/ \E h \in DedupeHorizons : openKeyed(h)
           \/ openStorageFails \/ processCrash \/ powerLoss
  BY <1>8, <1>9 DEF openKeyed, openStorageFails, processCrash, powerLoss, files, history
<1>10. CASE Close \/ snapshotSync \/ snapshotFails
  <2>1. walMedia' \subseteq walMedia /\ snapMedia' \subseteq snapMedia /\ log' = log
    BY <1>10 DEF Close, snapshotSync, snapshotFails, files, history, Bounds, FileBounds
  <2>2. Discard \/ mem' = mem
    BY <1>10 DEF Close, snapshotSync, snapshotFails
  <2> QED
    BY <1>2, <1>8, <2>1, <2>2
<1>11. CASE truncateKeyedTail \/ snapshotRename \/ snapshotSyncDirectory \/ snapshotTruncate \/ syncKeyed
  BY <1>2, <1>11 DEF truncateKeyedTail, snapshotRename, snapshotSyncDirectory, snapshotTruncate, syncKeyed,
                     CutTail, history, Bounds, FileBounds
<1>12. ASSUME NEW c \in CommandIDs, NEW applied \in BOOLEAN, NEW w \in Writes, stageFails(c, applied, w)
       PROVE  CopiesExact'
  BY <1>2, <1>12 DEF stageFails, Tear, history, Bounds, FileBounds
<1> QED
  BY <1>3, <1>4, <1>5, <1>6, <1>7, <1>9, <1>10, <1>11, <1>12
     DEF StorageNext, storageVars, files, history, beginGroup, retry, syncKeyedFails, skipSync, reply,
         GetKeyed, SnapshotKeyed

\* The files of a new directory hold its empty timeline.
LEMMA ExactInit == StorageInit => TimelineExact /\ CopiesExact
<1> SUFFICES ASSUME StorageInit PROVE TimelineExact /\ CopiesExact
  OBVIOUS
<1>1. log = <<>> /\ DOMAIN log = {}
  BY DEF StorageInit
<1>2. mem = EmptyState /\ snapMedia = {EmptyState} /\ EmptyState.sequence = 0
  BY DEF StorageInit, EmptyState
<1>3. walMedia = {EmptyFile} /\ DOMAIN EmptyFile.frames = {}
  BY DEF StorageInit, EmptyFile
<1>4. TimelineExact
  BY <1>1 DEF TimelineExact
<1>5. CopiesExact
  BY <1>2, <1>3 DEF CopiesExact, StateIn
<1> QED
  BY <1>4, <1>5

\* The timeline and all its copies are exact together: a copy is only as exact as the
\* timeline it is compared with, and a new decision starts from memory.
THEOREM ExactInvariant ==
    ASSUME PlainText, OneHorizon
    PROVE  StorageSpec => [](TimelineExact /\ CopiesExact)
<1> DEFINE Inv == TimelineExact /\ CopiesExact
<1>1. StorageInit => Inv
  BY ExactInit
<1>2. TypeOK /\ Bounds /\ TypeOK' /\ Inv /\ [StorageNext]_storageVars => Inv'
  BY TimelineStep, CopiesStep
<1> HIDE DEF Inv
<1>3. StorageSpec => []Inv
  BY <1>1, <1>2, BoundsInvariant, PTL DEF StorageSpec
<1> QED
  BY <1>3 DEF Inv

\* Recovery is exact: the state a handle serves, after any number of crashes, failed writes
\* and interrupted snapshots, is the one the callbacks computed, decision by decision.
THEOREM ExactRecovery ==
    ASSUME PlainText, OneHorizon
    PROVE  StorageSpec => []RecoveryExact
<1>1. TypeOK /\ Bounds /\ TimelineExact /\ CopiesExact => RecoveryExact
  BY DEF RecoveryExact, CopiesExact, Bounds, MemBounds, StateIn, StateAt
<1> QED
  BY <1>1, BoundsInvariant, ExactInvariant, PTL

-----------------------------------------------------------------------------
(* A command is decided once in its horizon *)

\* m's dedupe holds the last size of n decisions, in order.
Holds(m, l, n, size) ==
    /\ Len(m.dedupeIDs) = size
    /\ \A i \in 1..size : /\ m.dedupeIDs[i] = l[n - size + i].rec.id
                           /\ m.dedupe[m.dedupeIDs[i]].sequence = n - size + i
WindowSize(n, h) == IF n < h THEN n ELSE h
WindowAt(l, n, h) == Holds(StateIn(l, n), l, n, WindowSize(n, h))
Windows == \A n \in 0..Len(log) : WindowAt(log, n, horizon)

Once(l, h) == \A i, j \in DOMAIN l : i < j /\ l[i].rec.id = l[j].rec.id => j - i > h

\* A new decision has an ID that none of the last h decisions has.
LEMMA NewIDOnce ==
    ASSUME NEW l \in Seq(Entry), NEW h \in Nat \ {0}, NEW r \in Record, NEW a \in State,
           Once(l, h), WindowAt(l, Len(l), h), StateIn(l, Len(l)).dedupe[r.id] = NoDecision
    PROVE  Once(Append(l, [rec |-> r, after |-> a]), h)
<1> DEFINE n == Len(l)
           m == StateIn(l, n)
           k == Append(l, [rec |-> r, after |-> a])
           size == WindowSize(n, h)
<1>1. n \in Nat /\ DOMAIN l = 1..n /\ size \in Nat /\ size <= n
  BY DEF WindowSize
<1>2. /\ DOMAIN k = 1..n + 1 /\ \A i \in 1..n : k[i] = l[i]
      /\ k[n + 1].rec = r
  OBVIOUS
<1>3. \A i \in 1..size : m.dedupeIDs[i] = l[n - size + i].rec.id /\ m.dedupe[m.dedupeIDs[i]] # NoDecision
  <2> SUFFICES ASSUME NEW i \in 1..size
               PROVE  m.dedupeIDs[i] = l[n - size + i].rec.id /\ m.dedupe[m.dedupeIDs[i]] # NoDecision
    OBVIOUS
  <2>1. m.dedupeIDs[i] = l[n - size + i].rec.id /\ m.dedupe[m.dedupeIDs[i]].sequence = n - size + i
    BY DEF WindowAt, Holds
  <2>2. n - size + i # 0 /\ NoDecision.sequence = 0
    BY <1>1 DEF NoDecision
  <2> QED
    BY <2>1, <2>2
<1>4. m.dedupe[r.id] = NoDecision
  OBVIOUS
<1> HIDE DEF n, m, k, size
<1>5. ASSUME NEW i \in 1..n, l[i].rec.id = r.id PROVE n + 1 - i > h
  <2> SUFFICES ASSUME ~(n + 1 - i > h) PROVE FALSE
    OBVIOUS
  <2>1. i - (n - size) \in 1..size /\ n - size + (i - (n - size)) = i
    BY <1>1 DEF size, WindowSize
  <2>2. m.dedupe[l[i].rec.id] # NoDecision
    BY <1>3, <2>1
  <2> QED
    BY <1>4, <1>5, <2>2
<1>6. ASSUME NEW i \in DOMAIN k, NEW j \in DOMAIN k, i < j, k[i].rec.id = k[j].rec.id PROVE j - i > h
  <2>1. i \in 1..n /\ (j \in 1..n \/ j = n + 1)
    BY <1>1, <1>2, <1>6
  <2>2. CASE j = n + 1
    <3>1. l[i].rec.id = r.id
      BY <1>2, <1>6, <2>1, <2>2
    <3> QED
      BY <1>1, <1>5, <2>1, <2>2, <3>1
  <2>3. CASE j \in 1..n
    BY <1>1, <1>2, <1>6, <2>1, <2>3 DEF Once
  <2> QED
    BY <2>1, <2>2, <2>3
<1> QED
  BY <1>6 DEF Once, k

\* The window moves on by one decision.
LEMMA WindowMoves ==
    ASSUME NEW l \in Seq(Entry), NEW h \in Nat \ {0}, NEW r \in Record, r.sequence = Len(l) + 1,
           StateIn(l, Len(l)) \in State,
           Once(l, h), WindowAt(l, Len(l), h), StateIn(l, Len(l)).dedupe[r.id] = NoDecision
    PROVE  WindowAt(Append(l, [rec |-> r, after |-> applyKeyed(StateIn(l, Len(l)), r, h)]), Len(l) + 1, h)
<1> DEFINE n == Len(l)
           m == StateIn(l, n)
           a == applyKeyed(m, r, h)
           k == Append(l, [rec |-> r, after |-> a])
           ids == Append(m.dedupeIDs, r.id)
           size == WindowSize(n, h)
           size2 == WindowSize(n + 1, h)
<1> SUFFICES WindowAt(k, n + 1, h)
  OBVIOUS
<1>1. n \in Nat /\ DOMAIN l = 1..n /\ size \in Nat /\ size <= n /\ r.id \in CommandIDs /\ size <= h
  BY DEF Record, WindowSize
<1>2. /\ \A i \in 1..n : k[i] = l[i]
      /\ k[n + 1].rec = r /\ k[n + 1].after = a
  OBVIOUS
<1>3. /\ m \in State /\ m.dedupe[r.id] = NoDecision /\ Len(m.dedupeIDs) = size
      /\ \A i \in 1..size : m.dedupeIDs[i] = l[n - size + i].rec.id /\ m.dedupe[m.dedupeIDs[i]].sequence = n - size + i
  BY DEF WindowAt, Holds
<1>4. m.dedupeIDs \in Seq(CommandIDs)
  BY <1>3 DEF State
<1>5. /\ a.dedupeIDs = IF Len(ids) > h THEN Tail(ids) ELSE ids
      /\ \A c \in CommandIDs : a.dedupe[c] =
             IF Len(ids) > h /\ c = ids[1] THEN NoDecision
             ELSE IF c = r.id THEN decision(r) ELSE m.dedupe[c]
  BY <1>3, ApplyKeyedDedupe
<1> HIDE DEF m, a
<1>6. /\ ids \in Seq(CommandIDs) /\ Len(ids) = size + 1 /\ ids[size + 1] = r.id
      /\ \A i \in 1..size : ids[i] = m.dedupeIDs[i]
  BY <1>1, <1>3, <1>4
<1>7. decision(r).sequence = n + 1 /\ NoDecision.sequence = 0
  BY DEF decision, NoDecision
<1> HIDE DEF n, ids, size, k
<1>8. StateIn(k, n + 1) = a
  BY <1>1, <1>2 DEF StateIn
\* Every ID of the list is the one of its decision, and the others are retained.
<1>9. ASSUME NEW i \in 1..size + 1
      PROVE  /\ ids[i] = k[n - size + i].rec.id /\ ids[i] \in CommandIDs
             /\ \/ ids[i] = r.id /\ n - size + i = n + 1
                \/ ids[i] # r.id /\ m.dedupe[ids[i]].sequence = n - size + i
  <2>1. CASE i = size + 1
    <3>1. n - size + i = n + 1
      BY <1>1, <2>1
    <3>2. ids[i] = r.id /\ k[n + 1].rec.id = r.id
      BY <1>2, <1>6, <2>1
    <3> QED
      BY <1>1, <3>1, <3>2
  <2>2. CASE i \in 1..size
    <3>1. n - size + i \in 1..n
      BY <1>1, <2>2
    <3>2. ids[i] = m.dedupeIDs[i] /\ m.dedupeIDs[i] = l[n - size + i].rec.id /\ m.dedupe[m.dedupeIDs[i]].sequence = n - size + i
      BY <1>3, <1>6, <2>2
    <3>3. ids[i] \in CommandIDs
      BY <1>1, <1>6
    <3>4. ids[i] # r.id
      BY <1>3, <1>7, <3>1, <3>2
    <3> QED
      BY <1>2, <3>1, <3>2, <3>3, <3>4
  <2> QED
    BY <1>1, <2>1, <2>2
<1> DEFINE Moved == Holds(a, k, n + 1, size2)
<1>10. ASSUME n < h PROVE Moved
  <2>1. size = n /\ size2 = n + 1 /\ a.dedupeIDs = ids /\ ~(Len(ids) > h)
    BY <1>1, <1>5, <1>6, <1>10 DEF size, WindowSize
  <2>2. PICK z \in Nat : z = size2
    BY <1>1, <2>1
  <2>3. ASSUME NEW i \in 1..z
        PROVE  a.dedupeIDs[i] = k[n + 1 - z + i].rec.id /\ a.dedupe[a.dedupeIDs[i]].sequence = n + 1 - z + i
    <3>1. i \in 1..size + 1 /\ n - size + i = n + 1 - z + i
      BY <1>1, <2>1, <2>2
    <3>2. /\ ids[i] = k[n + 1 - z + i].rec.id /\ ids[i] \in CommandIDs
          /\ \/ ids[i] = r.id /\ n + 1 - z + i = n + 1
             \/ ids[i] # r.id /\ m.dedupe[ids[i]].sequence = n + 1 - z + i
      BY Zenon, <1>9, <3>1
    <3> QED
      BY <1>5, <1>7, <2>1, <3>2
  <2>4. Len(a.dedupeIDs) = z
    BY <1>6, <2>1, <2>2
  <2>5. Holds(a, k, n + 1, z)
    BY <1>1, <2>3, <2>4 DEF Holds
  <2> QED
    BY <2>2, <2>5
<1>11. ASSUME ~(n < h) PROVE Moved
  <2>1. size = h /\ size2 = h /\ a.dedupeIDs = Tail(ids) /\ Len(ids) > h /\ n >= h
    BY <1>1, <1>5, <1>6, <1>11 DEF size, WindowSize
  <2>2. Len(Tail(ids)) = h /\ \A i \in 1..h : Tail(ids)[i] = ids[i + 1]
    BY <1>1, <1>6, <2>1
  <2>3. ASSUME NEW i \in 1..h PROVE ids[i + 1] # ids[1]
    <3>1. CASE i = h
      <4>1. ids[i + 1] = r.id
        BY <1>6, <2>1, <3>1
      <4>2. m.dedupe[ids[1]].sequence = n - size + 1 /\ n - size + 1 # 0
        <5>1. 1 \in 1..size /\ n - size + 1 # 0
          BY <1>1, <2>1
        <5> QED
          BY <1>3, <1>6, <5>1
      <4> QED
        BY <1>3, <1>7, <4>1, <4>2
    <3>2. CASE i < h
      <4>1. n - h + 1 \in 1..n /\ n - h + i + 1 \in 1..n /\ n - h + 1 < n - h + i + 1
        BY <1>1, <2>1, <3>2
      <4>2. ids[1] = l[n - h + 1].rec.id /\ ids[i + 1] = l[n - h + i + 1].rec.id
        BY <1>1, <1>3, <1>6, <2>1, <3>2
      <4>3. l[n - h + 1].rec.id = l[n - h + i + 1].rec.id => (n - h + i + 1) - (n - h + 1) > h
        BY Zenon, <1>1, <4>1 DEF Once
      <4> QED
        BY <1>1, <3>2, <4>2, <4>3
    <3> QED
      BY <3>1, <3>2
  <2>4. ASSUME NEW i \in 1..h
        PROVE  Tail(ids)[i] = k[n + 1 - h + i].rec.id /\ a.dedupe[Tail(ids)[i]].sequence = n + 1 - h + i
    <3>1. i + 1 \in 1..size + 1 /\ n - size + (i + 1) = n + 1 - h + i
      BY <1>1, <2>1
    <3>2. /\ ids[i + 1] = k[n + 1 - h + i].rec.id /\ ids[i + 1] \in CommandIDs
          /\ \/ ids[i + 1] = r.id /\ n + 1 - h + i = n + 1
             \/ ids[i + 1] # r.id /\ m.dedupe[ids[i + 1]].sequence = n + 1 - h + i
      BY <1>9, <3>1
    <3> QED
      BY <1>5, <1>7, <2>2, <2>3, <3>2
  <2> QED
    BY SMTT(30), <1>1, <2>1, <2>2, <2>4 DEF Holds
<1>12. Moved
  BY <1>10, <1>11
<1> QED
  BY <1>8, <1>12 DEF WindowAt

\* Windows and the property are kept together: the window tells which IDs are refused, and
\* that an ID occurs once in it makes dropping the oldest entry drop no other.
LEMMA OnceStep ==
    ASSUME OneHorizon
    PROVE  /\ TypeOK /\ TypeOK' /\ Bounds /\ TimelineExact /\ CopiesExact
           /\ Windows /\ AtMostOnceInHorizon /\ [StorageNext]_storageVars
           => (Windows /\ AtMostOnceInHorizon)'
<1> SUFFICES ASSUME TypeOK, TypeOK', Bounds, TimelineExact, CopiesExact, Windows, AtMostOnceInHorizon,
                    [StorageNext]_storageVars
             PROVE  Windows' /\ AtMostOnceInHorizon'
  OBVIOUS
<1>1. horizon' = horizon /\ horizon \in Nat \ {0}
  BY StorageAssumption DEF OneHorizon, TypeOK
<1>2. log \in Seq(Entry) /\ log' \in Seq(Entry) /\ Len(log) \in Nat /\ DOMAIN log = 1..Len(log)
  BY DEF TypeOK
<1>3. CASE UNCHANGED log
  BY <1>1, <1>3 DEF Windows, AtMostOnceInHorizon
<1>4. ASSUME NEW l \in Seq(Entry), Len(l) <= Len(log), \A i \in 1..Len(l) : l[i] = log[i], NEW n \in 0..Len(l)
      PROVE  WindowAt(l, n, horizon) <=> WindowAt(log, n, horizon)
  <2>1. StateIn(l, n) = StateIn(log, n)
    <3>1. /\ n \in Nat /\ n <= Len(l) /\ n <= Len(log)
          /\ \A i \in 1..n : l[i] = log[i]
      BY <1>2, <1>4
    <3> QED
      BY <1>2, <3>1, SameStates
  <2>2. \A i \in 1..WindowSize(n, horizon) :
           l[n - WindowSize(n, horizon) + i] = log[n - WindowSize(n, horizon) + i]
    BY <1>1, <1>2, <1>4 DEF WindowSize
  <2>3. WindowSize(n, horizon) \in Nat /\ n \in Nat
    BY <1>1, <1>4 DEF WindowSize
  <2> QED
    BY Zenon, <2>1, <2>2, <2>3 DEF WindowAt, Holds
<1>5. CASE replayDone \/ truncateKeyedTailSync
  <2>1. /\ Len(log') = mem.sequence /\ \A i \in 1..mem.sequence : log'[i] = log[i]
        /\ mem.sequence <= Len(log) /\ mem.sequence \in Nat
    BY <1>5, OpenedLog, Numbers DEF replayDone, truncateKeyedTailSync, Bounds, MemBounds
  <2>2. Windows'
    <3>1. \A n \in 0..Len(log') : n \in 0..Len(log)
      BY <1>2, <2>1
    <3> QED
      BY <1>1, <1>2, <1>4, <2>1, <3>1 DEF Windows
  <2>3. AtMostOnceInHorizon'
    <3>1. \A i \in DOMAIN log' : i \in DOMAIN log /\ log'[i] = log[i]
      BY <1>2, <2>1
    <3> QED
      BY Zenon, <1>1, <3>1 DEF AtMostOnceInHorizon
  <2> QED
    BY <2>2, <2>3
<1>6. ASSUME NEW c \in CommandIDs, NEW applied \in BOOLEAN, NEW w \in Writes, stage(c, applied, w)
      PROVE  Windows' /\ AtMostOnceInHorizon'
  <2> DEFINE r == NewRecord(c, applied, w)
  <2>1. r \in Record /\ r.sequence = Len(log) + 1 /\ mem.sequence = Len(log) /\ r.id = c
    BY <1>6, NewRecordType DEF TypeOK, stage, Executes, NewRecord, Bounds, MemBounds, Serving
  <2> HIDE DEF r
  <2>2. /\ log' = Append(log, [rec |-> r, after |-> mem']) /\ mem' = applyKeyed(mem, r, horizon)
        /\ mem.dedupe[c] = NoDecision
    BY <1>6 DEF stage, Executes, r
  <2>3. mem = StateIn(log, Len(log)) /\ mem \in State /\ mem' \in State
    BY <2>1 DEF CopiesExact, TypeOK
  <2>4. WindowAt(log, Len(log), horizon) /\ Once(log, horizon)
    BY <1>2 DEF Windows, AtMostOnceInHorizon, Once
  <2>5. Once(log', horizon)
    BY <1>1, <1>2, <2>1, <2>2, <2>3, <2>4, NewIDOnce
  <2>6. WindowAt(log', Len(log) + 1, horizon)
    BY <1>1, <1>2, <2>1, <2>2, <2>3, <2>4, WindowMoves
  <2>7. Len(log') = Len(log) + 1 /\ \A i \in 1..Len(log) : log'[i] = log[i]
    BY <1>2, <2>2
  <2>8. ASSUME NEW n \in 0..Len(log) PROVE WindowAt(log', n, horizon)
    <3>1. WindowAt(log, n, horizon)
      BY DEF Windows
    <3>2. StateIn(log', n) = StateIn(log, n)
      BY <1>2, <2>7, SameStates
    <3>3. \A i \in 1..WindowSize(n, horizon) :
             log'[n - WindowSize(n, horizon) + i] = log[n - WindowSize(n, horizon) + i]
      BY <1>1, <1>2, <2>7 DEF WindowSize
    <3>4. WindowSize(n, horizon) \in Nat /\ n \in Nat
      BY <1>1 DEF WindowSize
    <3> QED
      BY <3>1, <3>2, <3>3, <3>4 DEF WindowAt, Holds
  <2>9. Windows'
    BY <1>1, <1>2, <2>6, <2>7, <2>8 DEF Windows
  <2>10. AtMostOnceInHorizon'
    BY <1>1, <2>5 DEF AtMostOnceInHorizon, Once
  <2> QED
    BY <2>9, <2>10
<1> QED
  BY Zenon, <1>3, <1>5, <1>6
     DEF StorageNext, storageVars, history, openKeyed, loadKeyedSnapshot, replayKeyedWAL, truncateKeyedTail,
         openStorageFails, beginGroup, stageFails, retry, syncKeyed, syncKeyedFails, skipSync, reply, GetKeyed,
         SnapshotKeyed, Close, snapshotRename, snapshotSyncDirectory, snapshotTruncate, snapshotSync,
         snapshotFails, processCrash, powerLoss

\* An empty timeline, and nothing retained of it.
LEMMA OnceInit == StorageInit => Windows /\ AtMostOnceInHorizon
<1> SUFFICES ASSUME StorageInit PROVE Windows /\ AtMostOnceInHorizon
  OBVIOUS
<1>1. log = <<>> /\ horizon \in Nat \ {0}
  BY StorageAssumption DEF StorageInit
<1>2. WindowAt(log, 0, horizon)
  <2>1. WindowSize(0, horizon) = 0
    BY <1>1 DEF WindowSize
  <2> QED
    BY <2>1 DEF WindowAt, Holds, StateIn, EmptyState
<1> QED
  BY <1>1, <1>2 DEF Windows, AtMostOnceInHorizon

\* The dedupe window and what it prevents, together.
THEOREM OnceInvariant ==
    ASSUME PlainText, OneHorizon
    PROVE  StorageSpec => [](Windows /\ AtMostOnceInHorizon)
<1> DEFINE Inv == Windows /\ AtMostOnceInHorizon
<1>1. StorageInit => Inv
  BY OnceInit
<1>2. TypeOK /\ Bounds /\ TypeOK' /\ TimelineExact /\ CopiesExact /\ Inv /\ [StorageNext]_storageVars => Inv'
  BY OnceStep
<1> HIDE DEF Inv
<1>3. StorageSpec => []Inv
  BY <1>1, <1>2, BoundsInvariant, ExactInvariant, PTL DEF StorageSpec
<1> QED
  BY <1>3 DEF Inv

\* A command ID is decided at most once within DedupeHorizon decisions, whatever snapshots,
\* crashes and recoveries happen in between: dedupe is rebuilt with the state.
THEOREM AtMostOnce ==
    ASSUME PlainText, OneHorizon
    PROVE  StorageSpec => []AtMostOnceInHorizon
BY OnceInvariant, PTL

-----------------------------------------------------------------------------
(* A store opens again *)

\* validateKeyedRecord counts the bytes of deletes, finalize does not: what finalize lets
\* through must fit with them.
ReplayFits == \A w \in Writes : FinalizedBytes(w) <= MaxTransactionBytes => ReplayedBytes(w) <= MaxTransactionBytes

\* Every decision of the timeline passes the checks of replayKeyedWAL, and every state of it
\* has room in a snapshot.
Admissible(l, i) ==
    /\ StateIn(l, i - 1).dedupe[l[i].rec.id] = NoDecision
    /\ ReplayedBytes(l[i].rec.writes) <= MaxTransactionBytes
    /\ Cardinality(Live(l[i].after.records)) <= MaxRecords
Replayable == \A i \in DOMAIN log : Admissible(log, i)

\* A new store has no records.
LEMMA EmptyFits == Cardinality(Live(EmptyState.records)) <= MaxRecords
<1> DEFINE Counts(f) == f = [T \in SUBSET {} |-> IF T = {} THEN 0 ELSE 1 + f[T \ {CHOOSE x : x \in T}]]
           zero == [T \in SUBSET {} |-> 0]
           c == CHOOSE f : Counts(f)
<1>1. Counts(zero)
  OBVIOUS
<1>2. Counts(c)
  <2> HIDE DEF Counts, zero
  <2> QED
    BY <1>1, Zenon
<1>3. c[{}] = 0
  <2> HIDE DEF c
  <2> QED
    BY <1>2
<1>4. Cardinality({}) = c[{}]
  BY DEF Cardinality
<1>5. Live(EmptyState.records) = {}
  BY DEF Live, EmptyState
<1> QED
  BY <1>3, <1>4, <1>5, StorageAssumption

\* A rejection has no bytes.
LEMMA NothingWeighs == ReplayedBytes(NoWrites) = 0
<1> DEFINE choice(s) == CHOOSE x \in s : TRUE
           size(k) == Bytes[k] + Bytes[NoWrites[k]]
           Sums(f) == f = [s \in SUBSET {} |-> IF s = {} THEN 0 ELSE size(choice(s)) + f[s \ {choice(s)}]]
           zero == [s \in SUBSET {} |-> 0]
           c == CHOOSE f : Sums(f)
<1>1. Sums(zero)
  OBVIOUS
<1>2. Sums(c)
  <2> HIDE DEF Sums, zero
  <2> QED
    BY <1>1, Zenon
<1>3. c[{}] = 0
  <2> HIDE DEF c
  <2> QED
    BY <1>2
<1>4. MapThenFoldSet(+, 0, size, choice, {}) = c[{}]
  BY DEF MapThenFoldSet
<1>5. DOMAIN NoWrites = {}
  BY DEF NoWrites
<1>6. ReplayedBytes(NoWrites) = MapThenFoldSet(+, 0, size, choice, {})
  BY <1>5 DEF ReplayedBytes, WriteBytes, MapThenSumSet
<1> QED
  BY <1>3, <1>4, <1>6

\* What executeKeyed and finalize let through, replay lets through.
LEMMA ReplayableStep ==
    ASSUME ReplayFits
    PROVE  TypeOK /\ TypeOK' /\ Bounds /\ CopiesExact /\ Replayable /\ [StorageNext]_storageVars => Replayable'
<1> SUFFICES ASSUME TypeOK, TypeOK', Bounds, CopiesExact, Replayable, [StorageNext]_storageVars PROVE Replayable'
  OBVIOUS
<1>1. log \in Seq(Entry) /\ log' \in Seq(Entry) /\ Len(log) \in Nat /\ DOMAIN log = 1..Len(log)
  BY DEF TypeOK
<1>2. CASE UNCHANGED log
  BY <1>2 DEF Replayable, Admissible, StateIn
<1>3. CASE replayDone \/ truncateKeyedTailSync
  <2>1. /\ Len(log') = mem.sequence /\ \A i \in 1..mem.sequence : log'[i] = log[i]
        /\ mem.sequence <= Len(log) /\ mem.sequence \in Nat
    BY <1>3, OpenedLog, Numbers DEF replayDone, truncateKeyedTailSync, Bounds, MemBounds
  <2>2. ASSUME NEW i \in DOMAIN log' PROVE Admissible(log', i)
    <3>1. i \in DOMAIN log /\ log'[i] = log[i] /\ (i - 1 # 0 => log'[i - 1] = log[i - 1])
      BY <1>1, <2>1
    <3> QED
      BY <3>1 DEF Replayable, Admissible, StateIn
  <2> QED
    BY <2>2 DEF Replayable
<1>4. ASSUME NEW c \in CommandIDs, NEW applied \in BOOLEAN, NEW w \in Writes, stage(c, applied, w) PROVE Replayable'
  <2> DEFINE r == NewRecord(c, applied, w)
             n == Len(log)
  <2>1. /\ log' = Append(log, [rec |-> r, after |-> mem']) /\ mem' = applyKeyed(mem, r, horizon)
        /\ mem.dedupe[c] = NoDecision /\ (applied => finalize(mem.records, w)) /\ mem.sequence = n
    BY <1>4 DEF stage, Executes, Bounds, MemBounds, Serving
  <2>2. r.id = c /\ r.applied = applied /\ r.writes = IF applied THEN w ELSE NoWrites
    BY DEF NewRecord
  <2>3. mem = StateIn(log, n)
    BY <2>1 DEF CopiesExact
  <2>4. mem'.records = IF applied THEN Overwrite(mem.records, w) ELSE mem.records
    BY <2>1, <2>2 DEF applyKeyed
  <2> HIDE DEF r
  <2>5. ReplayedBytes(r.writes) <= MaxTransactionBytes
    BY <2>1, <2>2, NothingWeighs, StorageAssumption DEF ReplayFits, finalize
  <2>6. Cardinality(Live(mem.records)) <= MaxRecords
    BY <1>1, <2>3, EmptyFits DEF StateIn, Replayable, Admissible
  <2>7. Cardinality(Live(mem'.records)) <= MaxRecords
    BY <2>1, <2>4, <2>6 DEF finalize
  <2>8. /\ DOMAIN log' = 1..n + 1 /\ \A i \in 1..n : log'[i] = log[i]
        /\ log'[n + 1].rec = r /\ log'[n + 1].after = mem'
    BY <1>1, <2>1
  <2> HIDE DEF n
  <2>9. ASSUME NEW i \in DOMAIN log' PROVE Admissible(log', i)
    <3>1. CASE i = n + 1
      <4>1. StateIn(log', n) = mem
        BY <1>1, <2>3, <2>8 DEF StateIn, n
      <4>2. i - 1 = n
        BY <1>1, <3>1 DEF n
      <4> QED
        BY <2>1, <2>2, <2>5, <2>7, <2>8, <3>1, <4>1, <4>2 DEF Admissible
    <3>2. CASE i \in 1..n
      <4>1. i \in DOMAIN log /\ log'[i] = log[i] /\ (i - 1 # 0 => log'[i - 1] = log[i - 1])
        BY <1>1, <2>8, <3>2 DEF n
      <4> QED
        BY <4>1 DEF Replayable, Admissible, StateIn
    <3> QED
      BY <1>1, <2>8, <3>1, <3>2 DEF n
  <2> QED
    BY <2>9 DEF Replayable
<1> QED
  BY Zenon, <1>2, <1>3, <1>4
     DEF StorageNext, storageVars, history, openKeyed, loadKeyedSnapshot, replayKeyedWAL, truncateKeyedTail,
         openStorageFails, beginGroup, stageFails, retry, syncKeyed, syncKeyedFails, skipSync, reply, GetKeyed,
         SnapshotKeyed, Close, snapshotRename, snapshotSyncDirectory, snapshotTruncate, snapshotSync,
         snapshotFails, processCrash, powerLoss

\* The snapshot of any state of the timeline loads.
LEMMA SnapshotLoads ==
    ASSUME PlainText, TypeOK, TimelineExact, Windows, Replayable, NEW n \in 0..Len(log)
    PROVE  LET s == DecodeState(StateIn(log, n)) IN SnapshotFits(s) /\ SnapshotOrdered(s)
<1> DEFINE s == StateIn(log, n)
           size == WindowSize(n, horizon)
<1>1. horizon \in Nat \ {0} /\ n \in Nat
  BY StorageAssumption DEF TypeOK
<1>2. s \in State /\ s.sequence = n /\ DecodeState(s) = s
  BY StateInFacts, DecodeStateIdentity
<1>3. size \in Nat /\ size <= n /\ size <= horizon /\ (n # 0 => size # 0)
  BY <1>1 DEF WindowSize
<1>4. /\ Len(s.dedupeIDs) = size /\ DOMAIN s.dedupeIDs = 1..size
      /\ \A i \in 1..size : s.dedupe[s.dedupeIDs[i]].sequence = n - size + i
  <2>1. Holds(s, log, n, size)
    BY DEF Windows, WindowAt
  <2>2. s.dedupeIDs \in Seq(CommandIDs)
    BY <1>2 DEF State
  <2> QED
    BY <2>1, <2>2 DEF Holds
<1>5. Cardinality(Live(s.records)) <= MaxRecords
  <2>1. n = 0 \/ n \in DOMAIN log
    BY DEF TypeOK
  <2> QED
    BY <2>1, EmptyFits DEF StateIn, Replayable, Admissible
<1> HIDE DEF s, size
<1>6. SnapshotFits(s)
  BY <1>3, <1>4, <1>5 DEF SnapshotFits
<1>7. SnapshotOrdered(s)
  <2>1. \A i \in 1..size : n - size + i \in 1..n
    BY <1>1, <1>3
  <2>2. \A i, j \in 1..size : i < j => n - size + i < n - size + j
    BY <1>1, <1>3
  <2>3. n # 0 => size \in 1..size /\ n - size + size = n /\ s.dedupeIDs # <<>>
    BY <1>1, <1>3, <1>4
  <2> QED
    BY <1>2, <1>4, <2>1, <2>2, <2>3 DEF SnapshotOrdered
<1> QED
  BY <1>2, <1>6, <1>7 DEF s

\* Every frame of the WAL passes the checks of replay.
LEMMA FramePasses ==
    ASSUME PlainText, TypeOK, Bounds, CopiesExact, TimelineExact, Joined, Replayable, phase = "replay", pos <= Len(wal.frames)
    PROVE  ReplayVerdict(wal.frames[pos], IF pos = 1 THEN 0 ELSE wal.frames[pos - 1].sequence) = "replay"
<1> DEFINE frame == wal.frames[pos]
           last == IF pos = 1 THEN 0 ELSE wal.frames[pos - 1].sequence
           n == frame.sequence
<1>1. /\ pos \in DOMAIN wal.frames /\ 1 \in DOMAIN wal.frames /\ pos \in Nat \ {0} /\ wal \in walMedia
      /\ (pos # 1 => pos - 1 \in DOMAIN wal.frames)
  BY DEF TypeOK, File, Bounds, FileBounds
<1>2. frame \in Record /\ n \in Nat /\ mem.sequence \in Nat /\ snap.sequence \in Nat /\ wal.frames[1].sequence \in Nat
      /\ (pos # 1 => wal.frames[pos - 1].sequence \in Nat)
  BY <1>1, Numbers
<1>3. n + 1 = wal.frames[1].sequence + pos /\ (pos # 1 => wal.frames[pos - 1].sequence + 1 = wal.frames[1].sequence + (pos - 1))
  BY <1>1 DEF Joined, Consecutive
<1>4. last # 0 => n = last + 1
  <2> SUFFICES ASSUME pos # 1 PROVE n = wal.frames[pos - 1].sequence + 1
    OBVIOUS
  <2>1. PICK a \in Nat, b \in Nat, k \in Nat :
          n = a /\ wal.frames[pos - 1].sequence = b /\ wal.frames[1].sequence = k
    BY <1>2
  <2>2. a + 1 = k + pos /\ b + 1 = k + (pos - 1)
    BY <1>3, <2>1
  <2>3. a = b + 1
    BY <1>1, <2>2, SMT
  <2> QED
    BY <2>1, <2>3
<1>5. n <= mem.sequence + 1
  <2>1. snap.sequence <= mem.sequence
    BY DEF Bounds, MemBounds
  <2>2. CASE pos = 1
    <3>1. n <= snap.sequence + 1
      BY <1>1, <2>2 DEF Joined, Adjoins
    <3> QED
      BY <1>2, <2>1, <3>1
  <2>3. CASE pos # 1
    <3>1. wal.frames[pos - 1].sequence <= mem.sequence
      BY <1>1, <2>3 DEF Bounds, MemBounds
    <3>2. PICK a \in Nat, b \in Nat, m \in Nat, k \in Nat :
            n = a /\ wal.frames[pos - 1].sequence = b /\ mem.sequence = m /\ wal.frames[1].sequence = k
      BY <1>2, <2>3
    <3>3. a + 1 = k + pos /\ b + 1 = k + (pos - 1) /\ b <= m
      BY <1>3, <2>3, <3>1, <3>2
    <3>4. a <= m + 1
      BY <1>1, <3>3, SMT
    <3> QED
      BY <3>2, <3>4
  <2> QED
    BY <2>2, <2>3
<1>6. n \in DOMAIN log /\ frame = log[n].rec /\ DecodeRecord(frame) = frame
  BY <1>1, <1>2, DecodeRecordIdentity DEF CopiesExact
<1>7. Admissible(log, n) /\ log[n].after = applyKeyed(StateIn(log, n - 1), log[n].rec, horizon)
  BY <1>6 DEF Replayable, TimelineExact
<1>8. TextInjective(DOMAIN frame.writes)
  <2>1. DOMAIN frame.writes \subseteq Keys
    BY <1>2, StorageAssumption DEF Record, NoWrites
  <2> QED
    BY <2>1 DEF TextInjective, PlainText
<1>9. ReplayedBytes(frame.writes) <= MaxTransactionBytes
  BY <1>6, <1>7 DEF Admissible
<1> HIDE DEF frame, last
<1>10. ASSUME n > mem.sequence
       PROVE  n = mem.sequence + 1 /\ mem.dedupe[frame.id] = NoDecision
              /\ (frame.applied => Cardinality(Live(Overwrite(mem.records, frame.writes))) <= MaxRecords)
  <2>1. n = mem.sequence + 1 /\ n - 1 = mem.sequence
    BY <1>2, <1>5, <1>10
  <2>2. mem = StateIn(log, n - 1)
    BY <2>1 DEF CopiesExact
  <2>3. frame.applied => log[n].after.records = Overwrite(mem.records, frame.writes)
    <3>1. log[n].after = applyKeyed(mem, frame, horizon)
      BY <1>6, <1>7, <2>2
    <3>2. frame.applied => applyKeyed(mem, frame, horizon).records = Overwrite(mem.records, frame.writes)
      BY DEF applyKeyed
    <3> QED
      BY <3>1, <3>2
  <2> QED
    BY <1>6, <1>7, <2>1, <2>2, <2>3 DEF Admissible
<1>11. ReplayVerdict(frame, last) = "replay"
  BY <1>4, <1>6, <1>8, <1>9, <1>10, Zenon DEF ReplayVerdict
<1> QED
  BY <1>11 DEF frame, last

\* Neither check of recovery ever fails.
LEMMA OpensStep ==
    ASSUME PlainText
    PROVE  /\ TypeOK /\ Bounds /\ TimelineExact /\ CopiesExact /\ Windows /\ Joined /\ Replayable
           /\ RecoverySucceeds /\ [StorageNext]_storageVars
           => RecoverySucceeds'
<1> SUFFICES ASSUME TypeOK, Bounds, TimelineExact, CopiesExact, Windows, Joined, Replayable,
                    RecoverySucceeds, [StorageNext]_storageVars
             PROVE  RecoverySucceeds'
  OBVIOUS
<1>1. CASE loadKeyedSnapshot
  <2>1. snap.sequence \in 0..Len(log) /\ snap = StateIn(log, snap.sequence)
    BY Numbers DEF CopiesExact, Bounds, FileBounds, TypeOK
  <2>2. SnapshotFits(DecodeState(snap)) /\ SnapshotOrdered(DecodeState(snap))
    BY <2>1, SnapshotLoads
  <2>3. phase' = "replay"
    BY <1>1, <2>2 DEF loadKeyedSnapshot
  <2> QED
    BY <2>3 DEF RecoverySucceeds
<1>2. CASE replayKeyedWAL
  <2>1. phase' = "replay"
    BY <1>2, FramePasses DEF replayKeyedWAL
  <2> QED
    BY <2>1 DEF RecoverySucceeds
<1>3. CASE UNCHANGED phase
  BY <1>3 DEF RecoverySucceeds
<1>4. ASSUME phase' \in {"down", "load", "truncateSync", "open", "group", "reply", "rename", "dirSync", "walTruncate", "walSync"}
      PROVE  RecoverySucceeds'
  BY <1>4 DEF RecoverySucceeds
<1> QED
  BY Zenon, <1>1, <1>2, <1>3, <1>4
     DEF StorageNext, storageVars, openKeyed, replayDone, truncateKeyedTail, truncateKeyedTailSync, Opened, Discard,
         openStorageFails, beginGroup, stage, stageFails, retry, syncKeyed, syncKeyedFails, skipSync, reply, GetKeyed,
         SnapshotKeyed, Close, snapshotRename, snapshotSyncDirectory, snapshotTruncate, snapshotSync,
         snapshotFails, processCrash, powerLoss

\* As long as power stays on, no crash, I/O error or snapshot leaves files that openStorage
\* refuses, for a caller that never changes the horizon, when names survive the codec and
\* transactions that finalize accepts fit with their deletes counted.
THEOREM RecoveryOpens ==
    ASSUME PlainText, OneHorizon, ReplayFits, "power" \notin Restarts
    PROVE  StorageSpec => []RecoverySucceeds
<1> DEFINE Known == TypeOK /\ Bounds /\ TimelineExact /\ CopiesExact /\ Windows /\ Joined
           Inv == Replayable /\ RecoverySucceeds
<1>1. StorageInit => Inv
  BY DEF StorageInit, Replayable, RecoverySucceeds
<1>2. Known /\ Known' /\ Inv /\ [StorageNext]_storageVars => Inv'
  BY ReplayableStep, OpensStep
<1> HIDE DEF Known, Inv
<1>3. StorageSpec => []Known
  BY BoundsInvariant, ExactInvariant, OnceInvariant, JoinedInvariant, PTL DEF Known
<1>4. StorageSpec => []Inv
  BY <1>1, <1>2, <1>3, PTL DEF StorageSpec
<1>5. Inv => RecoverySucceeds
  BY DEF Inv
<1> QED
  BY <1>4, <1>5, PTL
=============================================================================
