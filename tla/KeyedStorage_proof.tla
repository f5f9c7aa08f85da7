------------------------- MODULE KeyedStorage_proof -------------------------
(***************************************************************************)
(* Proofs about KeyedStorage, for every value of its constants: what its   *)
(* operators return, that the sequence numbers in memory and in the files  *)
(* stay within the timeline, that with them the state keeps its types, and *)
(* that whatever a crash leaves of the files holds every acknowledged      *)
(* decision.  Then: plain text is read back as it was written, and what    *)
(* was shown is never lost as long as power stays on.                      *)
(***************************************************************************)
EXTENDS KeyedStorage, TLAPS

\* A leaf is tried with Zenon and then with the SMT solver, unless it names a prover.
USE ZenonT(2), SMTT(20), ZenonT(30)

-----------------------------------------------------------------------------
(* What the operators return *)

\* The first n elements of a sequence.
LEMMA PrefixProperties ==
    ASSUME NEW S, NEW s \in Seq(S), NEW n \in Nat, n <= Len(s)
    PROVE  /\ SubSeq(s, 1, n) \in Seq(S) /\ Len(SubSeq(s, 1, n)) = n
           /\ \A i \in 1..n : SubSeq(s, 1, n)[i] = s[i]
<1>1. \A i \in 1..n : s[i] \in S
  OBVIOUS
<1> QED
  BY <1>1, SMT

\* A decoded frame: its text may have changed, so its write buffer need not be one a
\* callback left.
Decoded(r) ==
    /\ r.sequence \in Nat /\ r.id \in CommandIDs /\ r.applied \in BOOLEAN
    /\ \A k \in DOMAIN r.writes : r.writes[k] \in Values \cup {Absent}

\* applyKeyed turns a state and any decodable record into a state.
LEMMA ApplyKeyedType ==
    ASSUME NEW m \in State, NEW r, Decoded(r), NEW h
    PROVE  applyKeyed(m, r, h) \in State
<1> DEFINE ids == Append(m.dedupeIDs, r.id)
           retained == [m.dedupe EXCEPT ![r.id] = decision(r)]
           s == applyKeyed(m, r, h)
<1>1. /\ m.records \in [Keys -> Values \cup {Absent}] /\ m.dedupe \in [CommandIDs -> Decision]
      /\ m.dedupeIDs \in Seq(CommandIDs) /\ m.sequence \in Nat
  BY DEF State
<1>2. Overwrite(m.records, r.writes) \in [Keys -> Values \cup {Absent}]
  BY <1>1 DEF Overwrite, Decoded
<1>3. retained \in [CommandIDs -> Decision]
  BY <1>1 DEF Decoded, decision, Decision
<1>4. ids \in Seq(CommandIDs) /\ ids # <<>>
  BY <1>1 DEF Decoded
<1>5. Tail(ids) \in Seq(CommandIDs)
  BY <1>4
<1>6. [retained EXCEPT ![Head(ids)] = NoDecision] \in [CommandIDs -> Decision]
  BY Zenon, <1>3 DEF NoDecision, Decision
<1> HIDE DEF ids, retained
<1>7. s = [records |-> IF r.applied THEN Overwrite(m.records, r.writes) ELSE m.records,
           sequence |-> r.sequence,
           dedupeIDs |-> IF Len(ids) > h THEN Tail(ids) ELSE ids,
           dedupe |-> IF Len(ids) > h THEN [retained EXCEPT ![Head(ids)] = NoDecision] ELSE retained]
  BY DEF applyKeyed, ids, retained
<1> QED
  BY <1>1, <1>2, <1>3, <1>4, <1>5, <1>6, <1>7 DEF State, Decoded

\* A record read back from the WAL is decodable.
LEMMA DecodeRecordType ==
    ASSUME NEW r \in Record
    PROVE  Decoded(DecodeRecord(r)) /\ DecodeRecord(r).sequence = r.sequence
<1> DEFINE w == r.writes
           d == DecodeRecord(r)
<1>1. /\ r.sequence \in Nat \ {0} /\ r.id \in CommandIDs /\ r.applied \in BOOLEAN
      /\ w \in Writes \cup {NoWrites}
  BY DEF Record
<1>2. \A k \in DOMAIN w : w[k] \in Values \cup {Absent}
  BY <1>1, StorageAssumption DEF NoWrites
<1>3. \A t \in DOMAIN DecodeMap(w, DOMAIN w) : DecodeMap(w, DOMAIN w)[t] \in Values \cup {Absent}
  BY <1>2 DEF DecodeMap
<1>4. /\ d.sequence = r.sequence /\ d.applied = r.applied /\ d.id = jsonText[r.id]
      /\ d.writes = DecodeMap(w, DOMAIN w)
  BY DEF DecodeRecord
<1> QED
  BY <1>1, <1>3, <1>4, StorageAssumption DEF Decoded

\* A snapshot read back is a state.
LEMMA DecodeStateType ==
    ASSUME NEW s \in State
    PROVE  DecodeState(s) \in State
<1> DEFINE live == DecodeMap(s.records, Live(s.records))
           ids == {s.dedupeIDs[i] : i \in DOMAIN s.dedupeIDs}
           kept == DecodeMap(s.dedupe, ids)
           newRecords == [k \in Keys |-> IF k \in DOMAIN live THEN live[k] ELSE Absent]
           newIDs == [i \in DOMAIN s.dedupeIDs |-> jsonText[s.dedupeIDs[i]]]
           newDedupe == [c \in CommandIDs |-> IF c \in DOMAIN kept THEN kept[c] ELSE NoDecision]
<1>1. /\ s.records \in [Keys -> Values \cup {Absent}] /\ s.dedupe \in [CommandIDs -> Decision]
      /\ s.dedupeIDs \in Seq(CommandIDs) /\ s.sequence \in Nat
  BY DEF State
<1>2. newRecords \in [Keys -> Values \cup {Absent}]
  BY <1>1 DEF DecodeMap, Live
<1>3. newIDs \in Seq(CommandIDs)
  BY <1>1, StorageAssumption
<1>4. ids \subseteq CommandIDs
  BY <1>1
<1>5. newDedupe \in [CommandIDs -> Decision]
  BY <1>1, <1>4 DEF DecodeMap, NoDecision, Decision
<1>6. DecodeState(s) = [records |-> newRecords, dedupe |-> newDedupe, dedupeIDs |-> newIDs, sequence |-> s.sequence]
  BY DEF DecodeState
<1> HIDE DEF newRecords, newIDs, newDedupe
<1> QED
  BY <1>1, <1>2, <1>3, <1>5, <1>6 DEF State

\* A new directory.
LEMMA EmptyTypes == EmptyState \in State /\ EmptyFile \in File
BY DEF EmptyState, State, EmptyFile, File, NoDecision, Decision

\* Writing, tearing and cutting a file leave a file.
LEMMA FileType ==
    ASSUME NEW f \in File
    PROVE  /\ Tear(f) \in File /\ CutTail(f) \in File
           /\ \A r \in Record : WriteFrame(f, r) \in File
BY DEF File, WriteFrame, Tear, CutTail

\* The record of a new decision is well formed.
LEMMA NewRecordType ==
    ASSUME mem \in State, NEW c \in CommandIDs, NEW applied \in BOOLEAN, NEW w \in Writes
    PROVE  NewRecord(c, applied, w) \in Record /\ Decoded(NewRecord(c, applied, w))
<1>1. mem.sequence + 1 \in Nat \ {0}
  BY DEF State
<1>2. \A k \in DOMAIN w : w[k] \in Values \cup {Absent}
  BY StorageAssumption
<1>3. \A k \in DOMAIN NoWrites : NoWrites[k] \in Values \cup {Absent}
  BY DEF NoWrites
<1> QED
  BY <1>1, <1>2, <1>3 DEF NewRecord, Record, Decoded

-----------------------------------------------------------------------------
(* Type correctness *)

\* Discarding the handle keeps the types of its variables.
LEMMA DiscardType ==
    ASSUME Discard
    PROVE  /\ mem' \in State /\ poisoned' \in BOOLEAN /\ closing' \in BOOLEAN
           /\ pos' \in Nat \ {0} /\ pending' \subseteq Record /\ repeats' \in Nat
<1>1. poisoned' \in BOOLEAN /\ closing' \in BOOLEAN
  BY Zenon DEF Discard
<1>2. mem' \in State
  BY EmptyTypes, Zenon DEF Discard
<1>3. pos' \in Nat \ {0} /\ pending' \subseteq Record /\ repeats' \in Nat
  BY DEF Discard
<1> QED
  BY <1>1, <1>2, <1>3

\* Sequence n is at most one that recovery reaches from the files as they are.
Reached(n) == n <= snap.sequence \/ \E j \in DOMAIN wal.frames : n <= wal.frames[j].sequence

\* The timeline covers both files, and what power loss may leave is never ahead of what
\* recovery reads now.
FileBounds ==
    /\ wal \in walMedia /\ snap \in snapMedia
    /\ snap.sequence <= Len(log)
    /\ \A s \in snapMedia : s.sequence <= snap.sequence
    /\ \A w \in walMedia : \A i \in DOMAIN w.frames :
           w.frames[i].sequence <= Len(log) /\ Reached(w.frames[i].sequence)

\* The timeline covers memory, how far replayKeyedWAL has come, and what a snapshot holds.
MemBounds ==
    /\ mem.sequence <= Len(log)
    /\ phase \in Serving => mem.sequence = Len(log)
    /\ phase = "load" => pos = 1
    /\ phase \in {"replay", "truncateSync"} =>
           /\ snap.sequence <= mem.sequence
           /\ \A i \in DOMAIN wal.frames :
                  i < pos \/ phase = "truncateSync" => wal.frames[i].sequence <= mem.sequence
    /\ phase \in {"dirSync", "walTruncate", "walSync"} => snap = mem

Bounds == FileBounds /\ MemBounds

\* At the end of recovery the timeline is cut where memory ends.
LEMMA OpenedLog ==
    ASSUME TypeOK, Bounds, Opened
    PROVE  /\ log' \in Seq(Entry)
           /\ Len(log') = mem.sequence /\ Len(log') <= Len(log)
           /\ \A i \in 1..mem.sequence : log'[i] = log[i]
<1>1. mem.sequence \in Nat /\ mem.sequence <= Len(log)
  BY DEF TypeOK, State, Bounds, MemBounds
<1>2. log \in Seq(Entry)
  BY DEF TypeOK
<1>3. /\ SubSeq(log, 1, mem.sequence) \in Seq(Entry)
      /\ Len(SubSeq(log, 1, mem.sequence)) = mem.sequence
      /\ \A i \in 1..mem.sequence : SubSeq(log, 1, mem.sequence)[i] = log[i]
  BY <1>1, <1>2, PrefixProperties
<1> QED
  BY <1>1, <1>3 DEF Opened

\* Every step keeps the types.
LEMMA TypeStep == TypeOK /\ Bounds /\ [StorageNext]_storageVars => TypeOK'
<1> SUFFICES ASSUME TypeOK, Bounds, [StorageNext]_storageVars PROVE TypeOK'
  OBVIOUS
<1> USE DEF TypeOK
<1>1. CASE UNCHANGED storageVars
  BY <1>1 DEF storageVars
<1>2. ASSUME NEW h \in DedupeHorizons, openKeyed(h) PROVE TypeOK'
  BY <1>2, DiscardType DEF openKeyed, files, history, Phases, Recovering
<1>3. CASE loadKeyedSnapshot
  BY <1>3, DecodeStateType DEF loadKeyedSnapshot, files, history, Phases, Recovering, Closed
<1>4. CASE replayKeyedWAL
  <2> DEFINE frame == wal.frames[pos]
             last == IF pos = 1 THEN 0 ELSE wal.frames[pos - 1].sequence
  <2>1. frame \in Record
    BY <1>4 DEF replayKeyedWAL, File
  <2>2. Decoded(DecodeRecord(frame))
    BY <2>1, DecodeRecordType
  <2>3. applyKeyed(mem, DecodeRecord(frame), horizon) \in State
    BY <2>2, ApplyKeyedType
  <2>4. ReplayVerdict(frame, last) \in {"corrupt", "capacity", "replay"}
    BY DEF ReplayVerdict
  <2>5. mem' \in State /\ pos' \in Nat \ {0} /\ phase' \in Phases
    BY <1>4, <2>3, <2>4 DEF replayKeyedWAL, Phases, Closed, Recovering
  <2> QED
    BY <1>4, <2>5 DEF replayKeyedWAL, files, history
<1>5. ASSUME Opened PROVE phase' \in Phases /\ log' \in Seq(Entry)
  BY <1>5, OpenedLog DEF Opened, Phases
<1>6. CASE replayDone
  BY <1>5, <1>6 DEF replayDone, files
<1>7. CASE truncateKeyedTail
  <2>1. wal' \in File /\ walMedia' \subseteq File
    BY <1>7, FileType DEF truncateKeyedTail
  <2> QED
    BY <1>7, <2>1 DEF truncateKeyedTail, history, Phases, Recovering
<1>8. CASE truncateKeyedTailSync
  BY <1>5, <1>8 DEF truncateKeyedTailSync
<1>9. CASE openStorageFails
  BY <1>9, DiscardType DEF openStorageFails, files, history, Phases, Closed
<1>10. CASE beginGroup
  BY <1>10 DEF beginGroup, files, history, Phases
<1>11. ASSUME NEW c \in CommandIDs, NEW applied \in BOOLEAN, NEW w \in Writes, stage(c, applied, w)
       PROVE  TypeOK'
  <2> DEFINE r == NewRecord(c, applied, w)
  <2>1. r \in Record /\ Decoded(r)
    BY NewRecordType
  <2>2. applyKeyed(mem, r, horizon) \in State
    BY <2>1, ApplyKeyedType
  <2> HIDE DEF r
  <2>3. /\ wal' = WriteFrame(wal, r) /\ walMedia' = walMedia \cup {wal', Tear(wal)}
        /\ mem' = applyKeyed(mem, r, horizon) /\ pending' = pending \cup {r}
        /\ log' = Append(log, [rec |-> r, after |-> mem'])
    BY <1>11 DEF stage, r
  <2>4. wal' \in File /\ walMedia' \subseteq File
    BY <2>1, <2>3, FileType
  <2>5. log' \in Seq(Entry)
    BY <2>1, <2>2, <2>3 DEF Entry
  <2> QED
    BY <1>11, <2>1, <2>2, <2>3, <2>4, <2>5 DEF stage
<1>12. ASSUME NEW c \in CommandIDs, NEW applied \in BOOLEAN, NEW w \in Writes, stageFails(c, applied, w)
       PROVE  TypeOK'
  <2>1. wal' \in File /\ walMedia' \subseteq File
    BY <1>12, FileType DEF stageFails
  <2> QED
    BY <1>12, <2>1 DEF stageFails, history
<1>13. ASSUME NEW c \in CommandIDs, retry(c) PROVE TypeOK'
  <2>1. mem.dedupe[c].sequence \in Nat
    BY DEF State, Decision
  <2> QED
    BY <1>13, <2>1 DEF retry, Higher, files, history
<1>14. CASE syncKeyed \/ syncKeyedFails \/ skipSync
  BY Zenon, <1>14 DEF syncKeyed, syncKeyedFails, skipSync, files, history, Phases
<1>15. CASE reply \/ GetKeyed
  <2>1. mem.sequence \in Nat
    BY DEF State
  <2> QED
    BY <1>15, <2>1 DEF reply, GetKeyed, Higher, files, Phases
<1>16. CASE SnapshotKeyed
  BY <1>16 DEF SnapshotKeyed, files, history, Phases, Snapshotting
<1>17. CASE Close
  BY Zenon, <1>17, DiscardType DEF Close, files, history, Phases, Snapshotting, Closed
<1>18. CASE snapshotRename \/ snapshotSyncDirectory \/ snapshotTruncate
  BY <1>18, EmptyTypes
     DEF snapshotRename, snapshotSyncDirectory, snapshotTruncate, history, Phases, Snapshotting
<1>19. CASE snapshotSync
  BY <1>19, DiscardType DEF snapshotSync, history, Phases, Closed
<1>20. CASE snapshotFails
  BY Zenon, <1>20, DiscardType DEF snapshotFails, files, history, Phases, Closed
<1>21. CASE processCrash \/ powerLoss
  BY <1>21, DiscardType DEF processCrash, powerLoss, files, history, Phases, Closed
<1> QED
  BY <1>1, <1>2, <1>3, <1>4, <1>6, <1>7, <1>8, <1>9, <1>10, <1>11, <1>12, <1>13, <1>14, <1>15,
     <1>16, <1>17, <1>18, <1>19, <1>20, <1>21 DEF StorageNext

-----------------------------------------------------------------------------
(* The sequence numbers in memory and in the files stay within the timeline of decisions *)

\* Sequence numbers are natural numbers.
LEMMA Numbers ==
    ASSUME TypeOK
    PROVE  /\ mem.sequence \in Nat /\ snap.sequence \in Nat /\ Len(log) \in Nat
           /\ opens \in Nat /\ log \in Seq(Entry)
           /\ \A s \in snapMedia : s.sequence \in Nat
           /\ \A w \in walMedia \cup {wal} : \A i \in DOMAIN w.frames :
                  w.frames[i] \in Record /\ w.frames[i].sequence \in Nat /\ i \in Nat
<1>1. mem.sequence \in Nat /\ snap.sequence \in Nat /\ Len(log) \in Nat /\ opens \in Nat /\ log \in Seq(Entry)
  BY DEF TypeOK, State
<1>2. \A s \in snapMedia : s.sequence \in Nat
  BY DEF TypeOK, State
<1>3. ASSUME NEW w \in walMedia \cup {wal}, NEW i \in DOMAIN w.frames
      PROVE  w.frames[i] \in Record /\ w.frames[i].sequence \in Nat /\ i \in Nat
  <2>1. w \in File
    BY DEF TypeOK
  <2>2. w.frames \in Seq(Record)
    BY <2>1 DEF File
  <2>3. w.frames[i] \in Record /\ i \in Nat
    BY <2>2
  <2> QED
    BY <2>3 DEF Record
<1> QED
  BY <1>1, <1>2, <1>3

\* At the end of recovery memory has reached everything in the files.
LEMMA AllReached ==
    ASSUME TypeOK, Bounds, phase \in {"replay", "truncateSync"}, phase = "replay" => pos > Len(wal.frames)
    PROVE  /\ snap.sequence <= mem.sequence
           /\ \A s \in snapMedia : s.sequence <= mem.sequence
           /\ \A w \in walMedia : \A i \in DOMAIN w.frames : w.frames[i].sequence <= mem.sequence
<1>1. snap.sequence <= mem.sequence
  BY DEF Bounds, MemBounds
<1>2. \A i \in DOMAIN wal.frames : wal.frames[i].sequence <= mem.sequence
  <2> TAKE i \in DOMAIN wal.frames
  <2>1. phase = "replay" => i < pos
    BY DEF TypeOK, File
  <2> QED
    BY <2>1 DEF Bounds, MemBounds
<1>3. \A n \in Nat : Reached(n) => n <= mem.sequence
  BY <1>1, <1>2, Numbers DEF Reached
<1> QED
  BY <1>1, <1>3, Numbers DEF Bounds, FileBounds

\* Every step keeps the files within their bounds.
LEMMA FileBoundsStep ==
    TypeOK /\ TypeOK' /\ Bounds /\ [StorageNext]_storageVars => FileBounds'
<1> SUFFICES ASSUME TypeOK, TypeOK', Bounds, [StorageNext]_storageVars PROVE FileBounds'
  OBVIOUS
<1>1. CASE UNCHANGED <<files, log>>
  BY <1>1 DEF files, Bounds, FileBounds, Reached
<1>2. CASE replayDone \/ truncateKeyedTailSync
  <2>1. /\ snap.sequence <= mem.sequence
        /\ \A w \in walMedia : \A i \in DOMAIN w.frames : w.frames[i].sequence <= mem.sequence
    BY <1>2, AllReached DEF replayDone, truncateKeyedTailSync
  <2>2. Len(log') = mem.sequence
    BY <1>2, OpenedLog DEF replayDone, truncateKeyedTailSync
  <2>3. wal' = wal /\ snap' = snap /\ snapMedia' = snapMedia /\ walMedia' \in {walMedia, {wal}}
    BY <1>2 DEF replayDone, truncateKeyedTailSync, files
  <2> QED
    BY <2>1, <2>2, <2>3 DEF Bounds, FileBounds, Reached
<1>3. CASE truncateKeyedTail
  BY <1>3 DEF truncateKeyedTail, CutTail, history, Bounds, FileBounds, Reached
<1>4. ASSUME NEW c \in CommandIDs, NEW applied \in BOOLEAN, NEW w \in Writes, stage(c, applied, w)
      PROVE  FileBounds'
  <2> DEFINE r == NewRecord(c, applied, w)
  <2>1. r \in Record /\ r.sequence = Len(log) + 1
    BY <1>4, NewRecordType DEF TypeOK, stage, Executes, NewRecord, Bounds, MemBounds, Serving
  <2> HIDE DEF r
  <2>2. /\ wal' = WriteFrame(wal, r) /\ walMedia' = walMedia \cup {wal', Tear(wal)}
        /\ snap' = snap /\ snapMedia' = snapMedia
        /\ log' = Append(log, [rec |-> r, after |-> mem'])
    BY <1>4 DEF stage, r
  <2>3. Len(log') = Len(log) + 1
    BY <2>2 DEF TypeOK
  <2>4. \A i \in DOMAIN wal.frames : i \in DOMAIN wal'.frames /\ wal'.frames[i] = wal.frames[i]
    BY <2>2, <2>1 DEF WriteFrame, TypeOK, File
  <2>5. \A i \in DOMAIN wal'.frames : \/ i \in DOMAIN wal.frames /\ wal'.frames[i] = wal.frames[i]
                                     \/ wal'.frames[i] = r
    BY <2>2, <2>1 DEF WriteFrame, TypeOK, File
  <2>6. \A n : Reached(n) => Reached(n)'
    BY <2>2, <2>4 DEF Reached
  <2>7. ASSUME NEW f \in walMedia', NEW i \in DOMAIN f.frames
        PROVE  f.frames[i].sequence <= Len(log') /\ Reached(f.frames[i].sequence)'
    <3>1. CASE f \in walMedia \/ f = Tear(wal)
      BY <3>1, <2>3, <2>6, Numbers DEF Bounds, FileBounds, Tear
    <3>2. CASE f = wal'
      BY <3>2, <2>1, <2>3, <2>5, <2>6, Numbers DEF Bounds, FileBounds, Reached
    <3> QED
      BY <3>1, <3>2, <2>2
  <2> QED
    BY <2>2, <2>3, <2>7, Numbers DEF Bounds, FileBounds
<1>5. ASSUME NEW c \in CommandIDs, NEW applied \in BOOLEAN, NEW w \in Writes, stageFails(c, applied, w)
      PROVE  FileBounds'
  BY <1>5 DEF stageFails, Tear, history, Bounds, FileBounds, Reached
<1>6. CASE syncKeyed \/ snapshotSync
  BY <1>6 DEF syncKeyed, snapshotSync, history, Bounds, FileBounds, Reached
<1>7. CASE snapshotRename
  <2>1. mem.sequence = Len(log)
    BY <1>7 DEF snapshotRename, Bounds, MemBounds, Serving, Snapshotting
  <2>2. wal' = wal /\ walMedia' = walMedia /\ snap' = mem /\ snapMedia' = snapMedia \cup {mem} /\ log' = log
    BY <1>7 DEF snapshotRename, history
  <2>3. \A n \in Nat : Reached(n) => Reached(n)'
    BY <2>1, <2>2, Numbers DEF Bounds, FileBounds, Reached
  <2> QED
    BY <2>1, <2>2, <2>3, Numbers DEF Bounds, FileBounds
<1>8. CASE snapshotSyncDirectory
  BY <1>8 DEF snapshotSyncDirectory, history, Bounds, FileBounds, Reached
<1>9. CASE snapshotTruncate
  <2>1. snap.sequence = Len(log)
    BY <1>9 DEF snapshotTruncate, Bounds, MemBounds, Serving, Snapshotting
  <2>2. walMedia' = walMedia \cup {EmptyFile} /\ wal' = EmptyFile /\ snap' = snap /\ snapMedia' = snapMedia
        /\ log' = log
    BY <1>9 DEF snapshotTruncate, history
  <2> QED
    BY <2>1, <2>2 DEF Bounds, FileBounds, Reached, EmptyFile
<1>10. CASE powerLoss
  BY <1>10, Numbers DEF powerLoss, history, Bounds, FileBounds, Reached
<1> QED
  BY ZenonT(40), <1>1, <1>2, <1>3, <1>4, <1>5, <1>6, <1>7, <1>8, <1>9, <1>10
     DEF StorageNext, storageVars, files, history, openKeyed, loadKeyedSnapshot, replayKeyedWAL,
         openStorageFails, beginGroup, retry, syncKeyedFails, skipSync, reply, GetKeyed,
         SnapshotKeyed, Close, snapshotFails, processCrash

\* A handle that is gone satisfies its bounds.
LEMMA DownBounds ==
    ASSUME TypeOK', phase' \in Closed \cup {"load"}, Discard
    PROVE  MemBounds'
<1>1. mem'.sequence = 0 /\ pos' = 1
  BY DEF Discard, EmptyState
<1>2. Len(log') \in Nat
  BY DEF TypeOK
<1> QED
  BY <1>1, <1>2 DEF MemBounds, Closed, Serving, Snapshotting

\* Every step keeps memory within its bounds.
LEMMA MemBoundsStep ==
    TypeOK /\ TypeOK' /\ Bounds /\ [StorageNext]_storageVars => MemBounds'
<1> SUFFICES ASSUME TypeOK, TypeOK', Bounds, [StorageNext]_storageVars PROVE MemBounds'
  OBVIOUS
<1> USE DEF Bounds
<1>1. CASE UNCHANGED storageVars
  BY ZenonT(40), <1>1 DEF storageVars, MemBounds
<1>2. CASE Discard /\ phase' \in Closed \cup {"load"}
  BY <1>2, DownBounds
<1>3. CASE loadKeyedSnapshot
  <2>1. DecodeState(snap).sequence = snap.sequence
    BY DEF DecodeState
  <2>2. pos = 1 /\ pos' = 1 /\ snap' = snap /\ wal' = wal /\ log' = log
    BY <1>3 DEF loadKeyedSnapshot, files, history, MemBounds
  <2>3. \A i \in DOMAIN wal.frames : ~(i < 1)
    BY DEF TypeOK, File
  <2>4. CASE phase' = "replay"
    BY <1>3, <2>1, <2>2, <2>3, <2>4 DEF loadKeyedSnapshot, MemBounds, FileBounds, Serving, Snapshotting
  <2>5. CASE phase' \in {"capacity", "corrupt"}
    BY <1>3, <2>2, <2>5 DEF loadKeyedSnapshot, MemBounds, Serving, Snapshotting
  <2> QED
    BY <1>3, <2>4, <2>5 DEF loadKeyedSnapshot
<1>4. CASE replayKeyedWAL
  <2> DEFINE frame == wal.frames[pos]
             last == IF pos = 1 THEN 0 ELSE wal.frames[pos - 1].sequence
             r == DecodeRecord(frame)
  <2>1. pos \in DOMAIN wal.frames
    BY <1>4 DEF replayKeyedWAL, TypeOK, File
  <2>2. frame \in Record /\ r.sequence = frame.sequence /\ frame.sequence \in Nat
    BY <2>1, Numbers, DecodeRecordType
  <2>3. frame.sequence <= Len(log)
    BY <2>1 DEF FileBounds
  <2>4. snap' = snap /\ wal' = wal /\ log' = log /\ phase' \in {"replay", "capacity", "corrupt"}
    BY ZenonT(40), <1>4 DEF replayKeyedWAL, files, history, ReplayVerdict
  <2>5. mem'.sequence = IF phase' = "replay" /\ frame.sequence > mem.sequence
                        THEN frame.sequence ELSE mem.sequence
    BY <1>4, <2>2 DEF replayKeyedWAL, applyKeyed
  <2>6. mem'.sequence <= Len(log') /\ mem.sequence <= mem'.sequence
    BY <2>2, <2>3, <2>4, <2>5, Numbers DEF MemBounds
  <2>7. CASE phase' # "replay"
    BY <2>4, <2>6, <2>7 DEF MemBounds, Serving, Snapshotting
  <2>8. CASE phase' = "replay"
    <3>1. pos' = pos + 1
      BY <1>4, <2>8 DEF replayKeyedWAL
    <3>2. frame.sequence <= mem'.sequence
      BY <2>2, <2>5, <2>8, Numbers
    <3>3. mem'.sequence \in Nat
      BY <2>2, <2>5, Numbers
    <3>4. snap.sequence <= mem'.sequence
      BY <1>4, <2>6, <3>3, Numbers DEF replayKeyedWAL, MemBounds
    <3>5. ASSUME NEW i \in DOMAIN wal.frames, i < pos + 1 PROVE wal.frames[i].sequence <= mem'.sequence
      <4>1. i = pos \/ i < pos
        BY <3>5, Numbers DEF TypeOK
      <4> QED
        BY <1>4, <4>1, <2>6, <3>2, <3>3, Numbers DEF replayKeyedWAL, MemBounds
    <3> QED
      BY <2>4, <2>6, <2>8, <3>1, <3>4, <3>5 DEF MemBounds, Serving, Snapshotting
  <2> QED
    BY <2>7, <2>8
<1>5. CASE replayDone \/ truncateKeyedTailSync
  <2>1. Len(log') = mem.sequence /\ mem' = mem /\ phase' = "open"
    BY ZenonT(40), <1>5, OpenedLog DEF replayDone, truncateKeyedTailSync, Opened
  <2> QED
    BY <2>1, Numbers DEF MemBounds
<1>6. CASE truncateKeyedTail
  <2>1. /\ snap.sequence <= mem.sequence
        /\ \A i \in DOMAIN wal.frames : wal.frames[i].sequence <= mem.sequence
    BY <1>6, AllReached DEF truncateKeyedTail, FileBounds
  <2> QED
    BY <1>6, <2>1 DEF truncateKeyedTail, CutTail, history, MemBounds, Serving, Snapshotting
<1>7. ASSUME NEW c \in CommandIDs, NEW applied \in BOOLEAN, NEW w \in Writes, stage(c, applied, w)
      PROVE  MemBounds'
  <2>1. mem.sequence = Len(log) /\ phase' = "group"
    BY <1>7 DEF stage, Executes, MemBounds, Serving
  <2>2. mem'.sequence = mem.sequence + 1
    BY ZenonT(40), <1>7 DEF stage, applyKeyed, NewRecord
  <2>3. Len(log') = Len(log) + 1
    BY <1>7 DEF stage, TypeOK
  <2> QED
    BY <2>1, <2>2, <2>3, Numbers DEF MemBounds
<1>8. CASE UNCHANGED <<mem, log>> /\ phase \in Serving /\ phase' \in {"open", "group", "reply", "rename"}
  BY <1>8 DEF MemBounds, Serving, Snapshotting
<1>9. CASE snapshotRename \/ snapshotSyncDirectory \/ snapshotTruncate
  BY <1>9 DEF snapshotRename, snapshotSyncDirectory, snapshotTruncate, history, MemBounds, Serving, Snapshotting
<1>10. ASSUME NEW c \in CommandIDs, NEW applied \in BOOLEAN, NEW w \in Writes, stageFails(c, applied, w)
       PROVE  MemBounds'
  BY <1>8, <1>10 DEF stageFails, Executes, history, Serving
<1>11. CASE beginGroup \/ syncKeyed \/ syncKeyedFails \/ skipSync \/ reply \/ GetKeyed \/ SnapshotKeyed
  BY ZenonT(40), <1>8, <1>11 DEF beginGroup, syncKeyed, syncKeyedFails, skipSync, reply, GetKeyed, SnapshotKeyed, history, Serving
<1>12. ASSUME NEW c \in CommandIDs, retry(c) PROVE MemBounds'
  BY ZenonT(40), <1>8, <1>12 DEF retry, history, Serving
<1>13. CASE Close \/ snapshotSync \/ snapshotFails
  BY <1>2, <1>8, <1>13 DEF Close, snapshotSync, snapshotFails, history, Serving, Snapshotting, Closed
<1>14. CASE openStorageFails \/ processCrash \/ powerLoss
  BY <1>2, <1>14 DEF openStorageFails, processCrash, powerLoss, Closed
<1>15. ASSUME NEW h \in DedupeHorizons, openKeyed(h) PROVE MemBounds'
  BY <1>2, <1>15 DEF openKeyed
<1> QED
  BY <1>1, <1>3, <1>4, <1>5, <1>6, <1>7, <1>9, <1>10, <1>11, <1>12, <1>13, <1>14, <1>15 DEF StorageNext

\* An empty directory.
LEMMA BoundsInit == StorageInit => TypeOK /\ Bounds
<1> SUFFICES ASSUME StorageInit PROVE TypeOK /\ Bounds
  OBVIOUS
<1>1. TypeOK
  <2>1. poisoned \in BOOLEAN /\ closing \in BOOLEAN
    BY Zenon DEF StorageInit
  <2>2. mem \in State /\ snap \in State /\ snapMedia \subseteq State /\ wal \in File /\ walMedia \subseteq File
    BY EmptyTypes DEF StorageInit
  <2> QED
    BY <2>1, <2>2 DEF StorageInit, TypeOK, Phases, Closed
<1>2. Bounds
  BY DEF StorageInit, Bounds, FileBounds, MemBounds, EmptyFile, EmptyState, Serving, Snapshotting
<1> QED
  BY <1>1, <1>2

\* Types and bounds hold together: neither is inductive alone, because the end of
\* recovery cuts the timeline at the sequence memory has reached.
THEOREM BoundsInvariant == StorageSpec => [](TypeOK /\ Bounds)
<1>2. TypeOK /\ Bounds /\ [StorageNext]_storageVars => (TypeOK /\ Bounds)'
  BY TypeStep, FileBoundsStep, MemBoundsStep DEF Bounds
<1> QED
  BY BoundsInit, <1>2, PTL DEF StorageSpec

\* The state of the storage engine keeps its types through every operation, failure,
\* crash and recovery, whatever text, horizons and platform it runs with.
THEOREM TypeCorrect == StorageSpec => []TypeOK
BY BoundsInvariant, PTL

-----------------------------------------------------------------------------
(* Durability of acknowledged decisions *)

InLog(r, l) == r.sequence \in DOMAIN l /\ l[r.sequence].rec = r
InFile(r, w) == \E i \in DOMAIN w.frames : w.frames[i] = r

\* A handle in service appends behind complete frames, and the WAL is only cut when the
\* snapshot that replaces it is the one power loss leaves.
SafeFiles ==
    /\ phase \in Serving /\ ~poisoned => ~wal.torn
    /\ phase = "truncateSync" => ~wal.torn
    /\ phase \in {"walTruncate", "walSync"} => snapMedia = {snap}

\* What a group waits for is written, and once its Sync returned, on every medium.
Staged ==
    /\ phase \notin {"group", "reply"} => pending = {}
    /\ \A r \in pending : InLog(r, log) /\ InFile(r, wal)
    /\ phase = "reply" => \A r \in pending, w \in walMedia : InFile(r, w)

\* truncateKeyedTail removes what recovery found torn, and a failed append poisons; the
\* directory Sync of snapshotKeyed comes before its Truncate.
LEMMA SafeFilesStep ==
    ASSUME DirectorySync
    PROVE  TypeOK /\ SafeFiles /\ [StorageNext]_storageVars => SafeFiles'
<1> SUFFICES ASSUME TypeOK, SafeFiles, [StorageNext]_storageVars PROVE SafeFiles'
  OBVIOUS
<1> USE DEF SafeFiles, Serving, Snapshotting
<1>1. CASE UNCHANGED storageVars
  BY <1>1 DEF storageVars
<1>2. ASSUME phase' \in Closed \cup {"load", "replay"} PROVE SafeFiles'
  BY <1>2 DEF Closed
<1>3. CASE \/ \E h \in DedupeHorizons : openKeyed(h)
           \/ openStorageFails \/ processCrash \/ powerLoss
  BY <1>2, <1>3 DEF openKeyed, openStorageFails, processCrash, powerLoss, Closed
<1>4. CASE loadKeyedSnapshot \/ replayKeyedWAL
  BY <1>2, <1>4 DEF loadKeyedSnapshot, replayKeyedWAL, ReplayVerdict, Closed
<1>5. CASE replayDone
  BY <1>5 DEF replayDone, Opened, files
<1>6. CASE truncateKeyedTail
  BY <1>6 DEF truncateKeyedTail, CutTail
<1>7. CASE truncateKeyedTailSync
  BY <1>7 DEF truncateKeyedTailSync, Opened
<1>8. ASSUME NEW c \in CommandIDs, NEW applied \in BOOLEAN, NEW w \in Writes, stage(c, applied, w)
      PROVE  SafeFiles'
  BY <1>8 DEF stage, Executes, WriteFrame
<1>9. ASSUME NEW c \in CommandIDs, NEW applied \in BOOLEAN, NEW w \in Writes, stageFails(c, applied, w)
      PROVE  SafeFiles'
  BY <1>9 DEF stageFails, Executes
<1>10. ASSUME NEW c \in CommandIDs, retry(c) PROVE SafeFiles'
  BY <1>10 DEF retry, files
<1>11. CASE beginGroup \/ syncKeyed \/ syncKeyedFails \/ skipSync \/ reply \/ GetKeyed \/ SnapshotKeyed
  BY <1>11 DEF beginGroup, syncKeyed, syncKeyedFails, skipSync, reply, GetKeyed, SnapshotKeyed, files
<1>12. CASE Close
  BY <1>2, <1>12 DEF Close, files, Closed
<1>13. CASE snapshotRename \/ snapshotSyncDirectory
  BY <1>13 DEF snapshotRename, snapshotSyncDirectory
<1>14. CASE snapshotTruncate
  BY <1>14 DEF snapshotTruncate, EmptyFile
<1>15. CASE snapshotSync
  BY <1>2, <1>15 DEF snapshotSync, Closed
<1>16. CASE snapshotFails
  BY <1>2, <1>16 DEF snapshotFails, Closed
<1> QED
  BY <1>1, <1>3, <1>4, <1>5, <1>6, <1>7, <1>8, <1>9, <1>10, <1>11, <1>12, <1>13, <1>14, <1>15, <1>16
     DEF StorageNext

\* What stage does to the WAL and the timeline.
LEMMA StageEffect ==
    ASSUME TypeOK, Bounds, SafeFiles,
           NEW c \in CommandIDs, NEW applied \in BOOLEAN, NEW w \in Writes, stage(c, applied, w)
    PROVE  LET r == NewRecord(c, applied, w) IN
           /\ r \in Record /\ r.sequence = Len(log) + 1
           /\ wal'.frames = Append(wal.frames, r)
           /\ log' = Append(log, [rec |-> r, after |-> mem'])
           /\ \A d \in Record : InLog(d, log) => InLog(d, log')
           /\ InLog(r, log') /\ InFile(r, wal')
           /\ \A d : InFile(d, wal) => InFile(d, wal')
<1> DEFINE r == NewRecord(c, applied, w)
<1>1. r \in Record /\ r.sequence = Len(log) + 1
  BY NewRecordType DEF TypeOK, stage, Executes, NewRecord, Bounds, MemBounds, Serving
<1>2. ~wal.torn
  BY DEF stage, Executes, SafeFiles, Serving
<1> HIDE DEF r
<1>3. wal' = WriteFrame(wal, r) /\ log' = Append(log, [rec |-> r, after |-> mem'])
  BY DEF stage, r
<1>4. wal'.frames = Append(wal.frames, r)
  BY <1>2, <1>3 DEF WriteFrame
<1>5. wal.frames \in Seq(Record) /\ log \in Seq(Entry)
  BY DEF TypeOK, File
<1>6. ASSUME NEW d \in Record, InLog(d, log) PROVE InLog(d, log')
  BY <1>3, <1>5, <1>6 DEF InLog
<1>7. InLog(r, log')
  BY <1>1, <1>3, <1>5 DEF InLog
<1>8. InFile(r, wal')
  <2>1. wal'.frames[Len(wal.frames) + 1] = r /\ Len(wal.frames) + 1 \in DOMAIN wal'.frames
    BY <1>1, <1>4, <1>5
  <2> QED
    BY <2>1 DEF InFile
<1>9. ASSUME NEW d, InFile(d, wal) PROVE InFile(d, wal')
  <2>1. PICK i \in DOMAIN wal.frames : wal.frames[i] = d
    BY <1>9 DEF InFile
  <2>2. i \in DOMAIN wal'.frames /\ wal'.frames[i] = d
    BY <2>1, <1>1, <1>4, <1>5
  <2> QED
    BY <2>2 DEF InFile
<1> QED
  BY <1>1, <1>3, <1>4, <1>6, <1>7, <1>8, <1>9 DEF r

\* A group's decisions are written when they are staged, and its Sync covers them all.
LEMMA StagedStep == TypeOK /\ Bounds /\ SafeFiles /\ Staged /\ [StorageNext]_storageVars => Staged'
<1> SUFFICES ASSUME TypeOK, Bounds, SafeFiles, Staged, [StorageNext]_storageVars PROVE Staged'
  OBVIOUS
<1>1. CASE UNCHANGED storageVars
  BY <1>1 DEF storageVars, Staged, InLog, InFile
<1>2. ASSUME pending' = {} PROVE Staged'
  BY <1>2 DEF Staged
<1>3. CASE \/ \E h \in DedupeHorizons : openKeyed(h)
           \/ openStorageFails \/ processCrash \/ powerLoss
  BY <1>2, <1>3 DEF openKeyed, openStorageFails, processCrash, powerLoss, Discard
<1>4. CASE \/ loadKeyedSnapshot \/ replayKeyedWAL \/ replayDone \/ truncateKeyedTail \/ truncateKeyedTailSync
           \/ SnapshotKeyed \/ snapshotRename \/ snapshotSyncDirectory \/ snapshotTruncate
           \/ beginGroup \/ GetKeyed
  BY <1>2, <1>4
     DEF Staged, loadKeyedSnapshot, replayKeyedWAL, replayDone, truncateKeyedTail, truncateKeyedTailSync,
         SnapshotKeyed, snapshotRename, snapshotSyncDirectory, snapshotTruncate, beginGroup, GetKeyed
<1>5. CASE Close \/ snapshotSync \/ snapshotFails
  BY <1>2, <1>5 DEF Staged, Close, snapshotSync, snapshotFails, Discard, Snapshotting
<1>6. CASE syncKeyedFails \/ skipSync \/ reply
  BY <1>2, <1>6 DEF syncKeyedFails, skipSync, reply
<1>7. ASSUME NEW c \in CommandIDs, NEW applied \in BOOLEAN, NEW w \in Writes, stage(c, applied, w)
      PROVE  Staged'
  <2>1. phase' = "group" /\ pending' = pending \cup {NewRecord(c, applied, w)}
    BY <1>7 DEF stage, Executes
  <2>2. \A r \in pending' : InLog(r, log') /\ InFile(r, wal')
    <3>1. \A r \in pending : r \in Record /\ InLog(r, log) /\ InFile(r, wal)
      BY DEF Staged, TypeOK
    <3> QED
      BY Zenon, <1>7, <2>1, <3>1, StageEffect
  <2> QED
    BY <2>1, <2>2 DEF Staged
<1>8. ASSUME NEW c \in CommandIDs, NEW applied \in BOOLEAN, NEW w \in Writes, stageFails(c, applied, w)
      PROVE  Staged'
  BY <1>8 DEF stageFails, Executes, history, Tear, Staged, InLog, InFile
<1>9. ASSUME NEW c \in CommandIDs, retry(c) PROVE Staged'
  BY <1>9 DEF retry, files, history, Staged, InLog, InFile
<1>10. CASE syncKeyed
  BY <1>10 DEF syncKeyed, history, Staged, InLog, InFile
<1> QED
  BY <1>1, <1>3, <1>4, <1>5, <1>6, <1>7, <1>8, <1>9, <1>10 DEF StorageNext

\* No step takes an acknowledged decision off a medium: the WAL is only cut when every
\* snapshot power loss may leave covers it.
LEMMA AckedStep ==
    TypeOK /\ TypeOK' /\ Bounds /\ SafeFiles /\ Staged /\ AckedDurable /\ [StorageNext]_storageVars
        => AckedDurable'
<1> DEFINE Held(r, s, w) == r.sequence <= s.sequence \/ InFile(r, w)
<1> SUFFICES ASSUME TypeOK, TypeOK', Bounds, SafeFiles, Staged, AckedDurable, [StorageNext]_storageVars
             PROVE  AckedDurable'
  OBVIOUS
<1>1. \A r \in acked : r \in Record /\ r.sequence \in Nat /\ InLog(r, log)
                       /\ \A s \in snapMedia, w \in walMedia : Held(r, s, w)
  <2> TAKE r \in acked
  <2>1. r \in Record /\ r.sequence \in Nat
    BY DEF TypeOK, Record
  <2>2. wal \in walMedia /\ snap \in snapMedia
    BY DEF Bounds, FileBounds
  <2> QED
    BY <2>1, <2>2 DEF AckedDurable, InLog, InFile
<1>2. ASSUME \A r \in acked' : InLog(r, log') /\ \A s \in snapMedia', w \in walMedia' : Held(r, s, w)
      PROVE  AckedDurable'
  BY <1>2 DEF AckedDurable, InLog, InFile
<1>3. CASE UNCHANGED <<files, log, acked>>
  BY <1>3 DEF files, AckedDurable
<1>4. CASE replayDone \/ truncateKeyedTailSync
  <2>1. /\ snap.sequence <= mem.sequence
        /\ \A i \in DOMAIN wal.frames : wal.frames[i].sequence <= mem.sequence
    BY <1>4, AllReached DEF replayDone, truncateKeyedTailSync, Bounds, FileBounds
  <2>2. /\ Len(log') = mem.sequence /\ \A i \in 1..mem.sequence : log'[i] = log[i]
        /\ log' \in Seq(Entry)
    BY <1>4, OpenedLog DEF replayDone, truncateKeyedTailSync
  <2>3. snapMedia' = snapMedia /\ walMedia' \subseteq walMedia /\ acked' = acked
    BY <1>4 DEF replayDone, truncateKeyedTailSync, files, Bounds, FileBounds
  <2>4. ASSUME NEW r \in acked PROVE InLog(r, log')
    <3>1. r.sequence <= mem.sequence
      BY <1>1, <2>1, Numbers DEF InFile, Bounds, FileBounds
    <3>2. r.sequence \in 1..Len(log) /\ log[r.sequence].rec = r
      BY <1>1 DEF InLog, TypeOK
    <3> QED
      BY <2>2, <3>1, <3>2, Numbers DEF InLog
  <2> QED
    BY <1>1, <1>2, <2>3, <2>4
<1>5. CASE truncateKeyedTail
  BY <1>1, <1>2, <1>5 DEF truncateKeyedTail, CutTail, history, InLog, InFile, Bounds, FileBounds
<1>6. ASSUME NEW c \in CommandIDs, NEW applied \in BOOLEAN, NEW w \in Writes, stage(c, applied, w)
      PROVE  AckedDurable'
  <2>1. walMedia' = walMedia \cup {wal', Tear(wal)} /\ snapMedia' = snapMedia /\ acked' = acked
    BY <1>6 DEF stage
  <2>2. \A r \in acked : InLog(r, log') /\ (InFile(r, wal) => InFile(r, wal'))
    BY Zenon, <1>1, <1>6, StageEffect
  <2>3. \A r \in acked : InFile(r, wal) => InFile(r, Tear(wal))
    BY DEF InFile, Tear
  <2>4. wal \in walMedia
    BY DEF Bounds, FileBounds
  <2> HIDE DEF Held
  <2>5. \A r \in acked, s \in snapMedia : Held(r, s, wal) => Held(r, s, wal') /\ Held(r, s, Tear(wal))
    BY <2>2, <2>3 DEF Held
  <2> QED
    BY <1>1, <1>2, <2>1, <2>2, <2>4, <2>5
<1>7. ASSUME NEW c \in CommandIDs, NEW applied \in BOOLEAN, NEW w \in Writes, stageFails(c, applied, w)
      PROVE  AckedDurable'
  BY <1>1, <1>2, <1>7 DEF stageFails, Tear, history, InLog, InFile, Bounds, FileBounds
<1>8. CASE syncKeyed \/ snapshotSync
  BY <1>1, <1>2, <1>8 DEF syncKeyed, snapshotSync, history, InLog, InFile, Bounds, FileBounds
<1>9. CASE reply
  BY <1>1, <1>2, <1>9 DEF reply, files, Staged, InLog, InFile
<1>10. CASE snapshotRename
  <2>1. mem.sequence = Len(log)
    BY <1>10 DEF snapshotRename, Bounds, MemBounds, Serving, Snapshotting
  <2>2. \A r \in acked : r.sequence <= mem.sequence
    BY <1>1, <2>1 DEF InLog, TypeOK
  <2> QED
    BY <1>1, <1>2, <1>10, <2>2 DEF snapshotRename, history, InLog
<1>11. CASE snapshotSyncDirectory
  BY <1>1, <1>2, <1>11 DEF snapshotSyncDirectory, history, InLog, Bounds, FileBounds
<1>12. CASE snapshotTruncate
  <2>1. mem.sequence = Len(log) /\ snapMedia = {mem}
    BY <1>12 DEF snapshotTruncate, Bounds, MemBounds, SafeFiles, Serving, Snapshotting
  <2>2. \A r \in acked : r.sequence <= mem.sequence
    BY <1>1, <2>1 DEF InLog, TypeOK
  <2> QED
    BY <1>1, <1>2, <1>12, <2>1, <2>2 DEF snapshotTruncate, history, InLog
<1>13. CASE powerLoss
  BY <1>1, <1>2, <1>13 DEF powerLoss, history, InLog
<1> QED
  BY Zenon, <1>3, <1>4, <1>5, <1>6, <1>7, <1>8, <1>9, <1>10, <1>11, <1>12, <1>13
     DEF StorageNext, storageVars, files, history, openKeyed, loadKeyedSnapshot, replayKeyedWAL,
         openStorageFails, beginGroup, retry, syncKeyedFails, skipSync, GetKeyed,
         SnapshotKeyed, Close, snapshotFails, processCrash

\* Nothing is staged or acknowledged in a new directory.
LEMMA DurableInit == StorageInit => SafeFiles /\ Staged /\ AckedDurable
BY DEF StorageInit, SafeFiles, Staged, AckedDurable, Serving, Snapshotting

\* What an acknowledgement rests on: the files are in order, what a group waits for is in
\* them, and what was acknowledged is on every medium.
THEOREM DurableInvariant ==
    ASSUME DirectorySync
    PROVE  StorageSpec => [](SafeFiles /\ Staged /\ AckedDurable)
<1> DEFINE Inv == SafeFiles /\ Staged /\ AckedDurable
<1>1. StorageInit => Inv
  BY DurableInit
<1>2. /\ TypeOK /\ Bounds /\ TypeOK' /\ Inv /\ [StorageNext]_storageVars
      => Inv'
  BY SafeFilesStep, StagedStep, AckedStep
<1>3. StorageSpec => []Inv
  <2> HIDE DEF Inv
  <2> QED
    BY <1>1, <1>2, BoundsInvariant, PTL DEF StorageSpec
<1> QED
  BY <1>3 DEF Inv

\* What an acknowledgement promises: whatever power loss leaves of the two files, after
\* any sequence of groups, failed writes, failed Syncs, interrupted snapshots, crashes and
\* recoveries, holds every decision processCommitGroup reported as successful.  It needs a
\* platform whose directory Sync is real, and no assumption on text or horizons.
THEOREM Durability ==
    ASSUME DirectorySync
    PROVE  StorageSpec => []AckedDurable
BY DurableInvariant, PTL

\* A handle that serves has every acknowledged decision: files that lost one are refused
\* by openStorage, never served.
THEOREM FailsClosed ==
    ASSUME DirectorySync
    PROVE  StorageSpec => []FailClosed
<1>1. TypeOK /\ Bounds /\ AckedDurable => FailClosed
  <2> SUFFICES ASSUME TypeOK, Bounds, AckedDurable, phase \in Serving, NEW r \in acked
               PROVE  r.sequence <= mem.sequence
    BY DEF FailClosed
  <2>1. r.sequence \in DOMAIN log
    BY DEF AckedDurable, Bounds, FileBounds
  <2> QED
    BY <2>1 DEF Bounds, MemBounds, TypeOK
<1> QED
  BY <1>1, BoundsInvariant, Durability, PTL

-----------------------------------------------------------------------------
(* Poisoning *)

\* A poisoned handle is not in the middle of a snapshot, and its group has nothing left to
\* acknowledge.
PoisonedIdle ==
    poisoned => /\ phase \in {"open", "group", "reply"}
                /\ phase = "reply" => pending = {}

\* A failed append or Sync poisons inside a group, a failed snapshot when it returns.
LEMMA PoisonedIdleStep == PoisonedIdle /\ [StorageNext]_storageVars => PoisonedIdle'
<1> SUFFICES ASSUME PoisonedIdle, [StorageNext]_storageVars PROVE PoisonedIdle'
  OBVIOUS
<1> USE DEF PoisonedIdle
<1>1. ASSUME poisoned' = FALSE PROVE PoisonedIdle'
  BY <1>1
<1>2. CASE \/ \E h \in DedupeHorizons : openKeyed(h)
           \/ openStorageFails \/ processCrash \/ powerLoss
  BY <1>1, <1>2 DEF openKeyed, openStorageFails, processCrash, powerLoss, Discard
<1>3. CASE Close \/ snapshotSync \/ snapshotFails
  BY Zenon, <1>1, <1>3 DEF Close, snapshotSync, snapshotFails, Discard, Snapshotting
<1>4. CASE \/ loadKeyedSnapshot \/ replayKeyedWAL \/ replayDone \/ truncateKeyedTail \/ truncateKeyedTailSync
           \/ SnapshotKeyed \/ snapshotRename \/ snapshotSyncDirectory \/ snapshotTruncate
           \/ beginGroup \/ GetKeyed \/ syncKeyed \/ syncKeyedFails \/ skipSync \/ reply
  BY Zenon, <1>4
     DEF loadKeyedSnapshot, replayKeyedWAL, replayDone, truncateKeyedTail, truncateKeyedTailSync,
         SnapshotKeyed, snapshotRename, snapshotSyncDirectory, snapshotTruncate, beginGroup, GetKeyed,
         syncKeyed, syncKeyedFails, skipSync, reply
<1>5. ASSUME NEW c \in CommandIDs, NEW applied \in BOOLEAN, NEW w \in Writes,
             stage(c, applied, w) \/ stageFails(c, applied, w)
      PROVE  PoisonedIdle'
  BY Zenon, <1>5 DEF stage, stageFails, Executes
<1>6. ASSUME NEW c \in CommandIDs, retry(c) PROVE PoisonedIdle'
  BY Zenon, <1>6 DEF retry
<1>7. CASE UNCHANGED storageVars
  BY <1>7 DEF storageVars
<1> QED
  BY <1>2, <1>3, <1>4, <1>5, <1>6, <1>7 DEF StorageNext

\* There is no handle, so none that is poisoned.
LEMMA PoisonedIdleInit == StorageInit => PoisonedIdle
BY DEF StorageInit, PoisonedIdle

\* A poisoned handle starts nothing, in every behaviour.
LEMMA PoisonedIdleInvariant == StorageSpec => []PoisonedIdle
BY PoisonedIdleInit, PoisonedIdleStep, PTL DEF StorageSpec

\* What a step of a poisoned handle may do: it acknowledges and decides nothing, and
\* installs no snapshot.
PoisonedStep ==
    poisoned => acked' = acked /\ Len(log') <= Len(log) /\ (phase' # "down" => snap' = snap)

\* Executes, reply and every step of SnapshotKeyed are closed to a poisoned handle.
LEMMA PoisonStops == TypeOK /\ PoisonedIdle /\ [StorageNext]_storageVars => PoisonedStep
<1> SUFFICES ASSUME TypeOK, PoisonedIdle, [StorageNext]_storageVars, poisoned
             PROVE  acked' = acked /\ Len(log') <= Len(log) /\ (phase' # "down" => snap' = snap)
  BY DEF PoisonedStep
<1>1. /\ phase \in {"open", "group", "reply"}
      /\ phase = "reply" => pending = {}
  BY DEF PoisonedIdle
<1>2. Len(log) \in Nat
  BY DEF TypeOK
<1>3. CASE UNCHANGED storageVars
  BY <1>2, <1>3 DEF storageVars
<1>4. CASE StorageNext
  <2>1. UNCHANGED <<log, snap>> \/ powerLoss
    BY ZenonT(30), <1>1, <1>4
       DEF StorageNext, files, history, openKeyed, loadKeyedSnapshot, replayKeyedWAL, replayDone,
           truncateKeyedTail, truncateKeyedTailSync, openStorageFails, beginGroup, stage, stageFails,
           Executes, retry, syncKeyed, syncKeyedFails, skipSync, reply, GetKeyed, SnapshotKeyed, Close,
           snapshotRename, snapshotSyncDirectory, snapshotTruncate, snapshotSync, snapshotFails, processCrash,
           Closed
  <2>2. acked' = acked \/ reply
    BY Zenon, <1>4
       DEF StorageNext, history, openKeyed, loadKeyedSnapshot, replayKeyedWAL, replayDone,
           truncateKeyedTail, truncateKeyedTailSync, openStorageFails, beginGroup, stage, stageFails,
           retry, syncKeyed, syncKeyedFails, skipSync, GetKeyed, SnapshotKeyed, Close,
           snapshotRename, snapshotSyncDirectory, snapshotTruncate, snapshotSync, snapshotFails, processCrash,
           powerLoss
  <2>3. reply => acked' = acked
    BY <1>1 DEF reply
  <2> QED
    BY <1>2, <2>1, <2>2, <2>3 DEF powerLoss, history
<1> QED
  BY <1>3, <1>4

-----------------------------------------------------------------------------
(* What is read back *)

\* Keys and command IDs are read back as they were written.
PlainText == \A x \in CommandIDs \cup Keys : jsonText[x] = x
\* dedupe holds nothing that dedupeIDs, the only list a snapshot is read by, omits.
Covered(m) ==
    \A c \in CommandIDs : m.dedupe[c] # NoDecision =>
        \E i \in DOMAIN m.dedupeIDs : m.dedupeIDs[i] = c

\* A frame is read back as it was written.
LEMMA DecodeRecordIdentity ==
    ASSUME PlainText, NEW r \in Record
    PROVE  DecodeRecord(r) = r
<1> DEFINE w == r.writes
<1>1. r = [sequence |-> r.sequence, id |-> r.id, applied |-> r.applied, writes |-> w] /\ r.id \in CommandIDs
  BY DEF Record
<1>2. w \in [DOMAIN w -> Values \cup {Absent}] /\ DOMAIN w \subseteq Keys
  BY Zenon, StorageAssumption DEF Record, NoWrites
<1>3. {jsonText[x] : x \in DOMAIN w} = DOMAIN w
  BY <1>2 DEF PlainText
<1>4. \A t \in DOMAIN w : (CHOOSE x \in DOMAIN w : jsonText[x] = t) = t
  BY <1>2 DEF PlainText
<1>5. DecodeMap(w, DOMAIN w) = w
  BY Zenon, <1>2, <1>3, <1>4 DEF DecodeMap
<1>6. jsonText[r.id] = r.id
  BY <1>1 DEF PlainText
<1> QED
  BY <1>1, <1>5, <1>6 DEF DecodeRecord

\* So is a snapshot.
LEMMA DecodeStateIdentity ==
    ASSUME PlainText, NEW s \in State, Covered(s)
    PROVE  DecodeState(s) = s
<1> DEFINE L == Live(s.records)
           ids == {s.dedupeIDs[i] : i \in DOMAIN s.dedupeIDs}
           live == DecodeMap(s.records, L)
           kept == DecodeMap(s.dedupe, ids)
<1>1. /\ s.records \in [Keys -> Values \cup {Absent}] /\ s.dedupe \in [CommandIDs -> Decision]
      /\ s.dedupeIDs \in Seq(CommandIDs)
      /\ s = [records |-> s.records, dedupe |-> s.dedupe, dedupeIDs |-> s.dedupeIDs, sequence |-> s.sequence]
  BY DEF State
<1>2. L \subseteq Keys /\ ids \subseteq CommandIDs
  BY <1>1 DEF Live
<1>3. ASSUME NEW f, NEW S, S \subseteq CommandIDs \/ S \subseteq Keys
      PROVE  DOMAIN DecodeMap(f, S) = S /\ \A x \in S : DecodeMap(f, S)[x] = f[x]
  <2>1. \A x \in S : jsonText[x] = x
    BY <1>3 DEF PlainText
  <2>2. {jsonText[x] : x \in S} = S
    BY <2>1
  <2>3. \A t \in S : (CHOOSE x \in S : jsonText[x] = t) = t
    BY <2>1
  <2> QED
    BY <2>2, <2>3 DEF DecodeMap
<1>4. /\ DOMAIN live = L /\ \A k \in L : live[k] = s.records[k]
      /\ DOMAIN kept = ids /\ \A c \in ids : kept[c] = s.dedupe[c]
  BY <1>2, <1>3
<1>5. [k \in Keys |-> IF k \in DOMAIN live THEN live[k] ELSE Absent] = s.records
  BY Zenon, <1>1, <1>4 DEF Live
<1>6. \A c \in CommandIDs : c \notin ids => s.dedupe[c] = NoDecision
  BY DEF Covered
<1> HIDE DEF ids, live, kept
<1>7. [c \in CommandIDs |-> IF c \in DOMAIN kept THEN kept[c] ELSE NoDecision] = s.dedupe
  BY <1>1, <1>4, <1>6
<1>8. [i \in DOMAIN s.dedupeIDs |-> jsonText[s.dedupeIDs[i]]] = s.dedupeIDs
  BY <1>1 DEF PlainText
<1>9. DecodeState(s) =
        [records |-> [k \in Keys |-> IF k \in DOMAIN live THEN live[k] ELSE Absent],
         dedupe |-> [c \in CommandIDs |-> IF c \in DOMAIN kept THEN kept[c] ELSE NoDecision],
         dedupeIDs |-> [i \in DOMAIN s.dedupeIDs |-> jsonText[s.dedupeIDs[i]]], sequence |-> s.sequence]
  BY DEF DecodeState, live, kept, ids
<1> QED
  BY <1>1, <1>5, <1>7, <1>8, <1>9

\* applyKeyed appends the ID and, past the horizon, drops the oldest one with its decision.
LEMMA ApplyKeyedDedupe ==
    ASSUME NEW m \in State, NEW r \in Record, NEW h \in Nat \ {0}
    PROVE  LET a == applyKeyed(m, r, h)
               ids == Append(m.dedupeIDs, r.id)
               expire == Len(ids) > h
           IN /\ a.sequence = r.sequence
              /\ a.dedupeIDs = IF expire THEN Tail(ids) ELSE ids
              /\ \A c \in CommandIDs : a.dedupe[c] =
                     IF expire /\ c = ids[1] THEN NoDecision
                     ELSE IF c = r.id THEN decision(r) ELSE m.dedupe[c]
<1> DEFINE ids == Append(m.dedupeIDs, r.id)
           retained == [m.dedupe EXCEPT ![r.id] = decision(r)]
           expire == Len(ids) > h
<1>1. m.dedupe \in [CommandIDs -> Decision] /\ m.dedupeIDs \in Seq(CommandIDs) /\ r.id \in CommandIDs
  BY DEF State, Record
<1>2. retained \in [CommandIDs -> Decision]
  BY <1>1 DEF decision, Decision, Record
<1>3. ids \in Seq(CommandIDs) /\ Len(ids) >= 1 /\ Head(ids) = ids[1] /\ ids[1] \in CommandIDs
  BY <1>1
<1>4. \A c \in CommandIDs : retained[c] = IF c = r.id THEN decision(r) ELSE m.dedupe[c]
  BY <1>1
<1> HIDE DEF ids, retained, expire
<1>5. \A c \in CommandIDs :
        [retained EXCEPT ![ids[1]] = NoDecision][c] = IF c = ids[1] THEN NoDecision ELSE retained[c]
  BY <1>2, <1>3
<1>6. applyKeyed(m, r, h) =
        [records |-> IF r.applied THEN Overwrite(m.records, r.writes) ELSE m.records,
         sequence |-> r.sequence,
         dedupeIDs |-> IF expire THEN Tail(ids) ELSE ids,
         dedupe |-> IF expire THEN [retained EXCEPT ![Head(ids)] = NoDecision] ELSE retained]
  BY DEF applyKeyed, ids, retained, expire
<1>7. /\ applyKeyed(m, r, h).sequence = r.sequence
      /\ applyKeyed(m, r, h).dedupeIDs = IF expire THEN Tail(ids) ELSE ids
      /\ applyKeyed(m, r, h).dedupe = IF expire THEN [retained EXCEPT ![ids[1]] = NoDecision] ELSE retained
  BY <1>3, <1>6
<1> QED
  BY <1>4, <1>5, <1>7 DEF ids, expire

\* applyKeyed appends the ID it retains, and expires an ID with its entry.
LEMMA ApplyKeyedCovered ==
    ASSUME NEW m \in State, NEW r \in Record, NEW h \in Nat \ {0}, Covered(m)
    PROVE  Covered(applyKeyed(m, r, h))
<1> DEFINE a == applyKeyed(m, r, h)
           ids == Append(m.dedupeIDs, r.id)
<1>1. m.dedupeIDs \in Seq(CommandIDs) /\ r.id \in CommandIDs
  BY DEF State, Record
<1>2. ids \in Seq(CommandIDs) /\ Len(ids) = Len(m.dedupeIDs) + 1 /\ ids[Len(ids)] = r.id
      /\ \A i \in DOMAIN m.dedupeIDs : i \in DOMAIN ids /\ ids[i] = m.dedupeIDs[i]
  BY <1>1
<1> SUFFICES ASSUME NEW c \in CommandIDs, a.dedupe[c] # NoDecision
             PROVE  \E i \in DOMAIN a.dedupeIDs : a.dedupeIDs[i] = c
  BY DEF Covered
<1>3. \E i \in DOMAIN ids : ids[i] = c
  <2>1. c = r.id \/ m.dedupe[c] # NoDecision
    BY ApplyKeyedDedupe
  <2> QED
    BY <1>1, <1>2, <2>1 DEF Covered
<1>4. CASE ~(Len(ids) > h)
  BY Zenon, <1>3, <1>4, ApplyKeyedDedupe
<1>5. CASE Len(ids) > h
  <2>1. a.dedupeIDs = Tail(ids) /\ c # ids[1]
    BY Zenon, <1>5, ApplyKeyedDedupe
  <2>2. PICK i \in DOMAIN ids : ids[i] = c
    BY <1>3
  <2> HIDE DEF ids
  <2>3. i - 1 \in DOMAIN Tail(ids) /\ Tail(ids)[i - 1] = c
    BY SMTT(30), <1>2, <2>1, <2>2
  <2> QED
    BY <2>1, <2>3
<1> QED
  BY <1>4, <1>5

-----------------------------------------------------------------------------
(* As long as power stays on *)

\* The last decision that recovery from WAL w and snapshot s reaches.
End(w, s) == IF w.frames = <<>> THEN s.sequence ELSE w.frames[Len(w.frames)].sequence
Consecutive(w) == \A i \in DOMAIN w.frames : w.frames[i].sequence + 1 = w.frames[1].sequence + i
Adjoins(w, s) == w.frames # <<>> => w.frames[1].sequence <= s.sequence + 1

\* The frames of the WAL follow one another, start no later than behind the snapshot and end
\* no earlier than it; a handle in service is where they end.
Joined ==
    /\ Consecutive(wal) /\ Adjoins(wal, snap) /\ snap.sequence <= End(wal, snap)
    /\ phase \in Serving \cup {"truncateSync"} => mem.sequence = End(wal, snap)
    /\ phase = "replay" =>
         mem.sequence = snap.sequence \/ \E i \in DOMAIN wal.frames : i < pos /\ wal.frames[i].sequence = mem.sequence
    /\ phase = "truncateSync" \/ (phase \in Serving /\ ~poisoned) => ~wal.torn

\* Nothing is shown beyond that end.
Dated(m) == \A c \in CommandIDs : m.dedupe[c].sequence <= m.sequence
Shown ==
    /\ seen <= End(wal, snap) /\ Dated(mem) /\ Dated(snap)
    /\ phase \in Serving => repeats <= mem.sequence
    /\ phase \in Recovering => repeats = 0

\* Where the files end is a number.
LEMMA EndFacts ==
    ASSUME NEW w \in File, NEW s \in State
    PROVE  /\ End(w, s) \in Nat /\ s.sequence \in Nat /\ w.frames \in Seq(Record)
           /\ \A i \in DOMAIN w.frames : w.frames[i].sequence \in Nat /\ i \in Nat
           /\ w.frames = <<>> => End(w, s) = s.sequence
           /\ w.frames # <<>> => /\ Len(w.frames) \in DOMAIN w.frames /\ 1 \in DOMAIN w.frames
                                 /\ End(w, s) = w.frames[Len(w.frames)].sequence
<1>1. w.frames \in Seq(Record) /\ s.sequence \in Nat
  BY DEF File, State
<1>2. w.frames # <<>> => Len(w.frames) \in DOMAIN w.frames /\ 1 \in DOMAIN w.frames
  BY <1>1
<1>3. \A i \in DOMAIN w.frames : w.frames[i] \in Record /\ i \in Nat
  BY <1>1
<1>4. \A r \in Record : r.sequence \in Nat
  BY DEF Record
<1> QED
  BY <1>1, <1>2, <1>3, <1>4 DEF End

\* At the end of replay memory is at the end of the files.
LEMMA ReplayEnds ==
    ASSUME TypeOK, Bounds, Joined, phase = "replay", pos > Len(wal.frames)
    PROVE  mem.sequence = End(wal, snap)
<1>1. wal \in File /\ snap \in State /\ mem.sequence \in Nat
  BY Numbers DEF TypeOK
<1>2. /\ snap.sequence <= mem.sequence
      /\ \A i \in DOMAIN wal.frames : wal.frames[i].sequence <= mem.sequence
  BY AllReached DEF Bounds, FileBounds
<1>3. CASE wal.frames = <<>>
  <2>1. DOMAIN wal.frames = {}
    BY <1>3
  <2> QED
    BY <1>1, <1>3, <2>1, EndFacts DEF Joined
<1>4. CASE wal.frames # <<>>
  <2> DEFINE n == Len(wal.frames)
  <2>1. n \in DOMAIN wal.frames /\ 1 \in DOMAIN wal.frames /\ End(wal, snap) = wal.frames[n].sequence /\ n \in Nat
    BY <1>1, <1>4, EndFacts
  <2>2. \A i \in DOMAIN wal.frames : i \in Nat /\ i <= n /\ wal.frames[i].sequence \in Nat
    BY <1>1, EndFacts
  <2> HIDE DEF n
  <2>3. \A i \in DOMAIN wal.frames : wal.frames[i].sequence <= wal.frames[n].sequence
    BY <2>1, <2>2 DEF Joined, Consecutive
  <2>4. mem.sequence <= wal.frames[n].sequence
    BY <2>1, <2>3 DEF Joined
  <2> QED
    BY <1>1, <1>2, <2>1, <2>2, <2>4
<1> QED
  BY <1>3, <1>4

\* A new frame follows the last one.
LEMMA FrameJoins ==
    ASSUME NEW w \in File, NEW s \in State, NEW r \in Record, Consecutive(w), Adjoins(w, s),
           s.sequence <= End(w, s), ~w.torn, r.sequence = End(w, s) + 1
    PROVE  LET v == WriteFrame(w, r)
           IN  Consecutive(v) /\ Adjoins(v, s) /\ End(v, s) = r.sequence /\ ~v.torn
<1> DEFINE v == WriteFrame(w, r)
           n == Len(w.frames)
<1>1. w.frames \in Seq(Record) /\ s.sequence \in Nat /\ End(w, s) \in Nat /\ n \in Nat /\ r.sequence \in Nat
  <2>1. w.frames \in Seq(Record) /\ s.sequence \in Nat /\ End(w, s) \in Nat
    BY EndFacts
  <2> QED
    BY <2>1 DEF Record
<1>2. v.frames = Append(w.frames, r) /\ ~v.torn
  BY DEF WriteFrame
<1>3. /\ DOMAIN v.frames = 1..n + 1 /\ Len(v.frames) = n + 1 /\ v.frames # <<>>
      /\ v.frames[n + 1] = r /\ \A i \in 1..n : v.frames[i] = w.frames[i]
  BY <1>1, <1>2
<1>4. End(v, s) = r.sequence
  BY <1>3 DEF End
<1> HIDE DEF v, n
<1>5. CASE w.frames = <<>>
  <2>1. n = 0 /\ End(w, s) = s.sequence
    BY <1>5 DEF n, End
  <2>2. Consecutive(v)
    BY <1>1, <1>3, <2>1 DEF Consecutive
  <2>3. Adjoins(v, s)
    BY <1>1, <1>3, <2>1 DEF Adjoins
  <2> QED
    BY <1>2, <1>4, <2>2, <2>3 DEF v
<1>6. CASE w.frames # <<>>
  <2>1. n \in DOMAIN w.frames /\ 1 \in DOMAIN w.frames /\ End(w, s) = w.frames[n].sequence /\ DOMAIN w.frames = 1..n
    BY <1>1, <1>6, EndFacts DEF n
  <2>2. \A i \in 1..n : w.frames[i].sequence + 1 = w.frames[1].sequence + i /\ w.frames[i].sequence \in Nat
    BY <2>1, EndFacts DEF Consecutive
  <2>3. v.frames[1] = w.frames[1] /\ 1 \in 1..n /\ n \in 1..n
    BY <1>3, <2>1
  <2>4. /\ w.frames[n].sequence + 1 = w.frames[1].sequence + n
        /\ w.frames[1].sequence \in Nat /\ w.frames[n].sequence \in Nat
    BY <2>2, <2>3
  <2>5. r.sequence + 1 = w.frames[1].sequence + (n + 1)
    <3>1. PICK a \in Nat, b \in Nat : a = w.frames[1].sequence /\ b = w.frames[n].sequence
      BY <2>4
    <3>2. r.sequence = b + 1 /\ b + 1 = a + n
      BY <2>1, <2>4, <3>1
    <3>3. b + 1 + 1 = a + (n + 1)
      BY <1>1, <3>2
    <3> QED
      BY <3>1, <3>2, <3>3
  <2>6. ASSUME NEW i \in 1..n + 1 PROVE v.frames[i].sequence + 1 = v.frames[1].sequence + i
    <3>1. CASE i = n + 1
      BY <1>3, <2>3, <2>5, <3>1
    <3>2. CASE i \in 1..n
      BY <1>3, <2>2, <2>3, <3>2
    <3> QED
      BY <1>1, <3>1, <3>2
  <2>7. Adjoins(v, s)
    BY <1>6, <2>3 DEF Adjoins
  <2>8. Consecutive(v)
    BY <1>3, <2>6 DEF Consecutive
  <2> QED
    BY <1>2, <1>4, <2>7, <2>8 DEF v
<1> QED
  BY <1>5, <1>6

\* A process that crashes leaves the files as they are: WAL and snapshot stay joined, and
\* where they end never moves back.
LEMMA JoinedStep ==
    ASSUME "power" \notin Restarts
    PROVE  TypeOK /\ TypeOK' /\ Bounds /\ Joined /\ [StorageNext]_storageVars
           => Joined' /\ End(wal, snap) <= End(wal', snap')
<1> DEFINE Fine == Joined' /\ End(wal, snap) <= End(wal', snap')
<1> SUFFICES ASSUME TypeOK, TypeOK', Bounds, Joined, [StorageNext]_storageVars PROVE Fine
  OBVIOUS
<1> USE DEF Serving, Snapshotting
<1>0. wal \in File /\ snap \in State /\ End(wal, snap) \in Nat /\ mem.sequence \in Nat
  BY EndFacts, Numbers DEF TypeOK
<1>1. ASSUME wal'.frames = wal.frames, snap' = snap
      PROVE  /\ Consecutive(wal') /\ Adjoins(wal', snap') /\ snap'.sequence <= End(wal', snap')
             /\ End(wal', snap') = End(wal, snap) /\ End(wal, snap) <= End(wal', snap')
  BY <1>0, <1>1 DEF Joined, Consecutive, Adjoins, End
<1>2. ASSUME wal'.frames = wal.frames, snap' = snap, phase' \in Closed \cup {"load"} PROVE Fine
  BY <1>1, <1>2 DEF Joined, Closed
<1>3. ASSUME UNCHANGED <<wal, snap, mem>>, phase \in Serving, phase' \in Serving, poisoned => poisoned' PROVE Fine
  <2>1. mem'.sequence = End(wal', snap')
    BY <1>1, <1>3 DEF Joined
  <2> QED
    BY <1>1, <1>3, <2>1 DEF Joined
<1>4. CASE UNCHANGED storageVars
  <2>1. UNCHANGED <<wal, snap, mem, phase, pos, poisoned>>
    BY <1>4 DEF storageVars
  <2> QED
    BY <1>1, <2>1 DEF Joined
<1>5. CASE (\E h \in DedupeHorizons : openKeyed(h)) \/ openStorageFails \/ processCrash
  BY <1>2, <1>5 DEF openKeyed, openStorageFails, processCrash, files, Closed
<1>6. CASE loadKeyedSnapshot
  <2>1. DecodeState(snap).sequence = snap.sequence /\ UNCHANGED <<wal, snap>>
    BY <1>6 DEF DecodeState, loadKeyedSnapshot, files
  <2>2. CASE phase' = "replay"
    <3>1. mem'.sequence = snap'.sequence
      BY <1>6, <2>1, <2>2 DEF loadKeyedSnapshot
    <3> QED
      BY <1>1, <2>1, <2>2, <3>1 DEF Joined
  <2> QED
    BY <1>2, <1>6, <2>1, <2>2 DEF loadKeyedSnapshot, Closed
<1>7. CASE replayKeyedWAL
  <2>1. pos \in DOMAIN wal.frames /\ wal.frames[pos] \in Record /\ UNCHANGED <<wal, snap>> /\ pos \in Nat
    BY <1>7 DEF replayKeyedWAL, TypeOK, File, files
  <2>2. phase' \in Closed \cup {"replay"}
    BY <1>7 DEF replayKeyedWAL, ReplayVerdict, Closed
  <2>3. CASE phase' = "replay"
    <3>1. pos' = pos + 1
      BY <1>7, <2>3 DEF replayKeyedWAL
    <3>2. mem' = mem \/ mem'.sequence = wal.frames[pos].sequence
      BY <1>7, <2>1, DecodeRecordType DEF replayKeyedWAL, applyKeyed
    <3>3. \A i \in DOMAIN wal.frames : i < pos => i < pos + 1
      BY <1>0, <2>1, EndFacts
    <3>4. phase = "replay" /\ pos < pos + 1
      BY <1>7, <2>1 DEF replayKeyedWAL
    <3>5. mem'.sequence = snap'.sequence
          \/ \E i \in DOMAIN wal'.frames : i < pos' /\ wal'.frames[i].sequence = mem'.sequence
      BY <2>1, <3>1, <3>2, <3>3, <3>4 DEF Joined
    <3> QED
      BY <1>1, <2>1, <2>3, <3>5 DEF Joined
  <2> QED
    BY <1>2, <2>1, <2>2, <2>3
<1>8. CASE replayDone \/ truncateKeyedTail
  <2>1. mem.sequence = End(wal, snap) /\ UNCHANGED <<snap, mem>> /\ wal'.frames = wal.frames /\ ~wal'.torn
    BY <1>8, ReplayEnds DEF replayDone, truncateKeyedTail, CutTail, files
  <2>2. phase' \in {"open", "truncateSync"}
    BY <1>8 DEF replayDone, Opened, truncateKeyedTail
  <2> QED
    BY <1>1, <2>1, <2>2 DEF Joined
<1>9. CASE truncateKeyedTailSync
  <2>1. phase = "truncateSync" /\ phase' = "open" /\ UNCHANGED <<wal, snap, mem>>
    BY <1>9 DEF truncateKeyedTailSync, Opened
  <2> QED
    BY <1>1, <2>1 DEF Joined
<1>10. ASSUME NEW c \in CommandIDs, NEW applied \in BOOLEAN, NEW w \in Writes, stage(c, applied, w) PROVE Fine
  <2> DEFINE r == NewRecord(c, applied, w)
  <2>1. phase = "group" /\ phase' = "group" /\ ~poisoned /\ wal' = WriteFrame(wal, r) /\ snap' = snap
    BY <1>10 DEF stage, Executes
  <2>2. r \in Record /\ r.sequence = mem.sequence + 1 /\ mem'.sequence = r.sequence
    BY <1>10, NewRecordType DEF TypeOK, stage, NewRecord, applyKeyed
  <2> HIDE DEF r
  <2>3. mem.sequence = End(wal, snap) /\ ~wal.torn
    BY <2>1 DEF Joined
  <2>4. Consecutive(wal') /\ Adjoins(wal', snap) /\ End(wal', snap) = r.sequence /\ ~wal'.torn
    BY <1>0, <2>1, <2>2, <2>3, FrameJoins DEF Joined
  <2>5. snap.sequence <= r.sequence /\ End(wal, snap) <= r.sequence
    BY <1>0, <2>2, <2>3, EndFacts DEF Joined
  <2> QED
    BY <2>1, <2>2, <2>4, <2>5 DEF Joined
<1>11. ASSUME NEW c \in CommandIDs, NEW applied \in BOOLEAN, NEW w \in Writes, stageFails(c, applied, w) PROVE Fine
  <2>1. phase = "group" /\ phase' = "group" /\ poisoned' /\ wal'.frames = wal.frames /\ UNCHANGED <<snap, mem>>
    BY <1>11 DEF stageFails, Executes, Tear
  <2> QED
    BY <1>1, <2>1 DEF Joined
<1>12. CASE beginGroup \/ syncKeyed \/ syncKeyedFails \/ skipSync \/ reply \/ GetKeyed \/ SnapshotKeyed
  BY <1>3, <1>12 DEF beginGroup, syncKeyed, syncKeyedFails, skipSync, reply, GetKeyed, SnapshotKeyed, files
<1>13. ASSUME NEW c \in CommandIDs, retry(c) PROVE Fine
  BY <1>3, <1>13 DEF retry, files
<1>14. CASE Close \/ snapshotSync \/ snapshotFails
  BY <1>2, <1>3, <1>14 DEF Close, snapshotSync, snapshotFails, files, Closed
<1>15. CASE snapshotSyncDirectory
  BY <1>3, <1>15 DEF snapshotSyncDirectory
<1>16. CASE snapshotRename
  <2>1. /\ phase = "rename" /\ phase' = "dirSync" /\ snap' = mem /\ UNCHANGED <<wal, mem, poisoned>>
        /\ mem.sequence = End(wal, snap)
    BY <1>16 DEF snapshotRename, Joined
  <2>2. End(wal, mem) = End(wal, snap)
    BY <2>1 DEF End
  <2>3. Adjoins(wal, mem)
    BY <1>0, <2>1, EndFacts DEF Joined, Adjoins
  <2> QED
    BY <1>0, <2>1, <2>2, <2>3 DEF Joined
<1>17. CASE snapshotTruncate
  <2>1. /\ phase = "walTruncate" /\ phase' = "walSync" /\ wal' = EmptyFile /\ UNCHANGED <<mem, snap, poisoned>>
        /\ mem.sequence = End(wal, snap) /\ snap = mem
    BY <1>17 DEF snapshotTruncate, Joined, Bounds, MemBounds
  <2>2. Consecutive(EmptyFile) /\ Adjoins(EmptyFile, snap) /\ End(EmptyFile, snap) = snap.sequence /\ ~EmptyFile.torn
    BY DEF EmptyFile, Consecutive, Adjoins, End
  <2> QED
    BY <1>0, <2>1, <2>2 DEF Joined
<1> QED
  BY <1>4, <1>5, <1>6, <1>7, <1>8, <1>9, <1>10, <1>11, <1>12, <1>13, <1>14, <1>15, <1>16, <1>17 DEF StorageNext, powerLoss

\* What dedupe retains is never of a later decision than the last one.
LEMMA ApplyDated ==
    ASSUME NEW m \in State, NEW r, Decoded(r), NEW h, Dated(m), r.sequence >= m.sequence
    PROVE  Dated(applyKeyed(m, r, h))
<1> DEFINE ids == Append(m.dedupeIDs, r.id)
           retained == [m.dedupe EXCEPT ![r.id] = decision(r)]
           a == applyKeyed(m, r, h)
<1>1. /\ m.dedupe \in [CommandIDs -> Decision] /\ m.sequence \in Nat /\ r.sequence \in Nat
      /\ \A c \in CommandIDs : m.dedupe[c].sequence \in Nat
  BY DEF State, Decision, Decoded
<1>2. a.sequence = r.sequence /\ a.dedupe \in {retained, [retained EXCEPT ![Head(ids)] = NoDecision]}
  BY DEF applyKeyed
<1>3. \A c \in CommandIDs : retained[c].sequence <= r.sequence
  <2> TAKE c \in CommandIDs
  <2>1. retained[c] = decision(r) \/ retained[c] = m.dedupe[c]
    BY <1>1
  <2>2. decision(r).sequence = r.sequence
    BY DEF decision
  <2> QED
    BY <1>1, <2>1, <2>2 DEF Dated
<1>4. retained \in [CommandIDs -> Decision]
  BY <1>1 DEF decision, Decision, Decoded
<1>5. NoDecision.sequence = 0
  BY DEF NoDecision
<1> HIDE DEF retained, ids, a
<1>6. ASSUME NEW c \in CommandIDs PROVE a.dedupe[c].sequence <= a.sequence
  <2>1. a.dedupe[c] = retained[c] \/ a.dedupe[c] = NoDecision
    BY <1>2, <1>4
  <2> QED
    BY <1>1, <1>2, <1>3, <1>5, <2>1
<1> QED
  BY <1>6 DEF Dated, a

\* Nor is what a snapshot is read back as.
LEMMA DecodeDated ==
    ASSUME NEW s \in State, Dated(s)
    PROVE  Dated(DecodeState(s))
<1> DEFINE ids == {s.dedupeIDs[i] : i \in DOMAIN s.dedupeIDs}
           kept == DecodeMap(s.dedupe, ids)
<1>1. s.dedupeIDs \in Seq(CommandIDs) /\ s.sequence \in Nat
  BY DEF State
<1>2. ids \subseteq CommandIDs
  BY <1>1
<1> HIDE DEF ids
<1>3. ASSUME NEW t \in DOMAIN kept PROVE kept[t].sequence <= s.sequence
  <2>1. \E x \in ids : jsonText[x] = t
    BY <1>3 DEF DecodeMap
  <2>2. (CHOOSE x \in ids : jsonText[x] = t) \in ids
    BY <2>1
  <2>3. kept[t] = s.dedupe[CHOOSE x \in ids : jsonText[x] = t]
    BY <1>3 DEF DecodeMap
  <2> QED
    BY <1>2, <2>2, <2>3 DEF Dated
<1>4. NoDecision.sequence = 0
  BY DEF NoDecision
<1>5. /\ DecodeState(s).sequence = s.sequence
      /\ DecodeState(s).dedupe = [c \in CommandIDs |-> IF c \in DOMAIN kept THEN kept[c] ELSE NoDecision]
  BY DEF DecodeState, ids
<1> HIDE DEF kept
<1> QED
  BY <1>1, <1>3, <1>4, <1>5 DEF Dated

\* Reads and duplicate replies show what memory has, and memory is at the end of the files.
LEMMA ShownStep ==
    TypeOK /\ TypeOK' /\ Bounds /\ Joined /\ Shown /\ [StorageNext]_storageVars /\ ~powerLoss
      /\ End(wal, snap) <= End(wal', snap')
    => Shown'
<1> SUFFICES ASSUME TypeOK, TypeOK', Bounds, Joined, Shown, [StorageNext]_storageVars, ~powerLoss,
                    End(wal, snap) <= End(wal', snap')
             PROVE  Shown'
  OBVIOUS
<1> USE DEF Serving, Snapshotting, Recovering
<1>0. End(wal, snap) \in Nat /\ End(wal', snap') \in Nat /\ seen \in Nat /\ repeats \in Nat /\ mem.sequence \in Nat
  BY EndFacts, Numbers DEF TypeOK
<1>1. Dated(EmptyState)
  BY DEF Dated, EmptyState, NoDecision
\* Memory and what dedupe retains of it.
<1>2. Dated(mem') /\ Dated(snap')
  <2>1. CASE UNCHANGED snap /\ mem' \in {mem, EmptyState}
    BY <1>1, <2>1 DEF Shown
  <2>2. CASE loadKeyedSnapshot
    <3>1. UNCHANGED snap /\ mem' \in {mem, DecodeState(snap)}
      BY <2>2 DEF loadKeyedSnapshot, files
    <3> QED
      BY <3>1, DecodeDated DEF Shown, TypeOK
  <2>3. CASE replayKeyedWAL
    <3> DEFINE r == DecodeRecord(wal.frames[pos])
    <3>1. pos \in DOMAIN wal.frames /\ wal.frames[pos] \in Record
      BY <2>3 DEF replayKeyedWAL, TypeOK, File
    <3>2. Decoded(r) /\ r.sequence \in Nat
      BY <3>1, DecodeRecordType DEF Decoded
    <3>3. UNCHANGED snap /\ (mem' = mem \/ (r.sequence > mem.sequence /\ mem' = applyKeyed(mem, r, horizon)))
      BY <2>3 DEF replayKeyedWAL, files
    <3> HIDE DEF r
    <3>4. r.sequence > mem.sequence => r.sequence >= mem.sequence
      BY <1>0, <3>2
    <3> QED
      BY <3>2, <3>3, <3>4, ApplyDated DEF Shown, TypeOK
  <2>4. ASSUME NEW c \in CommandIDs, NEW applied \in BOOLEAN, NEW w \in Writes, stage(c, applied, w)
        PROVE  Dated(mem') /\ Dated(snap')
    <3> DEFINE r == NewRecord(c, applied, w)
    <3>1. r \in Record /\ r.sequence = mem.sequence + 1
      BY <2>4, NewRecordType DEF TypeOK, NewRecord
    <3>2. UNCHANGED snap /\ mem' = applyKeyed(mem, r, horizon)
      BY <2>4 DEF stage
    <3> HIDE DEF r
    <3>3. Decoded(r)
      BY <3>1, StorageAssumption DEF Decoded, Record, NoWrites
    <3>4. r.sequence >= mem.sequence
      BY <1>0, <3>1
    <3> QED
      BY <3>2, <3>3, <3>4, ApplyDated DEF Shown, TypeOK
  <2>5. CASE snapshotRename
    BY <2>5 DEF snapshotRename, Shown
  <2> QED
    BY Zenon, <2>1, <2>2, <2>3, <2>4, <2>5
       DEF StorageNext, storageVars, files, openKeyed, Discard, replayDone, truncateKeyedTail, truncateKeyedTailSync,
           openStorageFails, beginGroup, stageFails, retry, syncKeyed, syncKeyedFails, skipSync, reply, GetKeyed,
           SnapshotKeyed, Close, snapshotSyncDirectory, snapshotTruncate, snapshotSync, snapshotFails, processCrash
\* What has been shown.
<1>3. phase \in Serving => mem.sequence = End(wal, snap)
  BY DEF Joined
<1>4. seen' \in {seen, Higher(seen, repeats), Higher(seen, mem.sequence)}
      /\ (seen' # seen => phase \in Serving)
  BY Zenon DEF StorageNext, storageVars, history, openKeyed, loadKeyedSnapshot, replayKeyedWAL, replayDone,
         truncateKeyedTail, truncateKeyedTailSync, openStorageFails, beginGroup, stage, stageFails, retry, syncKeyed,
         syncKeyedFails, skipSync, reply, GetKeyed, SnapshotKeyed, Close, snapshotRename, snapshotSyncDirectory,
         snapshotTruncate, snapshotSync, snapshotFails, processCrash
<1>5. seen' <= End(wal', snap')
  BY <1>0, <1>3, <1>4 DEF Shown, Higher
\* What the running group repeats.
<1>6. (phase' \in Serving => repeats' <= mem'.sequence) /\ (phase' \in Recovering => repeats' = 0)
  <2>1. mem'.sequence \in Nat
    BY Numbers DEF TypeOK, State
  <2>2. ASSUME repeats' = 0 \/ phase' \in Closed
        PROVE  (phase' \in Serving => repeats' <= mem'.sequence) /\ (phase' \in Recovering => repeats' = 0)
    BY <2>1, <2>2 DEF Closed
  <2>3. ASSUME UNCHANGED <<repeats, mem>>, phase' \in Serving, phase \in Serving
        PROVE  (phase' \in Serving => repeats' <= mem'.sequence) /\ (phase' \in Recovering => repeats' = 0)
    BY <2>3 DEF Shown
  <2>4. CASE phase \in Recovering /\ UNCHANGED repeats
    BY <2>2, <2>4 DEF Shown
  <2>5. ASSUME NEW c \in CommandIDs, retry(c)
        PROVE  (phase' \in Serving => repeats' <= mem'.sequence) /\ (phase' \in Recovering => repeats' = 0)
    <3>1. phase = "group" /\ phase' = "group" /\ mem' = mem /\ repeats' \in {repeats, Higher(repeats, mem.dedupe[c].sequence)}
      BY <2>5 DEF retry
    <3>2. repeats <= mem.sequence /\ mem.dedupe[c].sequence <= mem.sequence
      BY <3>1 DEF Shown, Dated
    <3> QED
      BY <3>1, <3>2 DEF Higher
  <2>6. ASSUME NEW c \in CommandIDs, NEW applied \in BOOLEAN, NEW w \in Writes, stage(c, applied, w)
        PROVE  (phase' \in Serving => repeats' <= mem'.sequence) /\ (phase' \in Recovering => repeats' = 0)
    <3>1. phase = "group" /\ phase' = "group" /\ UNCHANGED repeats /\ mem'.sequence = mem.sequence + 1
      BY <2>6 DEF stage, Executes, NewRecord, applyKeyed
    <3> QED
      BY <1>0, <3>1 DEF Shown
  <2>7. CASE UNCHANGED storageVars
    BY <2>7 DEF storageVars, Shown
  <2>8. ASSUME NEW c \in CommandIDs, NEW applied \in BOOLEAN, NEW w \in Writes, stageFails(c, applied, w)
        PROVE  (phase' \in Serving => repeats' <= mem'.sequence) /\ (phase' \in Recovering => repeats' = 0)
    BY <2>3, <2>8 DEF stageFails, Executes
  <2>9. CASE loadKeyedSnapshot \/ replayKeyedWAL \/ replayDone \/ truncateKeyedTail \/ truncateKeyedTailSync
    BY <2>4, <2>9 DEF loadKeyedSnapshot, replayKeyedWAL, replayDone, truncateKeyedTail, truncateKeyedTailSync
  <2>10. CASE (\E h \in DedupeHorizons : openKeyed(h)) \/ openStorageFails \/ processCrash \/ reply
    BY <2>2, <2>10 DEF openKeyed, openStorageFails, processCrash, reply, Discard
  <2>11. CASE beginGroup \/ syncKeyed \/ syncKeyedFails \/ skipSync \/ GetKeyed \/ SnapshotKeyed
              \/ snapshotRename \/ snapshotSyncDirectory \/ snapshotTruncate
    BY <2>3, <2>11 DEF beginGroup, syncKeyed, syncKeyedFails, skipSync, GetKeyed, SnapshotKeyed,
                       snapshotRename, snapshotSyncDirectory, snapshotTruncate
  <2>12. CASE Close \/ snapshotSync \/ snapshotFails
    BY <2>2, <2>3, <2>12 DEF Close, snapshotSync, snapshotFails, Discard
  <2> QED
    BY <2>5, <2>6, <2>7, <2>8, <2>9, <2>10, <2>11, <2>12 DEF StorageNext
<1> QED
  BY <1>2, <1>5, <1>6 DEF Shown

\* Both, along every behaviour without power loss.
LEMMA JoinedInvariant ==
    ASSUME "power" \notin Restarts
    PROVE  StorageSpec => [](Joined /\ Shown)
<1> DEFINE Known == TypeOK /\ Bounds
           Inv == Joined /\ Shown
<1>1. StorageInit => Inv
  BY DEF StorageInit, Joined, Shown, End, Consecutive, Adjoins, Dated, EmptyFile, EmptyState, NoDecision, Serving,
         Snapshotting, Recovering
<1>2. Known /\ Known' /\ Inv /\ [StorageNext]_storageVars => Inv'
  BY JoinedStep, ShownStep DEF powerLoss
<1> HIDE DEF Known, Inv
<1>3. StorageSpec => []Known
  BY BoundsInvariant, PTL DEF Known
<1>4. StorageSpec => []Inv
  BY <1>1, <1>2, <1>3, PTL DEF StorageSpec
<1> QED
  BY <1>4 DEF Inv

\* As long as power stays on, what a read or a duplicate reply has shown is in every handle
\* that is opened later, whatever I/O fails and wherever the process crashes.
THEOREM NothingSeenIsLost ==
    ASSUME "power" \notin Restarts
    PROVE  StorageSpec => []SeenNotLost
<1>1. Joined /\ Shown => SeenNotLost
  BY DEF Joined, Shown, SeenNotLost
<1> QED
  BY <1>1, JoinedInvariant, PTL
=============================================================================
