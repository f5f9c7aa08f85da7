------------------------- MODULE KeyedPromise_proof -------------------------
(***************************************************************************)
(* KeyedStorage implements DecisionLog: what callers are promised follows  *)
(* from what the files go through, for every value of the constants; and   *)
(* the first handle on a directory shows nothing that can be lost. The     *)
(* same facts when another product shares the store's directory, and what  *)
(* recovery may then find.                                                 *)
(***************************************************************************)
EXTENDS KeyedRecovery_proof

\* A leaf is tried with Zenon and then with the SMT solver, unless it names a prover.
USE ZenonT(2), SMTT(20), ZenonT(30)

Decisions(l) == [i \in DOMAIN l |-> l[i].rec]
Horizon == CHOOSE h \in DedupeHorizons : TRUE

\* The decisions of a timeline are a sequence.
LEMMA DecisionsType ==
    ASSUME NEW l \in Seq(Entry)
    PROVE  /\ Decisions(l) \in Seq(Record) /\ Len(Decisions(l)) = Len(l)
           /\ DOMAIN Decisions(l) = 1..Len(l)
           /\ \A i \in 1..Len(l) : Decisions(l)[i] = l[i].rec
<1>1. \A i \in 1..Len(l) : l[i].rec \in Record
  <2>1. \A i \in 1..Len(l) : l[i] \in Entry
    OBVIOUS
  <2> QED
    BY <2>1 DEF Entry
<1>2. Len(l) \in Nat /\ DOMAIN l = 1..Len(l)
  OBVIOUS
<1>3. Decisions(l) \in [1..Len(l) -> Record] /\ \A i \in 1..Len(l) : Decisions(l)[i] = l[i].rec
  BY <1>1, <1>2 DEF Decisions
<1>4. Decisions(l) \in Seq(Record)
  BY <1>2, <1>3
<1> QED
  BY <1>2, <1>3, <1>4

\* Staging decides a command that is not retained.
LEMMA StageDecides ==
    ASSUME OneHorizon, TypeOK, TypeOK', Bounds, AtMostOnceInHorizon',
           NEW c \in CommandIDs, NEW applied \in BOOLEAN, NEW w \in Writes, stage(c, applied, w)
    PROVE  Promise!Decide
<1>1. log \in Seq(Entry) /\ log' \in Seq(Entry) /\ Len(log) \in Nat
  BY DEF TypeOK
<1>2. log' = Append(log, [rec |-> NewRecord(c, applied, w), after |-> mem'])
  BY <1>1 DEF stage
<1>3. Len(log') = Len(log) + 1 /\ \A i \in 1..Len(log) : log'[i] = log[i]
  BY <1>1, <1>2
<1>4. Horizon = horizon /\ horizon' = horizon /\ horizon \in Nat \ {0}
  BY StorageAssumption DEF OneHorizon, TypeOK, Horizon
<1>5. SubSeq(Decisions(log'), 1, Len(log)) = Decisions(log)
  <2>1. /\ Decisions(log') \in Seq(Record) /\ Len(Decisions(log')) = Len(log')
        /\ Decisions(log) \in Seq(Record) /\ Len(Decisions(log)) = Len(log)
        /\ \A i \in 1..Len(log) : Decisions(log')[i] = Decisions(log)[i]
    BY <1>1, <1>3, DecisionsType
  <2>2. /\ SubSeq(Decisions(log'), 1, Len(log)) \in Seq(Record)
        /\ Len(SubSeq(Decisions(log'), 1, Len(log))) = Len(log)
        /\ \A i \in 1..Len(log) : SubSeq(Decisions(log'), 1, Len(log))[i] = Decisions(log')[i]
    BY <1>1, <1>3, <2>1, PrefixProperties
  <2> QED
    BY <1>1, <2>1, <2>2
<1>6. ASSUME NEW j \in 1..Len(log), j > Len(log) - horizon PROVE log[j].rec.id # log'[Len(log) + 1].rec.id
  <2>1. j \in DOMAIN log' /\ Len(log) + 1 \in DOMAIN log' /\ j < Len(log) + 1 /\ log'[j] = log[j]
    BY <1>1, <1>3
  <2>2. ~(Len(log) + 1 - j > horizon)
    BY <1>1, <1>4, <1>6
  <2> QED
    BY <1>4, <2>1, <2>2 DEF AtMostOnceInHorizon
<1>7. Promise!Retained = {log[j].rec.id : j \in {i \in 1..Len(log) : i > Len(log) - horizon}}
  <2>1. DOMAIN Decisions(log) = 1..Len(log) /\ Len(Decisions(log)) = Len(log)
        /\ \A i \in 1..Len(log) : Decisions(log)[i] = log[i].rec
    BY <1>1, DecisionsType
  <2> QED
    BY Zenon, <1>4, <2>1 DEF Promise!Retained, Decisions, Horizon
<1>8. Decisions(log')[Len(log) + 1].id = log'[Len(log) + 1].rec.id
  BY <1>1, <1>3, DecisionsType
<1>9. Len(Decisions(log')) = Len(Decisions(log)) + 1 /\ Len(Decisions(log)) = Len(log)
  BY <1>1, <1>3, DecisionsType
<1>10. acked' = acked
  BY DEF stage
<1>11. Decisions(log')[Len(log) + 1].id \notin Promise!Retained
  BY <1>6, <1>7, <1>8
<1> QED
  BY Zenon, <1>5, <1>9, <1>10, <1>11 DEF Promise!Decide, Decisions

\* The end of recovery forgets only what no caller was told of.
LEMMA OpenForgets ==
    ASSUME TypeOK, TypeOK', Bounds, Bounds', AckedDurable', Opened, acked' = acked
    PROVE  Promise!Next
<1>1. log \in Seq(Entry) /\ log' \in Seq(Entry) /\ Len(log) \in Nat
  BY DEF TypeOK
<1>2. /\ Len(log') = mem.sequence /\ mem.sequence \in 0..Len(log)
      /\ \A i \in 1..mem.sequence : log'[i] = log[i]
  BY <1>1, OpenedLog, Numbers
<1>3. ASSUME NEW d \in acked PROVE \E i \in 1..mem.sequence : Decisions(log)[i] = d
  <2>1. wal' \in walMedia' /\ snap' \in snapMedia'
    BY DEF Bounds, FileBounds
  <2>2. d.sequence \in DOMAIN log' /\ log'[d.sequence].rec = d
    BY <2>1 DEF AckedDurable
  <2>3. d.sequence \in 1..mem.sequence /\ d.sequence \in 1..Len(log)
    BY <1>1, <1>2, <2>2
  <2>4. Decisions(log)[d.sequence] = d
    BY <1>1, <1>2, <2>2, <2>3, DecisionsType
  <2> QED
    BY <2>3, <2>4
<1>4. Decisions(log') = SubSeq(Decisions(log), 1, mem.sequence)
  <2>1. /\ Decisions(log') \in Seq(Record) /\ Len(Decisions(log')) = mem.sequence
        /\ Decisions(log) \in Seq(Record) /\ Len(Decisions(log)) = Len(log)
        /\ \A i \in 1..mem.sequence : Decisions(log')[i] = Decisions(log)[i]
    <3>1. mem.sequence \in Nat /\ \A i \in 1..mem.sequence : i \in 1..Len(log) /\ i \in 1..Len(log')
      BY <1>1, <1>2
    <3> QED
      BY <1>1, <1>2, <3>1, DecisionsType
  <2>2. /\ SubSeq(Decisions(log), 1, mem.sequence) \in Seq(Record)
        /\ Len(SubSeq(Decisions(log), 1, mem.sequence)) = mem.sequence
        /\ \A i \in 1..mem.sequence : SubSeq(Decisions(log), 1, mem.sequence)[i] = Decisions(log)[i]
    BY <1>1, <1>2, <2>1, PrefixProperties
  <2> QED
    BY <1>2, <2>1, <2>2
<1>5. mem.sequence \in 0..Len(Decisions(log))
  BY <1>1, <1>2, DecisionsType
<1>6. PICK n \in 0..Len(Decisions(log)) : n = mem.sequence
  BY <1>5
<1>7. Promise!Forget(n)
  BY Zenon, <1>3, <1>4, <1>6 DEF Promise!Forget, Decisions
<1> QED
  BY <1>7 DEF Promise!Next, Decisions

\* A group that was synced is confirmed: its decisions are in the timeline.
LEMMA ReplyConfirms ==
    ASSUME TypeOK, Staged, reply
    PROVE  Promise!Next
<1>1. log \in Seq(Entry) /\ log' = log /\ acked' = acked \cup pending
  BY DEF TypeOK, reply
<1>2. ASSUME NEW d \in acked' \ acked PROVE \E i \in DOMAIN Decisions(log) : Decisions(log)[i] = d
  <2>1. d.sequence \in DOMAIN log /\ log[d.sequence].rec = d
    BY <1>1, <1>2 DEF Staged, InLog
  <2> QED
    BY <1>1, <2>1 DEF Decisions
<1>3. Promise!Confirm
  BY <1>1, <1>2 DEF Promise!Confirm, Decisions
<1> QED
  BY <1>3 DEF Promise!Next

\* What the step by step argument uses.
PromiseInv == TypeOK /\ Bounds /\ AtMostOnceInHorizon /\ Staged /\ AckedDurable

\* A step of the store is a step of the abstract log or changes nothing in it.
LEMMA PromiseStep ==
    ASSUME OneHorizon
    PROVE  PromiseInv /\ PromiseInv' /\ [StorageNext]_storageVars => [Promise!Next]_(Promise!vars)
<1> SUFFICES ASSUME PromiseInv, PromiseInv', [StorageNext]_storageVars PROVE [Promise!Next]_(Promise!vars)
  OBVIOUS
<1> USE DEF PromiseInv
<1>1. CASE log' = log /\ acked' = acked
  BY <1>1 DEF Promise!vars
<1>2. CASE replayDone \/ truncateKeyedTailSync
  BY <1>2, OpenForgets DEF replayDone, truncateKeyedTailSync
<1>3. CASE reply
  BY <1>3, ReplyConfirms
<1>4. ASSUME NEW c \in CommandIDs, NEW applied \in BOOLEAN, NEW w \in Writes, stage(c, applied, w)
      PROVE  Promise!Next
  BY <1>4, StageDecides DEF Promise!Next
<1> QED
  BY ZenonT(40), <1>1, <1>2, <1>3, <1>4
     DEF StorageNext, storageVars, history, openKeyed, loadKeyedSnapshot, replayKeyedWAL, truncateKeyedTail,
         openStorageFails, beginGroup, stageFails, retry, syncKeyed, syncKeyedFails, skipSync, GetKeyed,
         SnapshotKeyed, Close, snapshotRename, snapshotSyncDirectory, snapshotTruncate, snapshotSync,
         snapshotFails, processCrash, powerLoss

\* The store implements the abstract log of decisions: SubmitKeyed's callers see one
\* growing history that keeps what was acknowledged and decides no retained command
\* again, through every crash, I/O error, snapshot and recovery.
THEOREM PromiseKept ==
    ASSUME PlainText, OneHorizon, DirectorySync
    PROVE  StorageSpec => ImplementsDecisionLog
<1>1. StorageInit => Promise!Init
  BY DEF StorageInit, Promise!Init
<1>2. PromiseInv /\ PromiseInv' /\ [StorageNext]_storageVars => [Promise!Next]_(Promise!vars)
  BY PromiseStep
<1>3. StorageSpec => []PromiseInv
  BY BoundsInvariant, OnceInvariant, DurableInvariant, PTL DEF PromiseInv
<1> QED
  BY <1>1, <1>2, <1>3, PTL DEF StorageSpec, ImplementsDecisionLog, Promise!Spec

-----------------------------------------------------------------------------
(* What the first handle shows *)

\* What m retains of ID c is one of the first n decisions of timeline l, and has that ID.
Origin(l, m, n, c) ==
    LET d == m.dedupe[c].sequence IN d # 0 => d \in 1..n /\ l[d].rec.id = c
Origins == \A n \in DOMAIN log, c \in CommandIDs : Origin(log, log[n].after, n, c)

\* It is so too in a timeline that goes on differently, or further.
LEMMA OriginKept ==
    ASSUME NEW l, NEW k, NEW m, NEW n \in Nat, NEW p \in Nat, n <= p, NEW c,
           \A i \in 1..n : l[i] = k[i], Origin(l, m, n, c)
    PROVE  Origin(k, m, p, c)
BY DEF Origin

\* applyKeyed enters the new decision under its own ID and changes no other entry but the
\* one that expires.
LEMMA OriginsStep ==
    TypeOK /\ TypeOK' /\ Bounds /\ SafeFiles /\ CopiesExact /\ Origins /\ [StorageNext]_storageVars => Origins'
<1> SUFFICES ASSUME TypeOK, TypeOK', Bounds, SafeFiles, CopiesExact, Origins, [StorageNext]_storageVars
             PROVE  Origins'
  OBVIOUS
<1>1. log \in Seq(Entry) /\ Len(log) \in Nat /\ DOMAIN log = 1..Len(log)
  BY DEF TypeOK
<1>2. CASE UNCHANGED log
  BY <1>2 DEF Origins
<1>3. CASE replayDone \/ truncateKeyedTailSync
  <2>1. /\ Len(log') = mem.sequence /\ \A i \in 1..mem.sequence : log'[i] = log[i]
        /\ mem.sequence <= Len(log) /\ mem.sequence \in Nat /\ log' \in Seq(Entry)
    BY <1>3, OpenedLog, Numbers DEF replayDone, truncateKeyedTailSync, Bounds, MemBounds
  <2>2. DOMAIN log' = 1..mem.sequence
    BY <2>1
  <2>3. ASSUME NEW n \in DOMAIN log', NEW c \in CommandIDs PROVE Origin(log', log'[n].after, n, c)
    <3>1. n \in DOMAIN log /\ n \in Nat /\ log'[n] = log[n] /\ \A i \in 1..n : log[i] = log'[i]
      BY <1>1, <2>1, <2>2
    <3>2. Origin(log, log[n].after, n, c)
      BY <3>1 DEF Origins
    <3> QED
      BY <3>1, <3>2, OriginKept
  <2> QED
    BY <2>3 DEF Origins
<1>4. ASSUME NEW c \in CommandIDs, NEW applied \in BOOLEAN, NEW w \in Writes, stage(c, applied, w)
      PROVE  Origins'
  <2> DEFINE r == NewRecord(c, applied, w)
             N == Len(log) + 1
  <2>1. r \in Record /\ r.sequence = N /\ log' = Append(log, [rec |-> r, after |-> mem'])
    BY <1>4, StageEffect
  <2>2. mem' = applyKeyed(mem, r, horizon) /\ mem.sequence = Len(log)
    BY <1>4 DEF stage, Executes, Bounds, MemBounds, Serving
  <2> HIDE DEF r
  <2>3. mem \in State /\ horizon \in Nat \ {0} /\ mem = StateIn(log, Len(log))
    BY <2>2, StorageAssumption DEF TypeOK, CopiesExact
  <2>4. /\ DOMAIN log' = 1..N /\ log'[N].rec = r /\ log'[N].after = mem'
        /\ \A n \in 1..Len(log) : log[n] = log'[n]
    BY <1>1, <2>1
  <2>5. ASSUME NEW d \in CommandIDs PROVE Origin(log', mem', N, d)
    <3>1. CASE mem'.dedupe[d] = NoDecision
      BY <3>1 DEF Origin, NoDecision
    <3>2. CASE d = r.id /\ mem'.dedupe[d] = decision(r)
      <4>1. mem'.dedupe[d].sequence = N /\ N \in 1..N
        BY <1>1, <2>1, <3>2 DEF decision
      <4> QED
        BY <2>4, <3>2, <4>1 DEF Origin
    <3>3. CASE mem'.dedupe[d] = mem.dedupe[d]
      <4>1. Origin(log, mem, Len(log), d)
        <5>1. CASE Len(log) = 0
          BY <2>3, <5>1 DEF Origin, StateIn, EmptyState, NoDecision
        <5>2. CASE Len(log) # 0
          BY <1>1, <2>3, <5>2 DEF Origins, StateIn
        <5> QED
          BY <5>1, <5>2
      <4>2. Origin(log', mem, N, d)
        BY <1>1, <2>4, <4>1, OriginKept
      <4> QED
        BY <3>3, <4>2 DEF Origin
    <3> DEFINE ids == Append(mem.dedupeIDs, r.id)
               expires == Len(ids) > horizon /\ d = ids[1]
    <3>4. mem'.dedupe[d] = IF expires THEN NoDecision ELSE IF d = r.id THEN decision(r) ELSE mem.dedupe[d]
      BY <2>1, <2>2, <2>3, ApplyKeyedDedupe
    <3> HIDE DEF expires
    <3> QED
      BY Zenon, <3>1, <3>2, <3>3, <3>4
  <2>6. ASSUME NEW n \in DOMAIN log', NEW d \in CommandIDs PROVE Origin(log', log'[n].after, n, d)
    <3>1. CASE n = N
      BY <2>4, <2>5, <3>1
    <3>2. CASE n \in 1..Len(log)
      <4>1. Origin(log, log[n].after, n, d) /\ n \in Nat /\ \A i \in 1..n : log[i] = log'[i]
        BY <1>1, <2>4, <3>2 DEF Origins
      <4>2. Origin(log', log[n].after, n, d)
        BY <4>1, OriginKept
      <4> QED
        BY <2>4, <3>2, <4>2
    <3>3. n = N \/ n \in 1..Len(log)
      BY <1>1, <2>4
    <3> QED
      BY <3>1, <3>2, <3>3
  <2> QED
    BY <2>6 DEF Origins
<1> QED
  BY ZenonT(40), <1>2, <1>3, <1>4
     DEF StorageNext, storageVars, history, openKeyed, loadKeyedSnapshot, replayKeyedWAL, truncateKeyedTail,
         openStorageFails, beginGroup, stageFails, retry, syncKeyed, syncKeyedFails, skipSync, reply, GetKeyed,
         SnapshotKeyed, Close, snapshotRename, snapshotSyncDirectory, snapshotTruncate, snapshotSync,
         snapshotFails, processCrash, powerLoss

\* An ID that memory retains is the ID of a decision of the timeline.
LEMMA RetainedOrigin ==
    ASSUME TypeOK, CopiesExact, Origins, mem.sequence <= Len(log), NEW c \in CommandIDs,
           mem.dedupe[c].sequence # 0
    PROVE  mem.dedupe[c].sequence \in 1..Len(log) /\ log[mem.dedupe[c].sequence].rec.id = c
<1>1. log \in Seq(Entry) /\ DOMAIN log = 1..Len(log) /\ mem.sequence \in Nat /\ Len(log) \in Nat
  BY Numbers DEF TypeOK
<1>2. mem.sequence \in DOMAIN log /\ mem = log[mem.sequence].after
  BY <1>1 DEF CopiesExact, StateIn, EmptyState, NoDecision
<1>3. mem.dedupe[c].sequence \in 1..mem.sequence /\ log[mem.dedupe[c].sequence].rec.id = c
  BY <1>2 DEF Origins, Origin
<1> QED
  BY <1>1, <1>3

\* No step takes a decision of the timeline off a medium.
LEMMA DiskStep ==
    ASSUME TypeOK, Bounds, SafeFiles, [StorageNext]_storageVars, NEW n \in Nat, n <= Len(log), OnDisk(n)
    PROVE  OnDisk(n)'
<1> DEFINE On(s, w) == n <= s.sequence \/ \E i \in DOMAIN w.frames : w.frames[i].sequence = n
<1>1. wal \in walMedia /\ snap \in snapMedia /\ \A s \in snapMedia, w \in walMedia : On(s, w)
  BY DEF OnDisk, Bounds, FileBounds
<1>2. ASSUME \A s \in snapMedia', w \in walMedia' : On(s, w) PROVE OnDisk(n)'
  BY <1>2 DEF OnDisk
<1>3. \A s, v, w : v.frames = w.frames /\ On(s, v) => On(s, w)
  OBVIOUS
<1>4. CASE UNCHANGED files
  BY <1>4 DEF files, OnDisk
<1>5. CASE truncateKeyedTailSync \/ syncKeyed \/ snapshotSync \/ powerLoss \/ snapshotSyncDirectory
  <2>1. walMedia' \subseteq walMedia /\ snapMedia' \subseteq snapMedia
    BY <1>1, <1>5 DEF truncateKeyedTailSync, syncKeyed, snapshotSync, powerLoss, snapshotSyncDirectory
  <2> HIDE DEF On
  <2> QED
    BY <1>1, <1>2, <2>1
<1>6. CASE truncateKeyedTail
  <2>1. snapMedia' = snapMedia /\ walMedia' = walMedia \cup {CutTail(wal)} /\ CutTail(wal).frames = wal.frames
    BY <1>6 DEF truncateKeyedTail, CutTail
  <2> HIDE DEF On
  <2> QED
    BY <1>1, <1>2, <1>3, <2>1
<1>7. ASSUME NEW c \in CommandIDs, NEW applied \in BOOLEAN, NEW w \in Writes, stage(c, applied, w)
      PROVE  OnDisk(n)'
  <2>1. /\ walMedia' = walMedia \cup {wal', Tear(wal)} /\ snapMedia' = snapMedia
        /\ Tear(wal).frames = wal.frames
    BY <1>7 DEF stage, Tear
  <2>2. \A d : InFile(d, wal) => InFile(d, wal')
    BY ZenonT(40), <1>7, StageEffect
  <2>3. \A s : On(s, wal) => On(s, wal')
    BY <2>2 DEF InFile
  <2> HIDE DEF On
  <2> QED
    BY <1>1, <1>2, <1>3, <2>1, <2>3
<1>8. ASSUME NEW c \in CommandIDs, NEW applied \in BOOLEAN, NEW w \in Writes, stageFails(c, applied, w)
      PROVE  OnDisk(n)'
  <2>1. snapMedia' = snapMedia /\ walMedia' = walMedia \cup {wal'} /\ wal'.frames = wal.frames
    BY <1>8 DEF stageFails, Tear
  <2> HIDE DEF On
  <2> QED
    BY <1>1, <1>2, <1>3, <2>1
<1>9. CASE snapshotRename \/ snapshotTruncate
  <2>1. mem.sequence = Len(log)
    BY <1>9 DEF snapshotRename, snapshotTruncate, Bounds, MemBounds, Serving, Snapshotting
  <2>2. CASE snapshotRename
    BY <1>1, <1>2, <2>1, <2>2 DEF snapshotRename
  <2>3. CASE snapshotTruncate
    <3>1. snapMedia = {mem} /\ snapMedia' = snapMedia
      BY <2>3 DEF snapshotTruncate, SafeFiles, Bounds, MemBounds
    <3> QED
      BY <1>2, <2>1, <3>1
  <2> QED
    BY <1>9, <2>2, <2>3
<1> QED
  BY Zenon, <1>4, <1>5, <1>6, <1>7, <1>8, <1>9
     DEF StorageNext, storageVars, files, openKeyed, loadKeyedSnapshot, replayKeyedWAL, replayDone,
         openStorageFails, beginGroup, retry, syncKeyedFails, skipSync, reply, GetKeyed,
         SnapshotKeyed, Close, snapshotFails, processCrash

\* The first handle finds an empty directory.  While it is usable, each decision is on every
\* medium or waits for the Sync of its group, and what it has shown was on every medium.
FirstHandle ==
    /\ opens = 0 => phase \in Closed /\ log = <<>> /\ seen = 0
    /\ opens = 1 /\ phase \in Recovering => log = <<>>
    /\ phase \notin {"group", "reply"} => repeats = 0
    /\ opens = 1 => /\ seen \in 0..Len(log) /\ OnDisk(seen)
                    /\ repeats \in 0..Len(log) /\ OnDisk(repeats)
    /\ opens = 1 /\ phase \in Serving /\ ~poisoned =>
           \A n \in 1..Len(log) : OnDisk(n) \/ \E r \in pending : r.sequence = n

\* Decision 0, the empty state, needs no medium.
LEMMA EmptyOnDisk ==
    ASSUME TypeOK'
    PROVE  OnDisk(0)'
  BY DEF TypeOK, State, OnDisk

\* A group is visible only after its Sync, and nothing visible leaves the media.
LEMMA FirstHandleStep ==
    /\ TypeOK /\ TypeOK' /\ Bounds /\ SafeFiles /\ Staged /\ PoisonedIdle /\ CopiesExact /\ Origins /\ FirstHandle
    /\ [StorageNext]_storageVars
    => FirstHandle'
<1> SUFFICES ASSUME TypeOK, TypeOK', Bounds, SafeFiles, Staged, PoisonedIdle, CopiesExact, Origins, FirstHandle,
                    [StorageNext]_storageVars
             PROVE  FirstHandle'
  OBVIOUS
<1>1. /\ opens \in Nat /\ Len(log) \in Nat /\ log \in Seq(Entry) /\ mem.sequence \in Nat
  BY Numbers
<1>2. OnDisk(0)'
  BY EmptyOnDisk
<1>3. \A n \in Nat : n <= Len(log) /\ OnDisk(n) => OnDisk(n)'
  BY DiskStep
\* The value of a variable and the variable name the same decision.
<1> SUFFICES ASSUME \A n \in Nat : OnDisk(n)' /\ n = seen' => OnDisk(seen)',
                    \A n \in Nat : OnDisk(n)' /\ n = repeats' => OnDisk(repeats)'
             PROVE  FirstHandle'
  BY DEF OnDisk
<1>4. CASE UNCHANGED storageVars
  BY <1>4 DEF storageVars, FirstHandle, OnDisk
<1>5. ASSUME NEW h \in DedupeHorizons, openKeyed(h) PROVE FirstHandle'
  <2>1. opens' = opens + 1 /\ phase' = "load" /\ repeats' = 0 /\ UNCHANGED <<log, seen>>
    BY <1>5 DEF openKeyed, Discard, history
  <2>2. opens' = 1 => log' = <<>> /\ seen' = 0
    BY <1>1, <2>1 DEF FirstHandle
  <2> QED
    BY <1>1, <1>2, <2>1, <2>2 DEF FirstHandle, Closed, Serving, Snapshotting
\* A step that makes no decision and shows nothing, and after which the handle, if still
\* usable, waits for what it waited for.
<1>6. ASSUME UNCHANGED <<opens, log, seen>>, repeats' = repeats \/ repeats' = 0,
             opens # 0, phase' \in Recovering => phase \in Recovering,
             phase' \notin {"group", "reply"} => repeats' = 0,
             phase' \in Serving /\ ~poisoned' =>
                 phase \in Serving /\ ~poisoned /\ \A r \in pending : r \in pending' \/ OnDisk(r.sequence)'
      PROVE  FirstHandle'
  <2>1. ASSUME opens' = 1
        PROVE  seen' \in 0..Len(log') /\ OnDisk(seen)' /\ repeats' \in 0..Len(log') /\ OnDisk(repeats)'
    <3>1. opens = 1 /\ seen \in 0..Len(log) /\ repeats \in 0..Len(log)
      BY <1>6, <2>1 DEF FirstHandle
    <3>2. OnDisk(seen) /\ OnDisk(repeats)
      BY <3>1 DEF FirstHandle
    <3>3. \A n \in Nat : n \in {0, seen, repeats} => OnDisk(n)'
      BY <1>1, <1>2, <1>3, <3>1, <3>2
    <3>4. OnDisk(seen)' /\ OnDisk(repeats)'
      BY <1>1, <1>6, <3>1, <3>3
    <3> QED
      BY <1>1, <1>6, <3>1, <3>4
  <2>2. ASSUME opens' = 1, phase' \in Serving, ~poisoned', NEW n \in 1..Len(log')
        PROVE  OnDisk(n)' \/ \E r \in pending' : r.sequence = n
    <3>1. OnDisk(n) \/ \E r \in pending : r.sequence = n
      BY <1>6, <2>2 DEF FirstHandle
    <3> QED
      BY <1>1, <1>3, <1>6, <2>2, <3>1
  <2>3. opens' = 1 /\ phase' \in Recovering => log' = <<>>
    BY <1>6 DEF FirstHandle
  <2> QED
    BY <1>6, <2>1, <2>2, <2>3 DEF FirstHandle
<1>7. phase \notin Closed => opens # 0
  BY DEF FirstHandle
<1>8. CASE loadKeyedSnapshot \/ replayKeyedWAL \/ truncateKeyedTail \/ openStorageFails
  <2>1. phase \in Recovering /\ phase' \in {"capacity", "corrupt", "replay", "truncateSync", "down"}
    BY ZenonT(40), <1>8 DEF loadKeyedSnapshot, replayKeyedWAL, ReplayVerdict, truncateKeyedTail, openStorageFails, Recovering
  <2>2. UNCHANGED <<opens, log, seen>> /\ (repeats' = repeats \/ repeats' = 0)
    BY ZenonT(40), <1>8 DEF loadKeyedSnapshot, replayKeyedWAL, truncateKeyedTail, openStorageFails, Discard, history
  <2>3. phase \notin Closed /\ phase \notin {"group", "reply"} /\ phase' \notin Serving
    BY <2>1 DEF Recovering, Closed, Serving, Snapshotting
  <2>4. repeats = 0
    BY <2>3 DEF FirstHandle
  <2> QED
    BY <1>6, <1>7, <2>1, <2>2, <2>3, <2>4
<1>9. CASE replayDone \/ truncateKeyedTailSync
  <2>1. /\ phase \in Recovering /\ phase \notin Closed \cup {"group", "reply"}
        /\ phase' = "open" /\ UNCHANGED <<opens, seen, repeats>>
    BY <1>9 DEF replayDone, truncateKeyedTailSync, Opened, Recovering, Closed
  <2>2. Len(log') = mem.sequence /\ mem.sequence <= Len(log)
    BY <1>9, OpenedLog DEF replayDone, truncateKeyedTailSync, Bounds, MemBounds
  <2>3. opens # 0 /\ repeats' = 0
    BY <2>1 DEF FirstHandle
  <2>4. ASSUME opens = 1 PROVE Len(log') = 0 /\ seen' = 0
    BY <1>1, <2>1, <2>2, <2>4 DEF FirstHandle
  <2> QED
    BY <1>1, <1>2, <2>1, <2>3, <2>4 DEF FirstHandle, Recovering, OnDisk
<1>10. CASE \/ SnapshotKeyed \/ snapshotRename \/ snapshotSyncDirectory \/ snapshotTruncate \/ snapshotSync
            \/ snapshotFails \/ Close \/ beginGroup
  <2>1. phase \in {"open"} \cup Snapshotting /\ phase' \in {"down", "open", "group"} \cup Snapshotting
    BY <1>10 DEF SnapshotKeyed, snapshotRename, snapshotSyncDirectory, snapshotTruncate, snapshotSync,
                 snapshotFails, Close, beginGroup, Snapshotting
  <2>2. UNCHANGED <<opens, log, seen>> /\ (repeats' = repeats \/ repeats' = 0)
    BY <1>10 DEF SnapshotKeyed, snapshotRename, snapshotSyncDirectory, snapshotTruncate, snapshotSync,
                 snapshotFails, Close, beginGroup, Discard, history
  <2>3. phase' \in Serving /\ ~poisoned' => ~poisoned
    BY <1>10 DEF SnapshotKeyed, snapshotRename, snapshotSyncDirectory, snapshotTruncate, snapshotSync,
                 snapshotFails, Close, beginGroup, Serving, Snapshotting
  <2>4. phase \notin Closed \cup {"group", "reply"} /\ phase \in Serving /\ phase' \notin Recovering
    BY <2>1 DEF Closed, Serving, Snapshotting, Recovering
  <2>5. repeats = 0 /\ pending = {}
    BY <2>4 DEF FirstHandle, Staged
  <2> QED
    BY <1>6, <1>7, <2>2, <2>3, <2>4, <2>5
<1>11. CASE processCrash \/ powerLoss
  <2>1. phase' = "down" /\ repeats' = 0 /\ UNCHANGED <<opens, log, seen>>
    BY <1>11 DEF processCrash, powerLoss, Discard, history
  <2>2. CASE opens = 0
    BY <2>1, <2>2 DEF FirstHandle, Closed
  <2>3. CASE opens # 0
    BY <1>6, <2>1, <2>3 DEF Recovering, Serving, Snapshotting
  <2> QED
    BY <2>2, <2>3
<1>12. ASSUME NEW c \in CommandIDs, NEW applied \in BOOLEAN, NEW w \in Writes, stage(c, applied, w)
       PROVE  FirstHandle'
  <2> DEFINE r == NewRecord(c, applied, w)
  <2>1. r.sequence = Len(log) + 1 /\ log' = Append(log, [rec |-> r, after |-> mem'])
    BY <1>12, StageEffect
  <2>2. /\ phase = "group" /\ phase' = "group" /\ ~poisoned /\ ~poisoned' /\ pending' = pending \cup {r}
        /\ UNCHANGED <<opens, seen, repeats>>
    BY <1>12 DEF stage, Executes
  <2> HIDE DEF r
  <2>3. Len(log') = Len(log) + 1
    BY <1>1, <2>1
  <2>4. opens # 0
    BY <1>7, <2>2 DEF Closed
  <2>5. ASSUME opens = 1
        PROVE  seen' \in 0..Len(log') /\ OnDisk(seen)' /\ repeats' \in 0..Len(log') /\ OnDisk(repeats)'
    <3>1. seen \in 0..Len(log) /\ repeats \in 0..Len(log) /\ OnDisk(seen) /\ OnDisk(repeats)
      BY <2>5 DEF FirstHandle
    <3>2. \A n \in Nat : n = seen \/ n = repeats => OnDisk(n)'
      BY <1>1, <1>3, <3>1
    <3> QED
      BY <1>1, <2>2, <2>3, <3>1, <3>2 DEF OnDisk
  <2>6. ASSUME opens = 1, NEW n \in 1..Len(log') PROVE OnDisk(n)' \/ \E q \in pending' : q.sequence = n
    <3>1. CASE n = Len(log) + 1
      BY <2>1, <2>2, <3>1
    <3>2. CASE n \in 1..Len(log)
      <4>1. OnDisk(n) \/ \E q \in pending : q.sequence = n
        BY <2>2, <2>6, <3>2 DEF FirstHandle, Serving
      <4> QED
        BY <1>1, <1>3, <2>2, <3>2, <4>1
    <3> QED
      BY <1>1, <2>3, <3>1, <3>2
  <2> QED
    BY <2>2, <2>4, <2>5, <2>6 DEF FirstHandle, Recovering
<1>13. ASSUME NEW c \in CommandIDs, NEW applied \in BOOLEAN, NEW w \in Writes, stageFails(c, applied, w)
       PROVE  FirstHandle'
  <2>1. /\ phase = "group" /\ phase' = "group" /\ poisoned' /\ UNCHANGED <<opens, log, seen, repeats>>
    BY <1>13 DEF stageFails, Executes, history
  <2> QED
    BY <1>6, <1>7, <2>1 DEF Closed, Recovering
<1>14. CASE syncKeyed \/ syncKeyedFails \/ skipSync
  <2>1. phase = "group" /\ phase' = "reply" /\ UNCHANGED <<opens, log, seen, repeats>>
    BY <1>14 DEF syncKeyed, syncKeyedFails, skipSync, history
  <2>2. ~poisoned' => ~poisoned /\ pending' = pending
    BY <1>14 DEF syncKeyed, syncKeyedFails, skipSync
  <2> QED
    BY <1>6, <1>7, <2>1, <2>2 DEF Closed, Recovering, Serving
<1>15. ASSUME NEW c \in CommandIDs, retry(c) PROVE FirstHandle'
  <2> DEFINE prior == mem.dedupe[c].sequence
  <2>1. /\ phase = "group" /\ phase' = phase /\ ~poisoned /\ prior # 0
        /\ repeats' = IF \E r \in pending : r.sequence = prior THEN repeats ELSE Higher(repeats, prior)
        /\ UNCHANGED <<opens, log, seen, poisoned, pending>>
    BY <1>15 DEF retry, history
  <2>2. prior \in 1..Len(log)
    BY <2>1, RetainedOrigin DEF Bounds, MemBounds
  <2>3. opens # 0
    BY <1>7, <2>1 DEF Closed
  <2>4. CASE repeats' = repeats
    BY <1>6, <2>1, <2>3, <2>4 DEF Recovering, Serving
  <2> HIDE DEF prior
  <2>5. CASE repeats' = prior /\ ~\E r \in pending : r.sequence = prior
    <3>1. opens = 1 => OnDisk(prior)
      BY <2>1, <2>2, <2>5 DEF FirstHandle, Serving
    <3>2. ASSUME opens = 1 PROVE OnDisk(prior) /\ OnDisk(seen) /\ seen \in 0..Len(log)
      BY <3>1, <3>2 DEF FirstHandle
    <3>3. opens = 1 => OnDisk(repeats)' /\ OnDisk(seen)'
      BY <1>1, <1>3, <2>1, <2>2, <2>5, <3>2
    <3>4. \A n \in 1..Len(log) : OnDisk(n) => OnDisk(n)'
      BY <1>1, <1>3
    <3> QED
      BY <1>1, <2>1, <2>2, <2>3, <2>5, <3>3, <3>4 DEF FirstHandle, Recovering
  <2> QED
    BY <2>1, <2>4, <2>5 DEF Higher
<1>16. CASE reply
  <2>1. /\ phase = "reply" /\ phase' = "open" /\ seen' = Higher(seen, repeats) /\ pending' = {} /\ repeats' = 0
        /\ UNCHANGED <<opens, log, poisoned, files>>
    BY <1>16 DEF reply
  <2>2. opens # 0
    BY <1>7, <2>1 DEF Closed
  <2>3. ASSUME opens = 1 PROVE seen' \in 0..Len(log') /\ OnDisk(seen)'
    <3>1. seen' \in {seen, repeats} /\ seen \in 0..Len(log) /\ repeats \in 0..Len(log)
          /\ OnDisk(seen) /\ OnDisk(repeats)
      BY <2>1, <2>3 DEF FirstHandle, Higher
    <3> QED
      BY <1>1, <1>3, <2>1, <3>1
  <2>4. ASSUME opens = 1, ~poisoned, NEW n \in 1..Len(log) PROVE OnDisk(n)'
    <3>1. OnDisk(n) \/ \E r \in pending : r.sequence = n
      BY <2>1, <2>4 DEF FirstHandle, Serving
    <3>2. \A r \in pending, w \in walMedia : InFile(r, w)
      BY <2>1 DEF Staged
    <3>3. OnDisk(n)
      BY <3>1, <3>2 DEF OnDisk, InFile
    <3> QED
      BY <1>1, <1>3, <3>3
  <2> QED
    BY <1>1, <1>2, <2>1, <2>2, <2>3, <2>4 DEF FirstHandle, Recovering, OnDisk
<1>17. CASE GetKeyed
  <2>1. /\ phase = "open" /\ phase' = "open" /\ ~poisoned /\ seen' = Higher(seen, mem.sequence)
        /\ UNCHANGED <<opens, log, poisoned, pending, repeats, files>>
    BY <1>17 DEF GetKeyed
  <2>2. opens # 0 /\ repeats = 0 /\ pending = {} /\ mem.sequence = Len(log)
    BY <1>7, <2>1 DEF Closed, FirstHandle, Staged, Bounds, MemBounds, Serving
  <2>3. ASSUME opens = 1, NEW n \in 0..Len(log) PROVE OnDisk(n) /\ OnDisk(n)'
    <3>1. CASE n = 0
      BY <1>1, <1>2, <2>1, <3>1, Numbers DEF OnDisk
    <3>2. CASE n \in 1..Len(log)
      BY <1>1, <1>3, <2>1, <2>2, <2>3, <3>2 DEF FirstHandle, Serving
    <3> QED
      BY <1>1, <3>1, <3>2
  <2>4. opens = 1 => seen' \in 0..Len(log)
    BY <1>1, <2>1, <2>2 DEF FirstHandle, Higher
  <2>5. opens = 1 => OnDisk(seen)' /\ OnDisk(repeats)'
    BY <1>1, <2>1, <2>2, <2>3, <2>4 DEF OnDisk
  <2> QED
    BY <1>1, <2>1, <2>2, <2>3, <2>4, <2>5 DEF FirstHandle, Recovering
<1> QED
  BY Zenon, <1>4, <1>5, <1>8, <1>9, <1>10, <1>11, <1>12, <1>13, <1>14, <1>15, <1>16, <1>17 DEF StorageNext

\* What memory retains and what the first handle has shown, along every behaviour.
THEOREM FirstHandleInvariant ==
    ASSUME PlainText, OneHorizon, DirectorySync
    PROVE  StorageSpec => [](Origins /\ FirstHandle)
<1> DEFINE Known == TypeOK /\ Bounds /\ SafeFiles /\ Staged /\ PoisonedIdle /\ CopiesExact
           Inv == Origins /\ FirstHandle
<1>1. StorageInit => Inv
  BY DEF StorageInit, Origins, FirstHandle, Closed, Recovering, Serving, Snapshotting
<1>2. Known /\ Known' /\ Inv /\ [StorageNext]_storageVars => Inv'
  BY OriginsStep, FirstHandleStep
<1> HIDE DEF Known, Inv
<1>3. StorageSpec => []Known
  BY BoundsInvariant, DurableInvariant, PoisonedIdleInvariant, ExactInvariant, PTL DEF Known
<1>4. StorageSpec => []Inv
  BY <1>1, <1>2, <1>3, PTL DEF StorageSpec
<1> QED
  BY <1>4 DEF Inv

\* The first handle on a directory never shows, in a read or in a duplicate reply, a decision
\* that power loss can take back.
THEOREM FirstReadsDurable ==
    ASSUME PlainText, OneHorizon, DirectorySync
    PROVE  StorageSpec => []FirstHandleReadsDurable
<1>1. FirstHandle => FirstHandleReadsDurable
  BY DEF FirstHandle, FirstHandleReadsDurable
<1> QED
  BY <1>1, FirstHandleInvariant, PTL

-----------------------------------------------------------------------------
(* The store under another product *)

\* What a product above may do to the store beside its own steps: the directory Sync of another
\* file, Close after a refused catalog, and poisoning after a structural call that failed.
SharedSync ==
    /\ snapMedia' = {snap}
    /\ UNCHANGED <<mem, horizon, phase, poisoned, closing, pos, pending, repeats, wal, walMedia, snap, opens, history>>
Abandoned ==
    /\ phase = "open" /\ phase' = "down" /\ Discard
    /\ UNCHANGED <<horizon, files, opens, history>>
Poisoned ==
    /\ phase = "open" /\ poisoned' = TRUE
    /\ UNCHANGED <<mem, horizon, phase, closing, pos, pending, repeats, files, opens, history>>
SharedStoreStep == [StorageNext]_storageVars \/ SharedSync \/ Abandoned \/ Poisoned

\* Types and bounds of the store.
LEMMA StoreBoundsStep == TypeOK /\ Bounds /\ SharedStoreStep => (TypeOK /\ Bounds)'
<1> SUFFICES ASSUME TypeOK, Bounds, SharedStoreStep PROVE (TypeOK /\ Bounds)'
  OBVIOUS
<1>1. CASE [StorageNext]_storageVars
  BY <1>1, TypeStep, FileBoundsStep, MemBoundsStep DEF Bounds
<1>2. CASE SharedSync
  BY <1>2 DEF SharedSync, TypeOK, Bounds, FileBounds, MemBounds, Reached, history
<1>3. CASE Abandoned
  <2>1. TypeOK'
    BY <1>3, DiscardType DEF Abandoned, TypeOK, Phases, Closed, files, history
  <2>2. FileBounds'
    BY <1>3 DEF Abandoned, Bounds, FileBounds, Reached, files, history
  <2> QED
    BY <1>3, <2>1, <2>2, DownBounds DEF Abandoned, Bounds, Closed
<1>4. CASE Poisoned
  BY <1>4 DEF Poisoned, TypeOK, Bounds, FileBounds, MemBounds, Reached, files, history
<1> QED
  BY <1>1, <1>2, <1>3, <1>4 DEF SharedStoreStep

\* What an acknowledgement rests on.
LEMMA StoreDurableStep ==
    ASSUME DirectorySync
    PROVE  TypeOK /\ Bounds /\ SafeFiles /\ Staged /\ AckedDurable /\ PoisonedIdle /\ SharedStoreStep
           => (SafeFiles /\ Staged /\ AckedDurable /\ PoisonedIdle)'
<1> SUFFICES ASSUME TypeOK, Bounds, SafeFiles, Staged, AckedDurable, PoisonedIdle, SharedStoreStep
             PROVE  (SafeFiles /\ Staged /\ AckedDurable /\ PoisonedIdle)'
  OBVIOUS
<1>1. CASE [StorageNext]_storageVars
  BY <1>1, StoreBoundsStep, SafeFilesStep, StagedStep, AckedStep, PoisonedIdleStep
<1>2. CASE SharedSync
  <2>1. snap \in snapMedia /\ snapMedia' = {snap}
    BY <1>2 DEF SharedSync, Bounds, FileBounds
  <2> QED
    BY <1>2, <2>1 DEF SharedSync, SafeFiles, Staged, InLog, InFile, AckedDurable, PoisonedIdle, history
<1>3. CASE Abandoned \/ Poisoned
  BY <1>3 DEF Abandoned, Poisoned, Discard, SafeFiles, Staged, InLog, InFile, AckedDurable, PoisonedIdle, Serving, Snapshotting, files, history
<1> QED
  BY <1>1, <1>2, <1>3 DEF SharedStoreStep

\* The timeline, its copies, and what dedupe retains of it.
LEMMA StoreExactStep ==
    ASSUME PlainText, OneHorizon
    PROVE  TypeOK /\ Bounds /\ TimelineExact /\ CopiesExact /\ Windows /\ AtMostOnceInHorizon /\ SharedStoreStep
           => (TimelineExact /\ CopiesExact /\ Windows /\ AtMostOnceInHorizon)'
<1> SUFFICES ASSUME TypeOK, Bounds, TimelineExact, CopiesExact, Windows, AtMostOnceInHorizon, SharedStoreStep
             PROVE  (TimelineExact /\ CopiesExact /\ Windows /\ AtMostOnceInHorizon)'
  OBVIOUS
<1>1. CASE [StorageNext]_storageVars
  BY <1>1, StoreBoundsStep, TimelineStep, CopiesStep, OnceStep
<1>2. CASE SharedSync \/ Abandoned \/ Poisoned
  <2>1. UNCHANGED <<log, horizon, walMedia>>
    BY <1>2 DEF SharedSync, Abandoned, Poisoned, files, history
  <2>2. (TimelineExact /\ Windows /\ AtMostOnceInHorizon)'
    BY <2>1 DEF TimelineExact, Windows, AtMostOnceInHorizon
  <2>3. mem' = mem \/ mem' = EmptyState
    BY <1>2 DEF SharedSync, Abandoned, Poisoned, Discard
  <2>4. snapMedia' \subseteq snapMedia
    BY <1>2 DEF SharedSync, Abandoned, Poisoned, files, Bounds, FileBounds
  <2>5. CopiesExact'
    BY <2>1, <2>3, <2>4 DEF CopiesExact, StateIn, EmptyState
  <2> QED
    BY <2>2, <2>5
<1> QED
  BY <1>1, <1>2 DEF SharedStoreStep

-----------------------------------------------------------------------------
(* What recovery may find *)

\* Recovery from snapshot s and WAL w ends at decision n.
Tops(s, w, n) ==
    /\ n = s.sequence \/ \E i \in DOMAIN w.frames : n = w.frames[i].sequence
    /\ s.sequence <= n /\ \A i \in DOMAIN w.frames : w.frames[i].sequence <= n
Recovers(n) == \E s \in snapMedia, w \in walMedia : Tops(s, w, n)

\* The states that some later open may find, whatever happens to the process and the power.
Recoverable == {StateIn(log, n) : n \in {m \in 0..Len(log) : Recovers(m)}}

\* The last decision in memory is in the files.
Sourced ==
    phase \in Serving \cup {"replay", "truncateSync"} =>
        mem.sequence = snap.sequence \/ \E i \in DOMAIN wal.frames : wal.frames[i].sequence = mem.sequence

\* A frame is written before its decision is applied, and the WAL is cut only when the
\* snapshot has what memory has.
LEMMA SourcedStep == TypeOK /\ Bounds /\ SafeFiles /\ Sourced /\ SharedStoreStep => Sourced'
<1> SUFFICES ASSUME TypeOK, Bounds, SafeFiles, Sourced, SharedStoreStep PROVE Sourced'
  OBVIOUS
<1> USE DEF Serving, Snapshotting
<1>1. ASSUME UNCHANGED <<mem, snap>>, wal'.frames = wal.frames, phase \in Serving \cup {"replay", "truncateSync"}
      PROVE  Sourced'
  BY <1>1 DEF Sourced
<1>2. ASSUME phase' \in Closed \cup {"load"} PROVE Sourced'
  BY <1>2 DEF Sourced, Closed
<1>3. CASE SharedSync \/ Abandoned \/ Poisoned
  BY <1>1, <1>2, <1>3 DEF SharedSync, Abandoned, Poisoned, Closed, files, Sourced
<1>4. CASE UNCHANGED storageVars
  BY <1>4 DEF storageVars, Sourced
<1>5. CASE \/ \E h \in DedupeHorizons : openKeyed(h)
           \/ openStorageFails \/ processCrash \/ powerLoss
  BY <1>2, <1>5 DEF openKeyed, openStorageFails, processCrash, powerLoss, Closed
<1>6. CASE loadKeyedSnapshot
  <2>1. CASE phase' = "replay"
    <3>1. mem' = DecodeState(snap) /\ snap' = snap
      BY <1>6, <2>1 DEF loadKeyedSnapshot, files
    <3>2. DecodeState(snap).sequence = snap.sequence
      BY DEF DecodeState
    <3> QED
      BY <3>1, <3>2 DEF Sourced
  <2> QED
    BY <1>2, <1>6, <2>1 DEF loadKeyedSnapshot, Closed
<1>7. CASE replayKeyedWAL
  <2> DEFINE r == DecodeRecord(wal.frames[pos])
  <2>1. pos \in DOMAIN wal.frames /\ wal.frames[pos] \in Record
    BY <1>7 DEF replayKeyedWAL, TypeOK, File
  <2>2. r.sequence = wal.frames[pos].sequence
    BY <2>1, DecodeRecordType
  <2>3. applyKeyed(mem, r, horizon).sequence = r.sequence
    BY DEF applyKeyed
  <2> HIDE DEF r
  <2>4. mem' \in {mem, applyKeyed(mem, r, horizon)} /\ wal' = wal /\ snap' = snap /\ phase = "replay"
    BY <1>7 DEF replayKeyedWAL, files, r
  <2> QED
    BY <1>1, <2>1, <2>2, <2>3, <2>4 DEF Sourced
<1>8. CASE replayDone \/ truncateKeyedTail \/ truncateKeyedTailSync
  BY <1>1, <1>8 DEF replayDone, truncateKeyedTail, truncateKeyedTailSync, CutTail, files
<1>9. ASSUME NEW c \in CommandIDs, NEW applied \in BOOLEAN, NEW w \in Writes, stage(c, applied, w) PROVE Sourced'
  <2> DEFINE r == NewRecord(c, applied, w)
  <2>1. InFile(r, wal')
    BY <1>9, StageEffect
  <2>2. mem'.sequence = r.sequence
    BY <1>9 DEF stage, applyKeyed
  <2> QED
    BY <2>1, <2>2 DEF InFile, Sourced
<1>10. ASSUME NEW c \in CommandIDs, NEW applied \in BOOLEAN, NEW w \in Writes, stageFails(c, applied, w) PROVE Sourced'
  BY <1>1, <1>10 DEF stageFails, Executes, Tear
<1>11. ASSUME NEW c \in CommandIDs, retry(c) PROVE Sourced'
  BY <1>1, <1>11 DEF retry, files
<1>12. CASE beginGroup \/ syncKeyed \/ syncKeyedFails \/ skipSync \/ reply \/ GetKeyed \/ SnapshotKeyed
  BY <1>1, <1>12 DEF beginGroup, syncKeyed, syncKeyedFails, skipSync, reply, GetKeyed, SnapshotKeyed, files
<1>13. CASE snapshotRename
  BY <1>13 DEF snapshotRename, Sourced
<1>14. CASE snapshotTruncate
  BY <1>14 DEF snapshotTruncate, Sourced, Bounds, MemBounds
<1>15. CASE Close \/ snapshotSyncDirectory \/ snapshotSync \/ snapshotFails
  BY <1>1, <1>2, <1>15 DEF Close, snapshotSyncDirectory, snapshotSync, snapshotFails, files, Closed
<1> QED
  BY <1>3, <1>4, <1>5, <1>6, <1>7, <1>8, <1>9, <1>10, <1>11, <1>12, <1>13, <1>14, <1>15
     DEF SharedStoreStep, StorageNext

\* What a handle serves is among the recoverable states.
LEMMA MemRecoverable ==
    ASSUME TypeOK, Bounds, CopiesExact, Sourced, phase \in Serving
    PROVE  mem \in Recoverable
<1>1. mem.sequence = Len(log) /\ mem.sequence \in Nat
  BY Numbers DEF Bounds, MemBounds
<1>2. snap \in snapMedia /\ wal \in walMedia /\ snap.sequence <= mem.sequence
      /\ \A i \in DOMAIN wal.frames : wal.frames[i].sequence <= mem.sequence
  BY <1>1 DEF Bounds, FileBounds
<1>3. Tops(snap, wal, mem.sequence)
  BY <1>2 DEF Tops, Sourced
<1> QED
  BY <1>1, <1>2, <1>3 DEF Recovers, Recoverable, CopiesExact

\* Changes of the files after which recovery ends where it could end before.
LEMMA SameTops ==
    ASSUME \A s \in snapMedia' : s \in snapMedia,
           \A w \in walMedia' : \E v \in walMedia : v.frames = w.frames,
           NEW n, Recovers(n)'
    PROVE  Recovers(n)
<1>1. PICK s \in snapMedia', w \in walMedia' : Tops(s, w, n)
  BY DEF Recovers, Tops
<1>2. PICK v \in walMedia : v.frames = w.frames
  OBVIOUS
<1>3. Tops(s, v, n)
  BY <1>1, <1>2 DEF Tops
<1> QED
  BY <1>3 DEF Recovers

\* A step adds at most the decision that memory ends with.
LEMMA RecoversStep ==
    ASSUME TypeOK, Bounds, SafeFiles, TypeOK', Bounds', SharedStoreStep, NEW n \in Nat, Recovers(n)'
    PROVE  Recovers(n) \/ (n = mem'.sequence /\ phase \in Serving /\ (mem' = mem \/ phase' = "group"))
<1> USE DEF Serving, Snapshotting
<1>0. wal \in walMedia /\ snap \in snapMedia
  BY DEF Bounds, FileBounds
<1>1. ASSUME snapMedia' \subseteq snapMedia, walMedia' \subseteq walMedia PROVE Recovers(n)
  BY <1>1, SameTops
<1>2. ASSUME UNCHANGED files PROVE Recovers(n)
  BY <1>1, <1>2 DEF files
<1>3. CASE SharedSync \/ Abandoned \/ Poisoned \/ UNCHANGED storageVars
  BY <1>0, <1>1, <1>2, <1>3 DEF SharedSync, Abandoned, Poisoned, storageVars, files
<1>4. CASE \/ \E h \in DedupeHorizons : openKeyed(h)
           \/ loadKeyedSnapshot \/ replayKeyedWAL \/ replayDone \/ openStorageFails
           \/ beginGroup \/ (\E c \in CommandIDs : retry(c)) \/ syncKeyedFails \/ skipSync \/ reply \/ GetKeyed
           \/ SnapshotKeyed \/ Close \/ snapshotFails \/ processCrash
  BY <1>2, <1>4 DEF openKeyed, loadKeyedSnapshot, replayKeyedWAL, replayDone, openStorageFails, beginGroup, retry,
                    syncKeyedFails, skipSync, reply, GetKeyed, SnapshotKeyed, Close, snapshotFails, processCrash
<1>5. CASE truncateKeyedTailSync \/ syncKeyed \/ snapshotSync \/ snapshotSyncDirectory \/ powerLoss
  BY <1>0, <1>1, <1>5 DEF truncateKeyedTailSync, syncKeyed, snapshotSync, snapshotSyncDirectory, powerLoss
<1>6. CASE truncateKeyedTail
  BY <1>0, <1>6, SameTops DEF truncateKeyedTail, CutTail
<1>7. CASE \E c \in CommandIDs, applied \in BOOLEAN, w \in Writes : stageFails(c, applied, w)
  BY <1>0, <1>7, SameTops DEF stageFails, Tear
<1>8. PICK s \in snapMedia', f \in walMedia' : Tops(s, f, n)
  BY DEF Recovers, Tops
<1>9. /\ s.sequence \in Nat /\ s.sequence <= Len(log') /\ Len(log') \in Nat /\ mem'.sequence \in Nat
      /\ \A i \in DOMAIN f.frames : f.frames[i].sequence \in Nat /\ f.frames[i].sequence <= Len(log')
  <2>1. s \in State /\ f \in File /\ mem' \in State /\ log' \in Seq(Entry) /\ snap' \in State
    BY DEF TypeOK
  <2>2. s.sequence <= snap'.sequence /\ snap'.sequence <= Len(log')
        /\ \A i \in DOMAIN f.frames : f.frames[i].sequence <= Len(log')
    BY DEF Bounds, FileBounds
  <2>3. \A i \in DOMAIN f.frames : f.frames[i] \in Record
    BY <2>1 DEF File
  <2> QED
    BY <2>1, <2>2, <2>3 DEF State, Record
<1>10. n <= Len(log')
  BY <1>8, <1>9 DEF Tops
<1>11. CASE \E c \in CommandIDs, applied \in BOOLEAN, w \in Writes : stage(c, applied, w)
  <2>1. PICK c \in CommandIDs, applied \in BOOLEAN, w \in Writes : stage(c, applied, w)
    BY <1>11
  <2> DEFINE r == NewRecord(c, applied, w)
  <2>2. /\ r \in Record /\ r.sequence = Len(log) + 1 /\ wal'.frames = Append(wal.frames, r)
        /\ InFile(r, wal') /\ log' = Append(log, [rec |-> r, after |-> mem'])
    BY <2>1, StageEffect
  <2>3. /\ walMedia' = walMedia \cup {wal', Tear(wal)} /\ snapMedia' = snapMedia /\ mem'.sequence = r.sequence
        /\ phase = "group" /\ phase' = "group"
    BY <2>1 DEF stage, Executes, applyKeyed
  <2> HIDE DEF r
  <2>4. CASE f \in walMedia
    BY <1>8, <2>3, <2>4 DEF Recovers
  <2>5. CASE f = Tear(wal)
    <3>1. Tops(s, wal, n)
      BY <1>8, <2>5 DEF Tops, Tear
    <3> QED
      BY <1>0, <2>3, <3>1 DEF Recovers
  <2>6. CASE f = wal'
    <3>1. r.sequence <= n
      BY <1>8, <2>2, <2>6 DEF Tops, InFile
    <3>2. Len(log') = Len(log) + 1
      BY <2>2 DEF TypeOK
    <3> QED
      BY <1>9, <1>10, <2>2, <2>3, <3>1, <3>2
  <2> QED
    BY <2>3, <2>4, <2>5, <2>6
<1>12. CASE snapshotRename
  <2>1. /\ mem.sequence = Len(log) /\ log' = log /\ mem' = mem /\ walMedia' = walMedia
        /\ snapMedia' = snapMedia \cup {mem} /\ phase = "rename"
    BY <1>12 DEF snapshotRename, history, Bounds, MemBounds
  <2>2. CASE s \in snapMedia
    BY <1>8, <2>1, <2>2 DEF Recovers
  <2>3. CASE s = mem
    <3>1. mem.sequence <= n
      BY <1>8, <2>3 DEF Tops
    <3> QED
      BY <1>9, <1>10, <2>1, <3>1
  <2> QED
    BY <2>1, <2>2, <2>3
<1>13. CASE snapshotTruncate
  <2>1. /\ mem' = mem /\ snap = mem /\ snapMedia' = {snap} /\ phase = "walTruncate" /\ walMedia' = walMedia \cup {EmptyFile}
    BY <1>13 DEF snapshotTruncate, SafeFiles, Bounds, MemBounds
  <2>2. CASE f \in walMedia
    BY <1>0, <1>8, <2>1, <2>2 DEF Recovers
  <2>3. CASE f = EmptyFile
    <3>1. n = s.sequence
      BY <1>8, <2>3 DEF Tops, EmptyFile
    <3> QED
      BY <2>1, <3>1
  <2> QED
    BY <2>1, <2>2, <2>3
<1> QED
  BY <1>3, <1>4, <1>5, <1>6, <1>7, <1>11, <1>12, <1>13 DEF SharedStoreStep, StorageNext

\* The timeline is cut or continued, never rewritten.
LEMMA TimelineKept ==
    ASSUME TypeOK, TypeOK', Bounds, SharedStoreStep, NEW n \in Nat, n <= Len(log), n <= Len(log')
    PROVE  StateIn(log', n) = StateIn(log, n)
<1>1. log' = log \/ Opened \/ \E e \in Entry : log' = Append(log, e)
  <2>1. ASSUME NEW c \in CommandIDs, NEW applied \in BOOLEAN, NEW w \in Writes, stage(c, applied, w)
        PROVE  \E e \in Entry : log' = Append(log, e)
    <3>1. [rec |-> NewRecord(c, applied, w), after |-> mem'] \in Entry
      BY <2>1, NewRecordType DEF TypeOK, Entry
    <3> QED
      BY <2>1, <3>1 DEF stage
  <2> QED
    BY <2>1 DEF SharedStoreStep, SharedSync, Abandoned, Poisoned, StorageNext, storageVars, history, openKeyed, loadKeyedSnapshot,
       replayKeyedWAL, replayDone, truncateKeyedTail, truncateKeyedTailSync, openStorageFails, beginGroup, stageFails, retry,
       syncKeyed, syncKeyedFails, skipSync, reply, GetKeyed, SnapshotKeyed, Close, snapshotRename, snapshotSyncDirectory,
       snapshotTruncate, snapshotSync, snapshotFails, processCrash, powerLoss
<1>2. log \in Seq(Entry) /\ log' \in Seq(Entry)
  BY DEF TypeOK
<1>3. \A i \in 1..n : log'[i] = log[i]
  <2>1. CASE Opened
    BY <1>2, <2>1, OpenedLog, Numbers
  <2>2. CASE \E e \in Entry : log' = Append(log, e)
    BY <1>2, <2>2
  <2> QED
    BY <1>1, <2>1, <2>2
<1> QED
  BY <1>2, <1>3, SameStates

\* Only a commit group adds a recoverable state, the one its decision led to.
LEMMA RecoverableStep ==
    ASSUME TypeOK, Bounds, SafeFiles, CopiesExact, Sourced, TypeOK', Bounds', CopiesExact', SharedStoreStep, NEW m \in Recoverable'
    PROVE  m \in Recoverable \/ (m = mem' /\ phase' = "group" /\ mem' # mem)
<1>1. PICK n \in 0..Len(log') : Recovers(n)' /\ m = StateIn(log', n)
  BY DEF Recoverable
<1>2. n \in Nat /\ n <= Len(log') /\ Len(log) \in Nat
  BY <1>1 DEF TypeOK
<1>3. CASE Recovers(n)
  <2>1. n <= Len(log)
    <3>1. PICK s \in snapMedia, w \in walMedia : Tops(s, w, n)
      BY <1>3 DEF Recovers
    <3>2. s.sequence <= snap.sequence /\ snap.sequence <= Len(log) /\ s.sequence \in Nat /\ snap.sequence \in Nat
          /\ \A i \in DOMAIN w.frames : w.frames[i].sequence <= Len(log)
      BY Numbers DEF Bounds, FileBounds
    <3> QED
      BY <1>2, <3>1, <3>2 DEF Tops
  <2> QED
    BY <1>1, <1>2, <1>3, <2>1, TimelineKept DEF Recoverable
<1>4. CASE n = mem'.sequence /\ phase \in Serving /\ (mem' = mem \/ phase' = "group")
  <2>1. m = mem'
    BY <1>1, <1>4 DEF CopiesExact
  <2>2. mem \in Recoverable
    BY <1>4, MemRecoverable
  <2> QED
    BY <1>4, <2>1, <2>2
<1> QED
  BY <1>1, <1>2, <1>3, <1>4, RecoversStep
=============================================================================
