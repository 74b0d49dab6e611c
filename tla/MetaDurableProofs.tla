-------------------------- MODULE MetaDurableProofs --------------------------
(***************************************************************************)
(* The durability of the metadata server's operations, for any number of   *)
(* handlers, adds and deletes, with rollovers, cleanups and crashes.  The  *)
(* invariant KeepInv says of the files, of the memory and of a running     *)
(* snapshot that each, with what has still to be applied to it, holds the  *)
(* last operation on every file; there is one lemma per step.  From it     *)
(* follow Durable, ReplayAgrees and that the server implements MetaStore.  *)
(*                                                                         *)
(* The theorems assume of a behaviour that it meets none of the flaws that *)
(* lose operations in the code: each hypothesis names the line it is about. *)
(***************************************************************************)
EXTENDS MetaServerProofs

\* No two handlers are at the same file: they change the map without a lock,
\* in the order in which they happen to come to it (file_store.go:33).
NoRace ==
  \A g, h \in Handlers :
    g # h /\ job[g] # NoJob /\ job[h] # NoJob => job[g].name # job[h].name

\* A delete that replay logs once more is not numbered above an add that it has
\* still to replay (file_store.go:133), and the log takes it.
RelogsInOrder ==
  /\ pc[Restorer] # "failed"
  /\ mode = "restoring" /\ pc[Restorer] = "idle" =>
       \A d \in Data : DeleteToReplay(d) =>
         \A q \in ToSet(Tail(replay)) : q.data.name = d.name => q.data.del

\* The first crash finds a snapshot: without one restore reads no log at all
\* (snapshot.go:75).
SnapshotInTime == mode = "down" /\ snapshot = NoSnapshot => acked = {}

\* The header is the number of a flushed record, and the handlers that append
\* up to it have changed the map (snapshot.go:26).
InStep ==
  /\ snap.seq \in acked \cup {0}
  /\ \A h \in Handlers : pc[h] \in {"waiting", "released"} => lsn[h] > snap.seq

\* A copy is written in such a moment, and no longer attempt that failed has
\* left cells behind it (snapshot.go:31).
CleanCopy == Snapshot => InStep /\ tmp' \in Copies(files)

Orderly == NoRace /\ RelogsInOrder /\ SnapshotInTime

----------------------------------------------------------------------------
\* The operations in the log, those that are flushed, and of these the ones
\* that are not yet in the map.
All == hist \cup again

Ops == {e \in All : e.lsn \in acked}

OpOf(c) == [lsn |-> lsn[c], data |-> job[c]]

Flying == {OpOf(c) : c \in {g \in Callers : pc[g] = "released"}}

\* A file that a map has was once added.
OnlyOps(F) == \A x \in Names : F[x] # None => \E e \in Ops : e.data.name = x

\* A caller of the log is at the last operation on its file; handlers are at
\* work when the server is up, restore when it is not.
AtWork ==
  /\ mode # "up" => \A h \in Handlers : pc[h] = "idle" /\ job[h] = NoJob
  /\ mode # "restoring" => replay = << >> /\ pc[Restorer] = "idle"
  /\ \A c \in Callers : pc[c] \in {"waiting", "released"} =>
       /\ OpOf(c) \in (IF c = Restorer THEN again ELSE hist)
       /\ LastIn(All, OpOf(c))
  /\ \A c \in Callers : pc[c] = "released" => lsn[c] \in acked
  /\ pc[Restorer] # "idle" =>
       /\ Head(replay).data.name = job[Restorer].name
       /\ job[Restorer].del
       /\ \A q \in ToSet(replay) : q.data.name = job[Restorer].name => q.data.del

\* What replay logs again is a delete of a file whose last operation was one.
Repeats ==
  \A k \in again :
    /\ k.data.del
    /\ \A e \in hist :
         LastIn({f \in hist : f.lsn < k.lsn}, e) /\ e.lsn < k.lsn /\ e.data.name = k.data.name
           => e.data.del

\* The buffer is what the callers wait for, and an operation is there or flushed.
HistInv ==
  /\ ToSet(buf) = {OpOf(c) : c \in {g \in Callers : pc[g] = "waiting"}}
  /\ \A e, f \in All : e.lsn = f.lsn => e = f
  /\ All = Ops \cup ToSet(buf)
  /\ \A e \in All : e.lsn # 0

\* No header is above what is flushed, nor the log's above the file's.
Headers ==
  /\ snapshot \in acked \cup {0, NoSnapshot}
  /\ lastSnapshot <= snapshot \/ lastSnapshot = 0
  /\ snap.pc = "writing" => snapshot <= snap.seq /\ (copied => snap.seq \in acked \cup {0})
  /\ snap.pc = "renamed" => snapshot = snap.seq
  /\ snap.pc # "idle" => mode = "up"

\* A snapshot file of header H can be restored and holds the operations up to H.
Copied(cells, H) ==
  /\ Covers(Ops, H, RestoreFrom(cells))
  /\ OnlyOps(RestoreFrom(cells))
  /\ Whole(cells)

CopyKeeps ==
  /\ Copied(snapFile, snapshot)
  /\ snap.pc = "writing" /\ copied => Copied(tmp, snap.seq)

\* The files that restore reads hold those above it.
DiskKeeps == DiskInv(segs, Ops, snapshot)

\* The map, with what has still to be applied to it, loses no operation.
MemoryKeeps ==
  Running => /\ Ordered(replay) /\ ToSet(replay) \subseteq Ops
             /\ Restores(Ops, Flying \cup ToSet(replay), files)
             /\ OnlyOps(files)

KeepInv ==
  /\ AtWork
  /\ Repeats
  /\ HistInv
  /\ Headers
  /\ CopyKeeps
  /\ DiskKeeps
  /\ MemoryKeeps

----------------------------------------------------------------------------
\* The types that the steps below need.
Typed ==
  /\ All \subseteq Entry /\ Ops \subseteq Entry /\ Ops \subseteq All
  /\ IsDirectory(segs) /\ OrderedDirectory(segs)
  /\ DOMAIN segs \subseteq Nat \ {0}
  /\ buf \in Seq(Entry) /\ replay \in Seq(Entry)
  /\ files \in FileMap
  /\ tmp \in Seq(Cell) /\ snapFile \in Seq(Cell)
  /\ RestoreFrom(tmp) \in FileMap /\ RestoreFrom(snapFile) \in FileMap
  /\ snapshot \in Int /\ lastSnapshot \in Nat
  /\ lastSegmentNo \in Nat /\ lastSequenceNo \in Nat
  /\ acked \subseteq Nat

\* The types hold in every state of the server.
LEMMA KeepTypes ==
  ASSUME IInv, StoreInv
  PROVE  Typed
<1>1. /\ tmp \in Seq(Cell) /\ snapFile \in Seq(Cell) /\ replay \in Seq(Entry)
      /\ files \in FileMap
  BY DEF StoreInv, StoreTypeOK, FileMap
<1>2. RestoreFrom(tmp) \in FileMap /\ RestoreFrom(snapFile) \in FileMap
  BY <1>1, RestoredTyped
<1>3. All \subseteq Entry /\ Ops \subseteq All
  BY DEF StoreInv, StoreTypeOK, Ops, All
<1>4. IsDirectory(segs) /\ OrderedDirectory(segs) /\ DOMAIN segs \subseteq Nat \ {0}
  BY DEF IInv, DirInv, IsDirectory
<1>5. /\ buf \in Seq(Entry) /\ snapshot \in Int /\ lastSnapshot \in Nat
      /\ lastSegmentNo \in Nat /\ lastSequenceNo \in Nat /\ acked \subseteq Nat
  BY DEF IInv, TypeOK, NoSnapshot
<1> QED BY <1>1, <1>2, <1>3, <1>4, <1>5 DEF Typed

\* The same, as an implication that can be primed.
LEMMA KeepTyped == IInv /\ StoreInv => Typed
BY KeepTypes

\* Numbers of the operations: what is in the buffer is above what is flushed, no
\* number is above the last one issued.
LEMMA Numbers ==
  ASSUME IInv, StoreInv, HistInv
  PROVE  /\ Numbered(All) /\ Numbered(Ops)
         /\ ToSet(buf) \subseteq All
         /\ \A l \in acked, b \in ToSet(buf) : l < b.lsn
         /\ Later(Ops, ToSet(buf))
         /\ Running => \A e \in All : e.lsn <= lastSequenceNo
<1>1. Typed
  BY KeepTypes
<1>2. Numbered(All) /\ Numbered(Ops) /\ ToSet(buf) \subseteq All
  BY <1>1 DEF Numbered, HistInv, Typed
<1>3. \A b \in ToSet(buf) : b.lsn \in Lsns(buf) /\ b.lsn \in Nat
  <2>1. \A b \in ToSet(buf) : b.lsn \in Lsns(buf)
    BY DEF ToSet, Lsns
  <2>2. \A b \in ToSet(buf) : b \in Entry
    BY <1>1, <1>2 DEF Typed
  <2> QED BY <2>1, <2>2 DEF Entry
<1>4. \A l \in acked, x \in Lsns(buf) : l < x
  BY DEF IInv, DirInv, Gone
<1>5. \A l \in acked, b \in ToSet(buf) : l < b.lsn
  BY <1>3, <1>4
<1>6. Later(Ops, ToSet(buf))
  BY <1>5 DEF Later, Ops
<1>7. ASSUME Running
      PROVE  \A e \in All : e.lsn <= lastSequenceNo
  <2>1. \A e \in Ops : e.lsn <= lastSequenceNo
    BY <1>7 DEF Ops, IInv, AckedBelowNext
  <2>2. \A b \in ToSet(buf) : b.lsn <= lastSequenceNo
    BY <1>3, <1>7 DEF IInv, NumberedSoFar
  <2> QED BY <2>1, <2>2 DEF HistInv
<1> QED BY <1>2, <1>5, <1>6, <1>7

\* The files from the last one down to the first gap, read in order; where there
\* is no gap, they are what restore reads.
LEMMA DirRead ==
  ASSUME IInv
  PROVE  /\ ReachEntries(segs) \in Seq(Entry)
         /\ ToSet(ReachEntries(segs)) = Reached(segs)
         /\ Ordered(ReachEntries(segs))
         /\ (segs # EmptyDirectory => Readable(segs)) => AllEntries(segs) = ReachEntries(segs)
<1>1. IsDirectory(segs) /\ OrderedDirectory(segs) /\ HasLast
  BY DEF IInv, DirInv
<1>2. CASE segs = EmptyDirectory
  <2>1. \A S, x : EntriesOf(S, x, 0) = << >>
    <3>1. ASSUME NEW S, NEW x
          PROVE  EntriesOf(S, x, 0) = << >>
      <4>1. Len([i \in 1 .. 0 |-> S[x + i - 1].recs]) = 0
            /\ [i \in 1 .. 0 |-> S[x + i - 1].recs] = << >>
        OBVIOUS
      <4> HIDE DEF EntriesOf
      <4> QED BY <4>1 DEF EntriesOf, FlattenSeq
    <3> QED BY <3>1
  <2>2. DOMAIN segs = {} /\ Reach(segs) = {} /\ Reached(segs) = {}
    BY <1>2 DEF EmptyDirectory, Reach, Reached, RecordsOf
  <2>3. Cardinality({}) = 0
    BY FS_EmptySet
  <2>4. AllEntries(segs) = << >> /\ ReachEntries(segs) = << >>
    BY <2>1, <2>2, <2>3 DEF AllEntries, ReachEntries, countLogFiles
  <2>5. ToSet(<< >>) = {} /\ Ordered(<< >>) /\ << >> \in Seq(Entry)
    BY DEF ToSet, Ordered
  <2> QED BY <2>2, <2>4, <2>5
<1>3. CASE segs # EmptyDirectory
  <2>1. PICK l \in DOMAIN segs : \A m \in DOMAIN segs : m <= l
    BY <1>1, <1>3 DEF HasLast
  <2>2. /\ ReachEntries(segs) \in Seq(Entry)
        /\ ToSet(ReachEntries(segs)) = Reached(segs)
        /\ Ordered(ReachEntries(segs))
    BY <1>1, <2>1, ReachRead
  <2>3. Readable(segs) => AllEntries(segs) = ReachEntries(segs)
    BY <1>1, <2>1, AllRead
  <2> QED BY <1>3, <2>2, <2>3
<1> QED BY <1>2, <1>3

----------------------------------------------------------------------------
\* Both initial directories, the empty one and the one with a snapshot, keep it.
LEMMA InitKeep ==
  ASSUME MetaInit
  PROVE  KeepInv
<1>1. /\ mode = "down" /\ buf = << >> /\ snap.pc = "idle" /\ lastSnapshot = 0
      /\ pc = [c \in Callers |-> "idle"] /\ job = [c \in Callers |-> NoJob]
      /\ replay = << >> /\ again = {}
  BY DEF MetaInit, Init, Down, SnapIdle
<1>2. AtWork
  BY <1>1, RestorerAssumption DEF AtWork, Handlers
<1>3. Repeats
  BY <1>1 DEF Repeats
<1>4. ToSet(buf) = {} /\ {OpOf(c) : c \in {g \in Callers : pc[g] = "waiting"}} = {}
  BY <1>1 DEF ToSet
<1>5. MemoryKeeps
  BY <1>1 DEF MemoryKeeps, Running
<1>6. CASE StartSegment = 0
  <2>1. /\ segs = EmptyDirectory /\ snapshot = NoSnapshot /\ acked = {}
        /\ snapFile = << >> /\ hist = {}
    BY <1>6 DEF MetaInit, Init, InitialSegs
  <2>2. All = {} /\ Ops = {}
    BY <1>1, <2>1 DEF All, Ops
  <2>3. \A x \in Names : RestoreFrom(<< >>)[x] = None
    <3>1. << >> \in Seq(Cell) /\ Len(<< >>) = 0
      OBVIOUS
    <3>2. \A j \in 1 .. Len(<< >>) : FALSE
      BY <3>1
    <3> QED BY <3>1, <3>2, RestoredEach
  <2>4. Copied(snapFile, snapshot)
    BY <2>1, <2>2, <2>3 DEF Copied, Covers, OnlyOps, Whole
  <2>5. CopyKeeps
    BY <1>1, <2>4 DEF CopyKeeps
  <2>6. DiskKeeps
    BY <2>1, <2>2 DEF DiskKeeps, DiskInv, RecordsOf, Reached, Reach, EmptyDirectory
  <2>7. HistInv
    BY <1>4, <2>2 DEF HistInv
  <2>8. Headers
    BY <1>1, <2>1 DEF Headers
  <2> QED BY <1>2, <1>3, <1>5, <2>5, <2>6, <2>7, <2>8 DEF KeepInv
<1>7. CASE StartSegment # 0
  <2>1. PICK d \in Data :
          segs = With(EmptyDirectory, StartSegment,
                      [recs |-> <<[lsn |-> StartSegment, data |-> d]>>, size |-> Size[d]])
    BY <1>7 DEF MetaInit, Init, InitialSegs
  <2> DEFINE r == [lsn |-> StartSegment, data |-> d]
             fr == [name |-> d.name, meta |-> d.meta]
  <2>2. DOMAIN segs = {StartSegment} /\ segs[StartSegment].recs = <<r>>
    BY <2>1 DEF With, EmptyDirectory
  <2>3. hist = {r} /\ snapFile = CellsOf(fr) /\ ~ d.del
    BY <1>7, <2>2 DEF MetaInit
  <2>4. /\ acked = {StartSegment} /\ snapshot = StartSegment
        /\ StartSegment \in Nat \ {0}
    BY <1>7, StartAssumption DEF MetaInit, Init
  <2>5. All = {r} /\ Ops = {r}
    BY <1>1, <2>3, <2>4 DEF All, Ops
  <2>6. fr \in FileRec /\ fr.name = d.name /\ fr.meta = d.meta /\ r.data = d /\ r.lsn = StartSegment
    BY DataFields DEF FileRec
  <2> HIDE DEF r, fr
  <2>7. /\ Whole(snapFile) /\ snapFile \in Seq(Cell)
        /\ \A c \in ToSet(snapFile) : c.name = d.name /\ c.meta = d.meta
        /\ \E c \in ToSet(snapFile) : c.name = d.name
    BY <2>3, <2>6, WholeRecord, CellsTyped
  <2>8. \A x \in Names : RestoreFrom(snapFile)[x] = IF x = d.name THEN d.meta ELSE None
    <3>1. ASSUME NEW x \in Names
          PROVE  RestoreFrom(snapFile)[x] = IF x = d.name THEN d.meta ELSE None
      <4>1. \A j \in 1 .. Len(snapFile) : snapFile[j].name = d.name /\ snapFile[j].meta = d.meta
        BY <2>7 DEF ToSet
      <4>2. \E j \in 1 .. Len(snapFile) : snapFile[j].name = d.name
        BY <2>7 DEF ToSet
      <4>3. RestoreFrom(snapFile)[x] = IF \E j \in 1 .. Len(snapFile) : snapFile[j].name = x
                                       THEN d.meta ELSE None
        BY <2>7, <4>1, RestoredEach
      <4> QED BY <4>1, <4>2, <4>3
    <3> QED BY <3>1
  <2>9. d.name \in Names /\ Eff(r.data) = d.meta
    BY <2>3, <2>6, DataFields DEF Eff
  <2>10. Copied(snapFile, snapshot)
    <3>1. Covers(Ops, snapshot, RestoreFrom(snapFile))
      BY <2>5, <2>6, <2>8, <2>9 DEF Covers
    <3>2. OnlyOps(RestoreFrom(snapFile))
      BY <2>5, <2>6, <2>8 DEF OnlyOps
    <3> QED BY <2>7, <3>1, <3>2 DEF Copied
  <2>11. CopyKeeps
    BY <1>1, <2>10 DEF CopyKeeps
  <2>12. DiskKeeps
    <3>1. ToSet(<<r>>) = {r}
      BY DEF ToSet
    <3>2. Reach(segs) = {StartSegment}
      BY <2>2, <2>4 DEF Reach
    <3>3. Reached(segs) = {r} /\ RecordsOf(segs, DOMAIN segs) = {r}
      BY <2>2, <3>1, <3>2 DEF Reached, RecordsOf
    <3> QED BY <2>5, <3>3 DEF DiskKeeps, DiskInv
  <2>13. HistInv
    BY <1>4, <2>4, <2>5, <2>6 DEF HistInv
  <2>14. Headers
    BY <1>1, <2>4 DEF Headers
  <2> QED BY <1>2, <1>3, <1>5, <2>11, <2>12, <2>13, <2>14 DEF KeepInv
<1> QED BY <1>6, <1>7

----------------------------------------------------------------------------
(* Steps that leave the history alone *)

\* What a step keeps that changes neither the history nor the buffer.
LEMMA SameHistory ==
  ASSUME UNCHANGED <<hist, again, acked, buf, pc, lsn, job>>
  PROVE  /\ All' = All /\ Ops' = Ops /\ Flying' = Flying
         /\ Repeats => Repeats'
         /\ HistInv => HistInv'
         /\ \A F : OnlyOps(F)' <=> OnlyOps(F)
<1>1. All' = All /\ Ops' = Ops
  BY DEF All, Ops
<1>2. \A c : OpOf(c)' = OpOf(c)
  BY DEF OpOf
<1>3. Flying' = Flying
  BY <1>2 DEF Flying
<1>4. Repeats => Repeats'
  BY DEF Repeats
<1>5. HistInv => HistInv'
  BY <1>1, <1>2 DEF HistInv
<1> QED BY <1>1, <1>3, <1>4, <1>5 DEF OnlyOps

\* The same for the callers at work, when restore goes on as it did.
LEMMA SameWork ==
  ASSUME UNCHANGED <<hist, again, acked, buf, pc, lsn, job>>, AtWork,
         UNCHANGED <<mode, replay>>
  PROVE  AtWork'
<1>1. All' = All
  BY DEF All
<1>2. \A c : OpOf(c)' = OpOf(c)
  BY DEF OpOf
<1> QED BY <1>1, <1>2 DEF AtWork

\* A step that changes nothing the invariant speaks of.
LEMMA StutterKeep ==
  ASSUME KeepInv, MetaBootFails \/ UNCHANGED allVars
  PROVE  KeepInv'
<1>1. UNCHANGED <<segs, snapshot, mode, buf, lastSnapshot, pc, lsn, snap, acked>>
  BY DEF MetaBootFails, allVars, vars
<1>2. UNCHANGED <<files, job, replay, tmp, copied, snapFile, hist, again>>
  BY DEF MetaBootFails, allVars, storeVars
<1>3. /\ All' = All /\ Ops' = Ops /\ Flying' = Flying
      /\ Repeats' /\ HistInv' /\ AtWork'
      /\ \A F : OnlyOps(F)' <=> OnlyOps(F)
  BY <1>1, <1>2, SameHistory, SameWork DEF KeepInv
<1> QED BY <1>1, <1>2, <1>3 DEF KeepInv, Headers, CopyKeeps, Copied, DiskKeeps, MemoryKeeps, Running

----------------------------------------------------------------------------
(* The snapshot goroutine *)

\* What is left to show of its steps: they change no map and no operation.
LEMMA SnapGoroutine ==
  ASSUME KeepInv,
         UNCHANGED <<hist, again, acked, buf, pc, lsn, job, mode, replay, files>>
  PROVE  /\ All' = All /\ Ops' = Ops /\ Flying' = Flying
         /\ \A F : OnlyOps(F)' <=> OnlyOps(F)
         /\ Headers' /\ CopyKeeps' /\ DiskKeeps' => KeepInv'
<1>1. /\ All' = All /\ Ops' = Ops /\ Flying' = Flying
      /\ Repeats' /\ HistInv' /\ AtWork'
      /\ \A F : OnlyOps(F)' <=> OnlyOps(F)
  BY SameHistory, SameWork DEF KeepInv
<1>2. MemoryKeeps'
  BY <1>1 DEF KeepInv, MemoryKeeps, Running
<1> QED BY <1>1, <1>2 DEF KeepInv

\* A snapshot begins or fails, is published, or lists the directory.
LEMMA SnapStepKeep ==
  ASSUME IInv, StoreInv, KeepInv,
         MetaSnapBegin \/ MetaSnapFails \/ MetaSnapPublish \/ MetaSnapList
  PROVE  KeepInv'
<1>1. UNCHANGED <<hist, again, acked, buf, pc, lsn, job, mode, replay, files>>
      /\ UNCHANGED <<segs, snapshot, snapFile>>
  BY DEF MetaSnapBegin, SnapBegin, MetaSnapFails, SnapFails, MetaSnapPublish, SnapPublish,
         MetaSnapList, SnapList, disk, counters, storeVars
<1>2. /\ All' = All /\ Ops' = Ops
      /\ \A F : OnlyOps(F)' <=> OnlyOps(F)
      /\ Headers' /\ CopyKeeps' /\ DiskKeeps' => KeepInv'
  BY <1>1, SnapGoroutine
<1>3. Typed
  BY KeepTypes
<1>4. DiskKeeps'
  BY <1>1, <1>2 DEF KeepInv, DiskKeeps
<1>5. CopyKeeps'
  <2>1. ~ (snap'.pc = "writing" /\ copied')
    <3>1. MetaSnapBegin => ~ copied'
      BY DEF MetaSnapBegin
    <3>2. MetaSnapFails => snap'.pc = "idle"
      BY DEF MetaSnapFails, SnapFails, SnapIdle
    <3>3. MetaSnapPublish => snap'.pc = "published"
      BY DEF MetaSnapPublish, SnapPublish, IInv, TypeOK
    <3>4. MetaSnapList => snap'.pc = "cleaning"
      BY DEF MetaSnapList, SnapList, IInv, TypeOK
    <3> QED BY <3>1, <3>2, <3>3, <3>4
  <2>2. Copied(snapFile, snapshot)'
    BY <1>1, <1>2 DEF KeepInv, CopyKeeps, Copied
  <2> QED BY <2>1, <2>2 DEF CopyKeeps
<1>6. Headers'
  <2>1. CASE MetaSnapBegin
    <3>1. snapshot <= lastSequenceNo
      <4>1. CASE snapshot \in acked
        <5>1. Running
          BY <2>1 DEF MetaSnapBegin, SnapBegin, Running
        <5> QED BY <4>1, <5>1 DEF IInv, AckedBelowNext
      <4>2. CASE snapshot \in {0, NoSnapshot}
        BY <1>3, <4>2 DEF NoSnapshot, Typed
      <4> QED BY <4>1, <4>2 DEF KeepInv, Headers
    <3>2. snap'.pc = "writing" /\ snap'.seq = lastSequenceNo /\ mode = "up" /\ ~ copied'
          /\ lastSnapshot' = lastSnapshot
      BY <2>1 DEF MetaSnapBegin, SnapBegin
    <3> QED BY <1>1, <3>1, <3>2 DEF KeepInv, Headers
  <2>2. CASE MetaSnapFails
    BY <1>1, <2>2 DEF KeepInv, Headers, MetaSnapFails, SnapFails, SnapIdle
  <2>3. CASE MetaSnapPublish
    <3>1. lastSnapshot' = snap.seq /\ snap.pc = "renamed" /\ snap'.pc = "published"
      BY <2>3 DEF MetaSnapPublish, SnapPublish, IInv, TypeOK
    <3> QED BY <1>1, <1>3, <3>1 DEF KeepInv, Headers, Typed
  <2>4. CASE MetaSnapList
    <3>1. lastSnapshot' = lastSnapshot /\ snap.pc = "published" /\ snap'.pc = "cleaning"
      BY <2>4 DEF MetaSnapList, SnapList, IInv, TypeOK
    <3> QED BY <1>1, <3>1 DEF KeepInv, Headers
  <2> QED BY <2>1, <2>2, <2>3, <2>4
<1> QED BY <1>2, <1>4, <1>5, <1>6

\* A copy of the map holds what is numbered up to the header, because the
\* operations that are not yet in the map are numbered above it.
LEMMA SnapshotKeep ==
  ASSUME IInv, StoreInv, KeepInv, CleanCopy, Snapshot
  PROVE  KeepInv'
<1>1. UNCHANGED <<hist, again, acked, buf, pc, lsn, job, mode, replay, files>>
      /\ UNCHANGED <<segs, snapshot, snapFile, snap, lastSnapshot>>
      /\ snap.pc = "writing" /\ InStep /\ tmp' \in Copies(files)
  BY DEF Snapshot, vars, CleanCopy
<1>2. /\ All' = All /\ Ops' = Ops
      /\ \A F : OnlyOps(F)' <=> OnlyOps(F)
      /\ Headers' /\ CopyKeeps' /\ DiskKeeps' => KeepInv'
  BY <1>1, SnapGoroutine
<1>3. Typed
  BY KeepTypes
<1>4. RestoreFrom(tmp') = files /\ Whole(tmp')
  BY <1>1, <1>3, CopyRestored DEF Typed
<1>5. mode = "up" /\ replay = << >> /\ pc[Restorer] = "idle" /\ Running
  BY <1>1 DEF KeepInv, Headers, AtWork, Running
<1>6. Covers(Ops, snap.seq, files)
  <2>1. snap.seq \in Nat
    BY DEF IInv, TypeOK
  <2>2. ASSUME NEW e \in Ops, LastIn(Ops, e), e.lsn <= snap.seq
        PROVE  files[e.data.name] = Eff(e.data)
    <3>1. e \notin Flying
      <4>1. ASSUME e \in Flying
            PROVE  FALSE
        <5>1. PICK g \in Callers : pc[g] = "released" /\ e = OpOf(g)
          BY <4>1 DEF Flying
        <5>2. g \in Handlers /\ e.lsn = lsn[g]
          BY <1>5, <5>1 DEF Handlers, OpOf
        <5>3. lsn[g] > snap.seq /\ lsn[g] \in Nat
          BY <1>1, <5>1, <5>2 DEF InStep, IInv, TypeOK
        <5> QED BY <2>1, <2>2, <5>2, <5>3
      <4> QED BY <4>1
    <3>2. e \notin ToSet(replay)
      BY <1>5 DEF ToSet
    <3> QED BY <1>5, <2>2, <3>1, <3>2 DEF KeepInv, MemoryKeeps, Restores
  <2> QED BY <2>2 DEF Covers
<1>7. Copied(tmp', snap.seq)
  BY <1>4, <1>5, <1>6 DEF Copied, KeepInv, MemoryKeeps
<1>8. CopyKeeps'
  BY <1>1, <1>2, <1>7 DEF CopyKeeps, KeepInv, Copied
<1>9. Headers'
  BY <1>1 DEF KeepInv, Headers, InStep
<1>10. DiskKeeps'
  BY <1>1, <1>2 DEF KeepInv, DiskKeeps
<1> QED BY <1>2, <1>8, <1>9, <1>10

\* The copy takes the place of the snapshot file: the log has to hold less.
LEMMA RenameKeep ==
  ASSUME IInv, StoreInv, KeepInv, MetaSnapRename
  PROVE  KeepInv'
<1>1. /\ UNCHANGED <<hist, again, acked, buf, pc, lsn, job, mode, replay, files>>
      /\ UNCHANGED <<segs, lastSnapshot>>
      /\ snap.pc = "writing" /\ copied /\ snapshot' = snap.seq
      /\ snapFile' = tmp
  BY DEF MetaSnapRename, SnapRename, counters
<1>2. /\ All' = All /\ Ops' = Ops
      /\ \A F : OnlyOps(F)' <=> OnlyOps(F)
      /\ Headers' /\ CopyKeeps' /\ DiskKeeps' => KeepInv'
  BY <1>1, SnapGoroutine
<1>3. Typed
  BY KeepTypes
<1>4. snap'.pc = "renamed" /\ snap'.seq = snap.seq /\ snap.seq \in Nat
  BY DEF MetaSnapRename, SnapRename, IInv, TypeOK
<1>5. mode = "up" /\ snapshot <= snap.seq /\ snap.seq \in acked \cup {0}
  BY <1>1 DEF KeepInv, Headers
<1>6. Headers'
  BY <1>1, <1>3, <1>4, <1>5 DEF KeepInv, Headers, Typed
<1>7. CopyKeeps'
  BY <1>1, <1>2, <1>4 DEF KeepInv, CopyKeeps, Copied
<1>8. DiskKeeps'
  <2>1. \A e \in Ops : e.lsn \in Nat
    BY <1>3 DEF Typed, Entry
  <2> QED BY <1>1, <1>2, <1>3, <1>4, <1>5, <2>1 DEF KeepInv, DiskKeeps, DiskInv, Typed
<1> QED BY <1>2, <1>6, <1>7, <1>8

\* The header that the log consults is not above what the snapshot file covers.
LEMMA HeaderPublished ==
  ASSUME KeepInv, NEW O, O \subseteq All
  PROVE  Published(O, lastSnapshot, snapshot)
BY DEF KeepInv, Headers, HistInv, Published

\* The cleanup removes a file that the snapshot file makes up for.
LEMMA CleanStepKeep ==
  ASSUME IInv, StoreInv, KeepInv, MetaCleanStep
  PROVE  KeepInv'
<1>1. /\ UNCHANGED <<hist, again, acked, buf, pc, lsn, job, mode, replay, files>>
      /\ UNCHANGED <<snapshot, snapFile, lastSnapshot, tmp, copied>>
  BY DEF MetaCleanStep, CleanStep, counters, storeVars
<1>2. /\ All' = All /\ Ops' = Ops
      /\ \A F : OnlyOps(F)' <=> OnlyOps(F)
      /\ Headers' /\ CopyKeeps' /\ DiskKeeps' => KeepInv'
  BY <1>1, SnapGoroutine
<1>3. Typed
  BY KeepTypes
<1>4. PICK n \in snap.pending :
        IF BeforeSnapshot(n) /\ RemoveFails(segs, n)
        THEN snap' = SnapIdle /\ UNCHANGED segs
        ELSE /\ snap' = IF snap.pending = {n} THEN SnapIdle
                        ELSE [snap EXCEPT !.pending = @ \ {n}]
             /\ segs' = IF BeforeSnapshot(n) THEN removeLogFile(segs, n, lastSnapshot) ELSE segs
  BY DEF MetaCleanStep, CleanStep
<1>5. /\ snap.pc = "cleaning" /\ n \in Nat \ {0} /\ snap.seg \in Nat
      /\ snap'.pc \in {"idle", "cleaning"}
  BY <1>4 DEF MetaCleanStep, CleanStep, IInv, TypeOK, SnapIdle
<1>6. Headers'
  BY <1>1, <1>5 DEF KeepInv, Headers
<1>7. CopyKeeps'
  BY <1>1, <1>2, <1>5 DEF KeepInv, CopyKeeps, Copied
<1>8. DiskInv(segs', Ops, snapshot)
  <2>1. DiskInv(segs, Ops, snapshot)
    BY DEF KeepInv, DiskKeeps
  <2>2. CASE segs' = segs
    BY <2>1, <2>2
  <2>3. CASE segs' # segs
    <3>1. n < snap.seg /\ ~ RemoveFails(segs, n) /\ segs' = removeLogFile(segs, n, lastSnapshot)
      BY <1>4, <2>3 DEF BeforeSnapshot
    <3>2. Running /\ snap.seg <= lastSegmentNo
      BY <1>5 DEF IInv, SnapshotBounds
    <3>3. lastSegmentNo \in DOMAIN segs /\ n < lastSegmentNo
      BY <1>3, <1>5, <3>1, <3>2 DEF IInv, LiveSegment, Typed
    <3>4. Numbered(Ops)
      BY Numbers DEF KeepInv
    <3>5. Published(Ops, lastSnapshot, snapshot)
      BY <1>3, HeaderPublished DEF Typed
    <3>6. /\ IsDirectory(segs) /\ OrderedDirectory(segs)
          /\ snapshot \in Int /\ lastSnapshot \in Nat
      BY <1>3 DEF Typed
    <3>7. DiskInv(removeLogFile(segs, n, lastSnapshot), Ops, snapshot)
      BY <1>5, <2>1, <3>1, <3>3, <3>4, <3>5, <3>6, RemoveDisk, Zenon
    <3> QED BY <3>1, <3>7
  <2> QED BY <2>2, <2>3
<1>9. DiskKeeps'
  BY <1>1, <1>2, <1>8 DEF DiskKeeps
<1> QED BY <1>2, <1>6, <1>7, <1>9

----------------------------------------------------------------------------
(* Start-up *)

\* The map restored from the snapshot file and the files that are read hold all.
LEMMA BootKeep ==
  ASSUME IInv, IInv', StoreInv, KeepInv, SnapshotInTime, MetaBoot
  PROVE  KeepInv'
<1>1. /\ UNCHANGED <<hist, again, acked, pc, lsn, job, tmp, copied, snapFile>>
      /\ UNCHANGED <<snapshot, lastSnapshot, snap>>
      /\ mode = "down" /\ CanBoot /\ InitWAL
      /\ mode' = IF snapshot = NoSnapshot THEN "up" ELSE "restoring"
  BY DEF MetaBoot, Boot
<1>2. Typed
  BY KeepTypes
<1>3. buf = << >> /\ buf' = << >>
  BY <1>1 DEF IInv, Idle, InitWAL, SetLog, addNewLogFile
<1>4. /\ All' = All /\ Ops' = Ops /\ Flying' = Flying
      /\ Repeats' /\ HistInv'
      /\ \A F : OnlyOps(F)' <=> OnlyOps(F)
  BY <1>1, <1>3, SameHistory DEF KeepInv
<1>5. snap.pc = "idle" /\ \A c \in Callers : pc[c] = "idle"
  <2>1. snap.pc = "idle"
    BY <1>1 DEF KeepInv, Headers
  <2> QED BY <1>1, <2>1 DEF IInv, Idle
<1>6. AtWork'
  <2>1. mode' # "restoring" => replay' = << >>
    BY <1>1 DEF MetaBoot
  <2>2. \A h \in Handlers : pc[h] = "idle" /\ job[h] = NoJob
    BY <1>1 DEF KeepInv, AtWork
  <2> QED BY <1>1, <1>5, <2>1, <2>2, RestorerAssumption DEF AtWork
<1>7. Headers'
  BY <1>1, <1>5 DEF KeepInv, Headers
<1>8. CopyKeeps'
  BY <1>1, <1>4, <1>5 DEF KeepInv, CopyKeeps, Copied
<1>9. DiskKeeps'
  <2>1. DiskInv(segs, Ops, snapshot)
    BY DEF KeepInv, DiskKeeps
  <2>2. CASE segs = EmptyDirectory
    <3>1. DOMAIN segs = {} /\ countLogFiles(segs) = 0
      BY <2>2, FS_EmptySet DEF EmptyDirectory, countLogFiles
    <3>2. ~ Full(segs)
      BY <3>1, MaxSegmentsAssumption DEF Full
    <3>3. DiskInv(With(segs, 1, EmptyFile), Ops, snapshot)
      <4>1. DOMAIN segs \subseteq Nat /\ \A m \in DOMAIN segs : m <= 0
        BY <3>1
      <4>2. DiskInv(With(segs, 0 + 1, EmptyFile), Ops, snapshot)
        BY <2>1, <3>1, <4>1, CreateDisk
      <4> QED BY <4>2
    <3> DEFINE L == [segs |-> segs, buf |-> << >>, last |-> 0, size |-> 0]
    <3>4. RollCreated(L, 0) = With(segs, 1, EmptyFile)
      BY <3>2 DEF RollCreated, RollRemoved
    <3>5. segs' = addNewLogFile(L, 0).segs
      BY <1>1, <2>2 DEF InitWAL, SetLog
    <3>6. addNewLogFile(L, 0).segs = FlushTo(RollCreated(L, 0), L)
      BY DEF addNewLogFile
    <3>7. 0 \notin DOMAIN With(segs, 1, EmptyFile)
      BY <3>1 DEF With
    <3>8. FlushTo(With(segs, 1, EmptyFile), L) = With(segs, 1, EmptyFile)
      BY <3>7 DEF FlushTo
    <3> QED BY <1>1, <1>4, <3>3, <3>4, <3>5, <3>6, <3>8 DEF DiskKeeps
  <2>3. CASE segs # EmptyDirectory
    BY <1>1, <1>4, <2>1, <2>3 DEF InitWAL, SetLog, DiskKeeps
  <2> QED BY <2>2, <2>3
<1>10. MemoryKeeps'
  <2>1. Flying = {}
    BY <1>5 DEF Flying
  <2>2. CASE snapshot = NoSnapshot
    <3>1. Ops = {}
      BY <1>1, <2>2 DEF SnapshotInTime, Ops
    <3>2. files' = NoFiles /\ replay' = << >>
      BY <2>2 DEF MetaBoot
    <3>3. Ordered(<< >>) /\ ToSet(<< >>) = {}
      BY DEF Ordered, ToSet
    <3>4. OnlyOps(files')
      BY <3>2 DEF OnlyOps, NoFiles
    <3> QED BY <1>4, <2>1, <3>1, <3>2, <3>3, <3>4 DEF MemoryKeeps, Restores
  <2>3. CASE snapshot # NoSnapshot
    <3>1. files' = RestoreFrom(snapFile) /\ replay' = AllEntries(segs)
      BY <2>3 DEF MetaBoot
    <3>2. AllEntries(segs) = ReachEntries(segs)
      BY <1>1, <2>3, DirRead DEF CanBoot
    <3>3. Ordered(replay') /\ ToSet(replay') = Reached(segs)
      BY <3>1, <3>2, DirRead
    <3>4. Covers(Ops, snapshot, files') /\ OnlyOps(files')
      BY <3>1 DEF KeepInv, CopyKeeps, Copied
    <3>5. Numbered(Ops) /\ DiskInv(segs, Ops, snapshot) /\ snapshot \in Int
      BY <1>2, Numbers DEF KeepInv, DiskKeeps, Typed
    <3>6. Restores(Ops, Reached(segs), files') /\ Reached(segs) \subseteq Ops
      BY <3>4, <3>5, DiskRestores
    <3> QED BY <1>4, <2>1, <3>3, <3>4, <3>6 DEF MemoryKeeps
  <2> QED BY <2>2, <2>3
<1> QED BY <1>4, <1>6, <1>7, <1>8, <1>9, <1>10 DEF KeepInv

\* The entry at the head of the replay is the oldest one in it.
LEMMA ReplayHead ==
  ASSUME StoreInv, replay # << >>, Ordered(replay)
  PROVE  /\ Head(replay) \in ToSet(replay) /\ Head(replay) \in Entry
         /\ Tail(replay) \in Seq(Entry) /\ Ordered(Tail(replay))
         /\ ToSet(replay) = {Head(replay)} \cup ToSet(Tail(replay))
         /\ \A q \in ToSet(Tail(replay)) : Head(replay).lsn < q.lsn
<1>1. /\ replay \in Seq(Entry) /\ Len(replay) \in Nat \ {0}
      /\ Tail(replay) \in Seq(Entry) /\ Len(Tail(replay)) = Len(replay) - 1
      /\ Head(replay) = replay[1]
      /\ \A i \in 1 .. Len(replay) - 1 : Tail(replay)[i] = replay[i + 1]
  BY DEF StoreInv, StoreTypeOK
<1>2. /\ DOMAIN replay = 1 .. Len(replay) /\ DOMAIN Tail(replay) = 1 .. Len(replay) - 1
      /\ \A i \in DOMAIN replay : replay[i] \in Entry
  BY <1>1
<1>3. \A i \in DOMAIN Tail(replay) : Tail(replay)[i] = replay[i + 1] /\ i + 1 \in DOMAIN replay
                                     /\ i \in Nat
  BY <1>1, <1>2
<1>4. Head(replay) \in ToSet(replay) /\ Head(replay) \in Entry
  BY <1>1, <1>2 DEF ToSet
<1>5. Ordered(Tail(replay))
  BY <1>3 DEF Ordered
<1>6. \A q \in ToSet(Tail(replay)) : Head(replay).lsn < q.lsn
  <2>1. 1 \in DOMAIN replay
    BY <1>1, <1>2
  <2>2. \A i \in DOMAIN Tail(replay) : Head(replay).lsn < Tail(replay)[i].lsn
    BY <1>1, <1>2, <1>3, <2>1 DEF Ordered
  <2> QED BY <2>2 DEF ToSet
<1>7. ToSet(replay) = {Head(replay)} \cup ToSet(Tail(replay))
  <2>1. \A i \in DOMAIN replay : i = 1 \/ (i - 1 \in DOMAIN Tail(replay) /\ replay[i] = Tail(replay)[i - 1])
    BY <1>1, <1>2, <1>3
  <2>2. ASSUME NEW x \in ToSet(replay)
        PROVE  x \in {Head(replay)} \cup ToSet(Tail(replay))
    <3>1. PICK i \in DOMAIN replay : x = replay[i]
      BY DEF ToSet
    <3>2. CASE i = 1
      BY <1>1, <3>1, <3>2
    <3>3. CASE i - 1 \in DOMAIN Tail(replay) /\ replay[i] = Tail(replay)[i - 1]
      BY <3>1, <3>3 DEF ToSet
    <3> QED BY <2>1, <3>2, <3>3
  <2>3. \A x \in ToSet(Tail(replay)) : x \in ToSet(replay)
    BY <1>3 DEF ToSet
  <2> QED BY <1>4, <2>2, <2>3
<1> QED BY <1>1, <1>4, <1>5, <1>6, <1>7

\* An entry that needs no log is applied to the map.
LEMMA ApplyKeep ==
  ASSUME IInv, StoreInv, KeepInv, ApplyInMemory
  PROVE  KeepInv'
<1>1. /\ UNCHANGED <<hist, again, acked, buf, pc, lsn, job, mode>>
      /\ UNCHANGED <<tmp, copied, snapFile, segs, snapshot, lastSnapshot, snap>>
      /\ mode = "restoring" /\ pc[Restorer] = "idle"
      /\ replay # << >> /\ replay' = Tail(replay)
  BY DEF ApplyInMemory, vars
<1>2. Typed
  BY KeepTypes
<1>3. /\ All' = All /\ Ops' = Ops /\ Flying' = Flying
      /\ Repeats' /\ HistInv'
      /\ \A F : OnlyOps(F)' <=> OnlyOps(F)
  BY <1>1, SameHistory DEF KeepInv
<1>4. \A c : OpOf(c)' = OpOf(c)
  BY <1>1 DEF OpOf
<1>5. AtWork'
  BY <1>1, <1>3, <1>4 DEF KeepInv, AtWork
<1>6. Headers' /\ CopyKeeps' /\ DiskKeeps'
  BY <1>1, <1>3 DEF KeepInv, Headers, CopyKeeps, Copied, DiskKeeps
<1>7. \A c \in Callers : pc[c] = "idle"
  BY <1>1 DEF KeepInv, AtWork, Handlers
<1>8. Flying = {}
  BY <1>7 DEF Flying
<1>9. /\ Ordered(replay) /\ ToSet(replay) \subseteq Ops
      /\ Restores(Ops, ToSet(replay), files) /\ OnlyOps(files)
  BY <1>1, <1>8 DEF KeepInv, MemoryKeeps, Running
<1> DEFINE r == Head(replay)
<1>10. /\ r \in ToSet(replay) /\ r \in Entry /\ Ordered(Tail(replay))
       /\ ToSet(replay) = {r} \cup ToSet(Tail(replay))
       /\ \A q \in ToSet(Tail(replay)) : r.lsn < q.lsn
  BY <1>1, <1>9, ReplayHead
<1>11. /\ r.data.name \in Names
       /\ \A x \in Names : Applied(files, r)[x] = IF x = r.data.name THEN Eff(r.data) ELSE files[x]
       /\ Applied(files, r) \in FileMap
  BY <1>2, <1>10, AppliedIs DEF Typed
<1>12. files' = Applied(files, r)
  <2>1. CASE r.data.del
    <3>1. files[r.data.name] = None /\ files' = files
      BY <2>1 DEF ApplyInMemory
    <3>2. files = [files EXCEPT ![r.data.name] = None]
      BY <1>2, <3>1 DEF Typed, FileMap
    <3> QED BY <2>1, <3>1, <3>2 DEF Applied
  <2>2. CASE ~ r.data.del
    BY <2>2 DEF ApplyInMemory, Applied
  <2> QED BY <2>1, <2>2
<1> HIDE DEF r
<1>13. Restores(Ops, ToSet(Tail(replay)), Applied(files, r))
  <2>1. Ops \subseteq Entry /\ files \in FileMap
    BY <1>2 DEF Typed
  <2>2. ToSet(replay) = ToSet(Tail(replay)) \cup {r}
    BY <1>10
  <2> QED BY <1>9, <1>10, <2>1, <2>2, RestoresApplied, Zenon
<1>14. OnlyOps(files')
  <2>1. r \in Ops
    BY <1>9, <1>10
  <2> QED BY <1>9, <1>11, <1>12, <2>1 DEF OnlyOps
<1>15. MemoryKeeps'
  <2>1. ToSet(replay') \subseteq Ops
    BY <1>1, <1>9, <1>10
  <2>2. Flying' \cup ToSet(replay') = ToSet(Tail(replay))
    BY <1>1, <1>3, <1>8
  <2> QED BY <1>1, <1>3, <1>10, <1>12, <1>13, <1>14, <2>1, <2>2 DEF MemoryKeeps
<1> QED BY <1>3, <1>5, <1>6, <1>15 DEF KeepInv

\* The last entry was applied: the log knows the header of the snapshot.
LEMMA RestoredKeep ==
  ASSUME IInv, StoreInv, KeepInv, MetaRestored
  PROVE  KeepInv'
<1>1. /\ UNCHANGED <<hist, again, acked, buf, pc, lsn, job, replay, files>>
      /\ UNCHANGED <<tmp, copied, snapFile, segs, snapshot, snap>>
      /\ mode = "restoring" /\ mode' = "up" /\ pc[Restorer] = "idle"
      /\ replay = << >> /\ lastSnapshot' = snapshot
  BY DEF MetaRestored, Restored, counters, storeVars
<1>2. Typed
  BY KeepTypes
<1>3. /\ All' = All /\ Ops' = Ops /\ Flying' = Flying
      /\ Repeats' /\ HistInv'
      /\ \A F : OnlyOps(F)' <=> OnlyOps(F)
  BY <1>1, SameHistory DEF KeepInv
<1>4. \A c : OpOf(c)' = OpOf(c)
  BY <1>1 DEF OpOf
<1>5. AtWork'
  BY <1>1, <1>3, <1>4 DEF KeepInv, AtWork
<1>6. CopyKeeps' /\ DiskKeeps'
  BY <1>1, <1>3 DEF KeepInv, CopyKeeps, Copied, DiskKeeps
<1>7. Headers'
  BY <1>1, <1>2 DEF KeepInv, Headers, Typed
<1>8. MemoryKeeps'
  BY <1>1, <1>3 DEF KeepInv, MemoryKeeps, Running
<1> QED BY <1>3, <1>5, <1>6, <1>7, <1>8 DEF KeepInv

----------------------------------------------------------------------------
(* Steps of the log *)

\* The operations that the callers C begin to wait for.
New(C) == {[lsn |-> lsn'[c], data |-> job'[c]] : c \in {g \in C : pc'[g] = "waiting"}}

\* What is flushed when a step has or has not emptied the buffer.
Flushed(rolled) == IF rolled THEN Ops \cup ToSet(buf) ELSE Ops

\* A step of the log that lets every waiting caller go if it has rolled, and
\* that the callers C, one or none, make: their record is in the buffer or the
\* append has failed.
Grown(rolled, C) ==
  /\ UNCHANGED <<snapshot, mode, lastSnapshot, snap, files, replay, tmp, copied, snapFile>>
  /\ \A g \in Callers \ C :
       /\ lsn'[g] = lsn[g] /\ job'[g] = job[g]
       /\ pc'[g] = IF rolled /\ pc[g] = "waiting" THEN "released" ELSE pc[g]
  /\ \A c \in C :
       /\ pc[c] = "idle" /\ pc'[c] \in {"failed", "waiting"}
       /\ pc'[c] = "waiting" => lsn'[c] = lastSequenceNo + 1
  /\ \A c, g \in C : c = g
  /\ acked' = IF rolled THEN acked \cup {lsn[x] : x \in Waiting} ELSE acked
  /\ ToSet(buf') = (IF rolled THEN {} ELSE ToSet(buf)) \cup New(C)
  /\ All' = All \cup New(C)
  /\ DiskInv(segs', Flushed(rolled), snapshot)

\* Of such a step: what is new is numbered above everything else.
LEMMA GrownOps ==
  ASSUME IInv, IInv', StoreInv, StoreInv', KeepInv, Running,
         NEW rolled \in BOOLEAN, NEW C \in SUBSET Callers, Grown(rolled, C)
  PROVE  /\ Ops' = Flushed(rolled)
         /\ Flying' = IF rolled THEN Flying \cup ToSet(buf) ELSE Flying
         /\ New(C) \subseteq Entry
         /\ \A e \in New(C) : e.lsn = lastSequenceNo + 1
         /\ \A e \in All, f \in New(C) : e.lsn < f.lsn
         /\ \A e, f \in New(C) : e = f
         /\ \A e \in All', f \in New(C) : e.lsn <= f.lsn
         /\ HistInv'
<1>1. Typed /\ Typed'
  <2>1. (IInv /\ StoreInv => Typed)'
    BY KeepTyped, PTL
  <2> QED BY <2>1, KeepTypes
<1>2. /\ Numbered(All) /\ Numbered(Ops) /\ ToSet(buf) \subseteq All
      /\ \A e \in All : e.lsn <= lastSequenceNo
  BY Numbers DEF KeepInv
<1>3. \A e \in New(C) : e.lsn = lastSequenceNo + 1
  BY DEF New, Grown
<1>4. New(C) \subseteq Entry
  BY <1>1 DEF Grown, Typed
<1>5. \A e \in All : e.lsn \in Nat
  BY <1>1 DEF Typed, Entry
<1>6. \A e \in All, f \in New(C) : e.lsn < f.lsn
  <2> TAKE e \in All, f \in New(C)
  <2>1. e.lsn \in Nat /\ e.lsn <= lastSequenceNo /\ f.lsn = lastSequenceNo + 1
    BY <1>2, <1>3, <1>5
  <2>2. lastSequenceNo \in Nat
    BY <1>1 DEF Typed
  <2> QED BY <2>1, <2>2
<1>7. \A e, f \in New(C) : e = f
  BY DEF New, Grown
<1>8. \A l \in acked' : l <= lastSequenceNo
  <2>1. \A l \in acked : l <= lastSequenceNo
    BY DEF IInv, AckedBelowNext
  <2>2. \A x \in Waiting : lsn[x] <= lastSequenceNo
    BY RunningLog
  <2> QED BY <2>1, <2>2 DEF Grown
<1>9. \A f \in New(C) : f.lsn \notin acked'
  BY <1>1, <1>3, <1>8 DEF Typed
<1>10. ToSet(buf) = {OpOf(c) : c \in Waiting}
  BY DEF KeepInv, HistInv, Waiting
<1>11. Ops' = Flushed(rolled)
  <2>1. All' = All \cup New(C)
    BY DEF Grown
  <2>2. CASE rolled
    <3>1. acked' = acked \cup {lsn[x] : x \in Waiting}
      BY <2>2 DEF Grown
    <3>2. \A e \in Ops : e.lsn \in acked'
      BY <3>1 DEF Ops
    <3>3. \A b \in ToSet(buf) : b.lsn \in acked'
      BY <1>10, <3>1 DEF OpOf
    <3>4. \A e \in All : e.lsn \in acked'
      BY <3>2, <3>3 DEF KeepInv, HistInv
    <3>5. Ops' = All
      BY <1>9, <2>1, <3>4 DEF Ops
    <3> QED BY <2>2, <3>5 DEF Flushed, KeepInv, HistInv
  <2>3. CASE ~ rolled
    <3>1. acked' = acked
      BY <2>3 DEF Grown
    <3> QED BY <1>9, <2>1, <2>3, <3>1 DEF Ops, Flushed
  <2> QED BY <2>2, <2>3
<1>12. /\ \A g \in Callers \ C : OpOf(g)' = OpOf(g)
       /\ \A c \in C : pc[c] = "idle" /\ pc'[c] \in {"failed", "waiting"}
       /\ \A g \in Callers \ C : pc'[g] = IF rolled /\ pc[g] = "waiting" THEN "released" ELSE pc[g]
  BY DEF Grown, OpOf
<1>13. Flying' = IF rolled THEN Flying \cup ToSet(buf) ELSE Flying
  <2>1. Flying' = {OpOf(g)' : g \in {x \in Callers : pc'[x] = "released"}}
    BY DEF Flying
  <2>2. CASE rolled
    <3>1. {x \in Callers : pc'[x] = "released"} = {x \in Callers : pc[x] = "released"} \cup Waiting
      BY <1>12, <2>2 DEF Waiting
    <3>2. \A x \in Callers : pc'[x] = "released" => OpOf(x)' = OpOf(x)
      BY <1>12
    <3>3. \A e \in Flying' : e \in Flying \cup {OpOf(c) : c \in Waiting}
      BY <2>1, <3>1, <3>2 DEF Flying
    <3>4. \A e \in Flying \cup {OpOf(c) : c \in Waiting} : e \in Flying'
      <4>1. ASSUME NEW e \in Flying \cup {OpOf(c) : c \in Waiting}
            PROVE  e \in Flying'
        <5>1. PICK x \in {y \in Callers : pc[y] = "released"} \cup Waiting : e = OpOf(x)
          BY <4>1 DEF Flying
        <5>2. x \in Callers /\ pc'[x] = "released"
          BY <3>1, <5>1 DEF Waiting
        <5>3. OpOf(x)' = e
          BY <3>2, <5>1, <5>2
        <5> QED BY <2>1, <5>2, <5>3
      <4> QED BY <4>1
    <3> QED BY <1>10, <2>2, <3>3, <3>4
  <2>3. CASE ~ rolled
    <3>1. \A x \in Callers : pc'[x] = "released" <=> pc[x] = "released"
      BY <1>12, <2>3
    <3>2. \A x \in Callers : pc'[x] = "released" => OpOf(x)' = OpOf(x)
      BY <1>12
    <3> QED BY <2>1, <2>3, <3>1, <3>2 DEF Flying
  <2> QED BY <2>2, <2>3
<1>14. HistInv'
  <2>1. ToSet(buf') = {OpOf(c)' : c \in {g \in Callers : pc'[g] = "waiting"}}
    <3>1. New(C) = {OpOf(c)' : c \in {g \in C : pc'[g] = "waiting"}}
      BY DEF New, OpOf
    <3>2. CASE rolled
      <4>1. {g \in Callers : pc'[g] = "waiting"} = {g \in C : pc'[g] = "waiting"}
        BY <1>12, <3>2
      <4>2. ToSet(buf') = New(C)
        BY <3>2 DEF Grown
      <4> QED BY <3>1, <4>1, <4>2
    <3>3. CASE ~ rolled
      <4>1. {g \in Callers : pc'[g] = "waiting"} = Waiting \cup {g \in C : pc'[g] = "waiting"}
        BY <1>12, <3>3 DEF Waiting
      <4>2. \A g \in Waiting : OpOf(g)' = OpOf(g)
        BY <1>12 DEF Waiting
      <4>3. ToSet(buf') = {OpOf(c) : c \in Waiting} \cup New(C)
        BY <1>10, <3>3 DEF Grown
      <4>4. {OpOf(c)' : c \in Waiting} = {OpOf(c) : c \in Waiting}
        BY <4>2
      <4> QED BY <3>1, <4>1, <4>3, <4>4
    <3> QED BY <3>2, <3>3
  <2>2. \A e, f \in All' : e.lsn = f.lsn => e = f
    <3>1. \A e \in All, f \in New(C) : e.lsn # f.lsn
      BY <1>3, <1>5, <1>6
    <3> QED BY <1>2, <1>7, <3>1 DEF Grown, Numbered
  <2>3. All' = Ops' \cup ToSet(buf')
    BY <1>11 DEF Grown, Flushed, KeepInv, HistInv
  <2>4. \A e \in All' : e.lsn # 0
    BY <1>1, <1>3 DEF Grown, KeepInv, HistInv, Typed
  <2> QED BY <2>1, <2>2, <2>3, <2>4 DEF HistInv
<1>15. \A e \in All', f \in New(C) : e.lsn <= f.lsn
  <2>1. \A e \in All, f \in New(C) : e.lsn <= f.lsn
    <3> TAKE e \in All, f \in New(C)
    <3>1. e.lsn \in Nat /\ f.lsn \in Nat /\ e.lsn < f.lsn
      BY <1>4, <1>5, <1>6 DEF Entry
    <3> QED BY <3>1
  <2>2. \A e \in New(C), f \in New(C) : e.lsn <= f.lsn
    BY <1>1, <1>3 DEF Typed
  <2> QED BY <2>1, <2>2 DEF Grown
<1> QED BY <1>3, <1>4, <1>6, <1>7, <1>11, <1>13, <1>14, <1>15

\* The files and the map keep what they hold, and a snapshot covers no less.
LEMMA GrownKeep ==
  ASSUME IInv, IInv', StoreInv, StoreInv', KeepInv, Running,
         NEW rolled \in BOOLEAN, NEW C \in SUBSET Callers, Grown(rolled, C)
  PROVE  HistInv' /\ Headers' /\ CopyKeeps' /\ DiskKeeps' /\ MemoryKeeps'
<1>1. /\ Ops' = Flushed(rolled)
      /\ Flying' = IF rolled THEN Flying \cup ToSet(buf) ELSE Flying
      /\ HistInv'
  BY GrownOps
<1>2. Typed
  BY KeepTypes
<1>3. /\ UNCHANGED <<snapshot, mode, lastSnapshot, snap, files, replay, tmp, copied, snapFile>>
      /\ acked \subseteq acked'
      /\ DiskInv(segs', Flushed(rolled), snapshot)
  BY DEF Grown
<1>4. /\ \A l \in acked, b \in ToSet(buf) : l < b.lsn
      /\ ToSet(buf) \subseteq Entry /\ Ops \subseteq Entry
      /\ Later(Ops, ToSet(buf))
  BY <1>2, Numbers DEF KeepInv, Typed
<1>5. \A b \in ToSet(buf) : 0 < b.lsn /\ -1 < b.lsn
  <2>1. \A b \in ToSet(buf) : b.lsn \in Nat /\ b.lsn # 0
    BY <1>4 DEF KeepInv, HistInv, Entry
  <2> QED BY <2>1
<1>6. ASSUME NEW s, NEW H \in acked \cup {0, NoSnapshot}, Copied(s, H)
      PROVE  Copied(s, H)'
  <2>1. Covers(Ops, H, RestoreFrom(s)) /\ OnlyOps(RestoreFrom(s)) /\ Whole(s)
    BY <1>6 DEF Copied
  <2>2. OnlyOps(RestoreFrom(s))'
    BY <1>1, <2>1 DEF OnlyOps, Flushed
  <2>3. Covers(Ops', H, RestoreFrom(s))
    <3>1. H \in Int /\ \A b \in ToSet(buf) : H < b.lsn
      BY <1>2, <1>4, <1>5 DEF NoSnapshot, Typed
    <3>2. Covers(Ops \cup ToSet(buf), H, RestoreFrom(s))
      BY <1>4, <2>1, <3>1, CoversMore, Zenon
    <3> QED BY <1>1, <2>1, <3>2 DEF Flushed
  <2> QED BY <2>1, <2>2, <2>3 DEF Copied
<1>7. Headers'
  BY <1>3 DEF KeepInv, Headers
<1>8. CopyKeeps'
  <2>1. Copied(snapFile, snapshot)'
    <3>1. Copied(snapFile, snapshot) /\ snapshot \in acked \cup {0, NoSnapshot}
      BY DEF KeepInv, CopyKeeps, Headers
    <3>2. Covers(Ops', snapshot, RestoreFrom(snapFile)) /\ OnlyOps(RestoreFrom(snapFile))'
          /\ Whole(snapFile)
      <4>1. \A s, H : H \in acked \cup {0, NoSnapshot} /\ Copied(s, H) =>
              Covers(Ops', H, RestoreFrom(s)) /\ Whole(s)
              /\ \A x \in Names : RestoreFrom(s)[x] # None => \E e \in Ops' : e.data.name = x
        BY <1>6 DEF Copied, OnlyOps
      <4> QED BY <1>3, <3>1, <4>1 DEF OnlyOps
    <3> QED BY <1>3, <3>2 DEF Copied
  <2> QED BY <1>3, <1>6, <2>1 DEF CopyKeeps, KeepInv, Headers
<1>9. DiskKeeps'
  BY <1>1, <1>3 DEF DiskKeeps
<1>10. MemoryKeeps'
  <2>1. /\ Ordered(replay) /\ ToSet(replay) \subseteq Ops
        /\ Restores(Ops, Flying \cup ToSet(replay), files) /\ OnlyOps(files)
    BY DEF KeepInv, MemoryKeeps
  <2>2. Restores(Ops', Flying' \cup ToSet(replay), files)
    <3>1. Restores(Ops \cup ToSet(buf), (Flying \cup ToSet(replay)) \cup ToSet(buf), files)
      BY <1>4, <2>1, RestoresMore, Zenon
    <3>2. CASE rolled
      <4>1. (Flying \cup ToSet(replay)) \cup ToSet(buf) = Flying' \cup ToSet(replay)
        BY <1>1, <3>2
      <4> QED BY <1>1, <3>1, <3>2, <4>1 DEF Flushed
    <3>3. CASE ~ rolled
      BY <1>1, <2>1, <3>3 DEF Flushed
    <3> QED BY <3>2, <3>3
  <2>3. ToSet(replay) \subseteq Ops' /\ OnlyOps(files)'
    BY <1>1, <1>3, <2>1 DEF Flushed, OnlyOps
  <2> QED BY <1>3, <2>1, <2>2, <2>3 DEF MemoryKeeps
<1> QED BY <1>1, <1>7, <1>8, <1>9, <1>10

\* A tick of the flush timer is such a step.
LEMMA FlushKeep ==
  ASSUME IInv, IInv', StoreInv, StoreInv', KeepInv, MetaFlushTick
  PROVE  KeepInv'
<1>1. /\ Running /\ SetLog(flush(log)) /\ pc' = Released
      /\ acked' = acked \cup {lsn[c] : c \in Waiting}
      /\ UNCHANGED <<snapshot, mode, lastSequenceNo, lastSnapshot, lsn, snap, covered>>
      /\ UNCHANGED <<files, job, replay, tmp, copied, snapFile, hist, again>>
  BY DEF MetaFlushTick, FlushTick, storeVars
<1>2. Typed
  BY KeepTypes
<1>3. /\ Numbered(Ops) /\ ToSet(buf) \subseteq Entry /\ Later(Ops, ToSet(buf))
      /\ log.segs = segs /\ log.buf = buf /\ log.last = lastSegmentNo
  BY <1>2, Numbers DEF KeepInv, Typed, log
<1>4. lastSegmentNo \in Reach(segs)
  BY <1>1, <1>2, ReachLast DEF IInv, LiveSegment, Typed
<1>5. DiskInv(FlushTo(segs, log), Ops \cup ToSet(log.buf), snapshot)
  <2>1. IsDirectory(segs) /\ log.buf \in Seq(Entry) /\ log.last \in Reach(segs)
        /\ Later(Ops, ToSet(log.buf)) /\ Numbered(Ops) /\ DiskInv(segs, Ops, snapshot)
    BY <1>2, <1>3, <1>4 DEF Typed, KeepInv, DiskKeeps
  <2> QED BY <2>1, FlushDisk, Zenon
<1>6. segs' = FlushTo(segs, log) /\ buf' = << >>
  BY <1>1, <1>3 DEF SetLog, flush
<1>7. New({}) = {}
  BY DEF New
<1>8. Grown(TRUE, {})
  <2>1. ToSet(buf') = {}
    BY <1>6 DEF ToSet
  <2>2. All' = All
    BY <1>1 DEF All
  <2>3. \A g \in Callers : pc'[g] = IF pc[g] = "waiting" THEN "released" ELSE pc[g]
    BY <1>1 DEF Released, Waiting
  <2>4. DiskInv(segs', Flushed(TRUE), snapshot)
    BY <1>3, <1>5, <1>6 DEF Flushed
  <2> QED BY <1>1, <1>7, <2>1, <2>2, <2>3, <2>4 DEF Grown
<1>9. HistInv' /\ Headers' /\ CopyKeeps' /\ DiskKeeps' /\ MemoryKeeps'
  BY <1>1, <1>8, GrownKeep
<1>10. Repeats'
  BY <1>1 DEF KeepInv, Repeats
<1>11. AtWork'
  <2>1. All' = All
    BY <1>1 DEF All
  <2>2. \A c : OpOf(c)' = OpOf(c)
    BY <1>1 DEF OpOf
  <2>3. /\ \A c \in Callers : pc'[c] \in {"waiting", "released"} <=> pc[c] \in {"waiting", "released"}
        /\ \A c \in Callers : pc'[c] = "idle" <=> pc[c] = "idle"
        /\ \A c \in Callers : pc'[c] = "released" => pc[c] = "released" \/ c \in Waiting
    BY <1>1 DEF Released, Waiting
  <2>4. \A c \in Callers : pc'[c] = "released" => lsn'[c] \in acked'
    BY <1>1, <2>3 DEF KeepInv, AtWork
  <2> QED BY <1>1, <2>1, <2>2, <2>3, <2>4, RestorerAssumption DEF KeepInv, AtWork, Handlers
<1> QED BY <1>9, <1>10, <1>11 DEF KeepInv

\* An append with what the handler or restore records of it.
Appends(c, d) ==
  /\ AppendEntry(c, d)
  /\ job' = [job EXCEPT ![c] = d]
  /\ IF c = Restorer THEN again' = Logged(again, c, d) /\ UNCHANGED hist
                     ELSE hist' = Logged(hist, c, d) /\ UNCHANGED again
  /\ UNCHANGED <<files, replay, tmp, copied, snapFile>>

\* What an append adds to a sequence.
LEMMA AppendSet ==
  ASSUME NEW s \in Seq(Entry), NEW r \in Entry
  PROVE  ToSet(Append(s, r)) = ToSet(s) \cup {r}
<1> DEFINE t == <<r>>
<1>1. Append(s, r) = s \o t /\ t \in Seq(Entry) /\ ToSet(t) = {r}
  BY DEF ToSet
<1> HIDE DEF t
<1>2. ToSet(s \o t) = ToSet(s) \cup ToSet(t)
  BY <1>1, ToSetConcat
<1> QED BY <1>1, <1>2

\* Whatever rollovers it makes or fails to make, it is such a step.
LEMMA AppendGrown ==
  ASSUME IInv, StoreInv, KeepInv, MaxSegments # 1,
         NEW c \in Callers, NEW d \in Data, Appends(c, d)
  PROVE  /\ \E rolled \in BOOLEAN : Grown(rolled, {c})
         /\ Running /\ MayAppend(c) /\ job'[c] = d /\ job \in [Callers -> Data \cup {NoJob}]
         /\ \A g \in Callers \ {c} : job'[g] = job[g]
<1>1. /\ MayAppend(c)
      /\ job' = [job EXCEPT ![c] = d]
      /\ UNCHANGED <<snapshot, mode, lastSnapshot, snap, covered>>
      /\ UNCHANGED <<files, replay, tmp, copied, snapFile>>
  BY DEF Appends, AppendEntry, AppendFailsFirst, AppendFailsSecond, AppendSucceeds, disk
<1>2. Typed /\ lsn \in [Callers -> Nat]
      /\ pc \in [Callers -> {"idle", "waiting", "released", "failed"}]
  BY KeepTypes DEF IInv, TypeOK
<1>3. Running /\ pc[c] = "idle"
  BY <1>1 DEF MayAppend, Running
<1>4. job \in [Callers -> Data \cup {NoJob}] /\ d \in Data \cup {NoJob}
  BY DEF StoreInv, StoreTypeOK
<1>5. job'[c] = d /\ \A g \in Callers \ {c} : job'[g] = job[g]
  BY <1>1, <1>4
<1> DEFINE L == log
           A == AfterFirst(L, lastSnapshot)
           M == AfterSecond(L, d, lastSnapshot)
<1>6. /\ LogInv(L, acked, covered)
      /\ L.segs = segs /\ L.buf = buf
      /\ acked \in SUBSET Nat /\ covered \in Nat
      /\ lastSnapshot \in Nat /\ lastSnapshot <= covered
  BY <1>3, RunningLog
<1>7. /\ Numbered(Ops) /\ Ops \cup ToSet(buf) = All /\ Numbered(All)
      /\ \A e \in Ops : e.lsn \in acked
  BY Numbers DEF KeepInv, HistInv, Ops
<1>8. Published(All, lastSnapshot, snapshot)
  BY HeaderPublished
<1>9. DiskInv(segs, Ops, snapshot) /\ snapshot \in Int
  BY <1>2 DEF KeepInv, DiskKeeps, Typed
<1> HIDE DEF L
<1>10. ASSUME ~ (RollsFirst(L) /\ RollFails(L))
       PROVE  /\ DiskInv(A.segs, Flushed(RollsFirst(L)), snapshot)
              /\ RollsSecond(L, d) /\ ~ RollFails(A) => DiskInv(M.segs, Flushed(TRUE), snapshot)
              /\ ~ RollsSecond(L, d) => DiskInv(M.segs, Flushed(FALSE), snapshot)
  <2>1. Numbered(Ops \cup ToSet(L.buf)) /\ Published(Ops \cup ToSet(L.buf), lastSnapshot, snapshot)
        /\ DiskInv(L.segs, Ops, snapshot)
    BY <1>6, <1>7, <1>8, <1>9
  <2>2. /\ DiskInv(A.segs, Taken(L, Ops, RollsFirst(L)), snapshot)
        /\ RollsSecond(L, d) /\ ~ RollFails(A) => DiskInv(M.segs, Ops \cup ToSet(L.buf), snapshot)
        /\ ~ RollsSecond(L, d) => DiskInv(M.segs, Ops, snapshot)
    BY <1>6, <1>7, <1>9, <1>10, <2>1, AppendDisk, ZenonT(40)
  <2> QED BY <1>6, <2>2 DEF Taken, Flushed
<1>11. CASE AppendFailsFirst(c, d)
  <2>1. /\ pc' = [pc EXCEPT ![c] = "failed"]
        /\ UNCHANGED <<disk, mode, buf, counters, lastSnapshot, lsn, snap, acked, covered>>
    BY <1>11 DEF AppendFailsFirst
  <2>2. pc'[c] = "failed" /\ \A g \in Callers \ {c} : pc'[g] = pc[g]
    BY <1>2, <2>1
  <2>3. New({c}) = {}
    BY <2>2 DEF New
  <2>4. All' = All
    BY <2>2 DEF Appends, Logged, All
  <2>5. DiskInv(segs', Flushed(FALSE), snapshot)
    BY <1>9, <2>1 DEF disk, Flushed
  <2>6. Grown(FALSE, {c})
    BY <1>1, <1>3, <1>5, <2>1, <2>2, <2>3, <2>4, <2>5 DEF Grown
  <2> QED BY <1>1, <1>3, <1>4, <1>5, <2>6
<1>12. CASE AppendFailsSecond(c, d)
  <2>1. /\ ~ (RollsFirst(L) /\ RollFails(L))
        /\ segs' = A.segs /\ buf' = A.buf
        /\ pc' = IF RollsFirst(L) THEN [Released EXCEPT ![c] = "failed"] ELSE [pc EXCEPT ![c] = "failed"]
        /\ acked' = IF RollsFirst(L) THEN acked \cup {lsn[x] : x \in Waiting} ELSE acked
        /\ lsn' = lsn
    BY <1>12 DEF AppendFailsSecond, FirstRollFails, SetLog, L
  <2>2. /\ pc'[c] = "failed"
        /\ \A g \in Callers \ {c} :
             pc'[g] = IF RollsFirst(L) /\ pc[g] = "waiting" THEN "released" ELSE pc[g]
    BY <1>2, <2>1 DEF Released, Waiting
  <2>3. New({c}) = {}
    BY <2>2 DEF New
  <2>4. All' = All
    BY <2>2 DEF Appends, Logged, All
  <2>5. DiskInv(segs', Flushed(RollsFirst(L)), snapshot)
    BY <1>10, <2>1
  <2>6. ToSet(buf') = IF RollsFirst(L) THEN {} ELSE ToSet(buf)
    <3>1. RollsFirst(L) => A.buf = << >>
      BY DEF AfterFirst, addNewLogFile
    <3>2. ~ RollsFirst(L) => A.buf = buf
      BY <1>6 DEF AfterFirst
    <3>3. ToSet(<< >>) = {}
      BY DEF ToSet
    <3> QED BY <2>1, <3>1, <3>2, <3>3
  <2>7. Grown(RollsFirst(L), {c})
    BY <1>1, <1>3, <1>5, <2>1, <2>2, <2>3, <2>4, <2>5, <2>6 DEF Grown
  <2>8. RollsFirst(L) \in BOOLEAN
    BY DEF RollsFirst
  <2> QED BY <1>1, <1>3, <1>4, <1>5, <2>7, <2>8
<1>13. CASE AppendSucceeds(c, d)
  <2>1. /\ ~ (RollsFirst(L) /\ RollFails(L)) /\ ~ (RollsSecond(L, d) /\ RollFails(A))
        /\ segs' = Written(M, d, lastSequenceNo + 1).segs
        /\ buf' = Written(M, d, lastSequenceNo + 1).buf
        /\ pc' = IF RollsSecond(L, d) THEN [Released EXCEPT ![c] = "waiting"]
                                      ELSE [pc EXCEPT ![c] = "waiting"]
        /\ acked' = IF RollsSecond(L, d) THEN acked \cup {lsn[x] : x \in Waiting} ELSE acked
        /\ lsn' = [lsn EXCEPT ![c] = lastSequenceNo + 1]
    BY <1>13 DEF AppendSucceeds, FirstRollFails, SecondRollFails, SetLog, L
  <2>2. /\ pc'[c] = "waiting" /\ lsn'[c] = lastSequenceNo + 1
        /\ \A g \in Callers \ {c} :
             /\ lsn'[g] = lsn[g]
             /\ pc'[g] = IF RollsSecond(L, d) /\ pc[g] = "waiting" THEN "released" ELSE pc[g]
    BY <1>2, <2>1 DEF Released, Waiting
  <2> DEFINE r == [lsn |-> lastSequenceNo + 1, data |-> d]
  <2>3. New({c}) = {r}
    BY <1>5, <2>2 DEF New
  <2>4. All' = All \cup {r}
    BY <2>2 DEF Appends, Logged, All
  <2>5. segs' = M.segs /\ buf' = Append(M.buf, r)
    BY <2>1 DEF Written
  <2>6. DiskInv(segs', Flushed(RollsSecond(L, d)), snapshot)
    <3>1. CASE RollsSecond(L, d)
      <4>1. Flushed(RollsSecond(L, d)) = Flushed(TRUE)
        BY <3>1 DEF Flushed
      <4> QED BY <1>10, <2>1, <2>5, <3>1, <4>1
    <3>2. CASE ~ RollsSecond(L, d)
      <4>1. Flushed(RollsSecond(L, d)) = Flushed(FALSE)
        BY <3>2 DEF Flushed
      <4> QED BY <1>10, <2>1, <2>5, <3>2, <4>1
    <3> QED BY <3>1, <3>2
  <2>7. M.buf = IF RollsSecond(L, d) THEN << >> ELSE buf
    <3>1. RollsSecond(L, d) => M.buf = << >>
      BY DEF AfterSecond, addNewLogFile
    <3>2. ~ RollsSecond(L, d) => M = L
      <4>1. L.size \in Nat
        BY <1>6 DEF LogInv, IsLog
      <4>2. ~ RollsSecond(L, d) => ~ RollsFirst(L)
        BY <4>1, SizeAssumption, MaxSegmentSizeAssumption DEF RollsFirst, RollsSecond
      <4> QED BY <4>2 DEF AfterSecond, AfterFirst
    <3> QED BY <1>6, <3>1, <3>2
  <2>8. M.buf \in Seq(Entry) /\ r \in Entry
    BY <1>2, <2>7 DEF Typed, Entry
  <2> HIDE DEF r, M
  <2>9. ToSet(buf') = ToSet(M.buf) \cup {r}
    BY <2>5, <2>8, AppendSet
  <2>10. ToSet(buf') = (IF RollsSecond(L, d) THEN {} ELSE ToSet(buf)) \cup {r}
    <3>1. ToSet(<< >>) = {}
      BY DEF ToSet
    <3> QED BY <2>7, <2>9, <3>1
  <2>11. Grown(RollsSecond(L, d), {c})
    BY <1>1, <1>3, <1>5, <2>1, <2>2, <2>3, <2>4, <2>6, <2>10 DEF Grown
  <2>12. RollsSecond(L, d) \in BOOLEAN
    BY DEF RollsSecond
  <2> QED BY <1>1, <1>3, <1>4, <1>5, <2>11, <2>12
<1> QED BY <1>11, <1>12, <1>13 DEF Appends, AppendEntry

\* A handler's record is numbered above all others, and it alone is at its file.
LEMMA HandlerAppendKeep ==
  ASSUME IInv, IInv', StoreInv, StoreInv', KeepInv, NoRace', MaxSegments # 1,
         NEW h \in Handlers, NEW d \in Data, Appends(h, d)
  PROVE  KeepInv'
<1>1. h \in Callers /\ h # Restorer
  BY DEF Handlers
<1>2. PICK rolled \in BOOLEAN : Grown(rolled, {h})
  BY <1>1, AppendGrown
<1>3. /\ Running /\ MayAppend(h) /\ job'[h] = d
      /\ \A g \in Callers \ {h} : job'[g] = job[g]
  BY <1>1, AppendGrown
<1>4. /\ mode = "up" /\ replay = << >> /\ pc[Restorer] = "idle" /\ mode' = mode /\ replay' = replay
      /\ again' = again /\ hist' = Logged(hist, h, d)
  BY <1>1, <1>2, <1>3 DEF MayAppend, KeepInv, AtWork, Grown, Appends
<1>5. /\ \A e \in All, f \in New({h}) : e.lsn < f.lsn
      /\ \A e \in All', f \in New({h}) : e.lsn <= f.lsn
      /\ New({h}) \subseteq Entry /\ Ops' = Flushed(rolled)
  BY <1>1, <1>2, <1>3, GrownOps
<1>6. HistInv' /\ Headers' /\ CopyKeeps' /\ DiskKeeps' /\ MemoryKeeps'
  BY <1>1, <1>2, <1>3, GrownKeep
<1>7. All \subseteq Entry /\ All' = All \cup New({h})
  BY <1>2, KeepTypes DEF Typed, Grown
<1>8. Repeats'
  <2>1. hist' = hist \cup New({h})
    BY <1>3, <1>4 DEF Logged, New
  <2>2. \A k \in again : {f \in hist' : f.lsn < k.lsn} = {f \in hist : f.lsn < k.lsn}
    <3>1. ASSUME NEW k \in again, NEW f \in New({h}), f.lsn < k.lsn
          PROVE  FALSE
      <4>1. k \in All /\ k.lsn \in Nat /\ f.lsn \in Nat /\ k.lsn < f.lsn
        BY <1>5, <1>7 DEF All, Entry
      <4> QED BY <3>1, <4>1
    <3> QED BY <2>1, <3>1
  <2>3. \A k \in again, e \in hist' : e.lsn < k.lsn => e \in hist
    BY <2>2
  <2> QED BY <1>4, <2>2, <2>3 DEF KeepInv, Repeats
<1>9. AtWork'
  <2>1. \A g \in Callers \ {h} :
          /\ OpOf(g)' = OpOf(g)
          /\ pc'[g] \in {"waiting", "released"} => pc[g] \in {"waiting", "released"}
          /\ pc'[g] = "released" => pc[g] = "released" \/ (rolled /\ pc[g] = "waiting")
          /\ lsn'[g] = lsn[g]
    BY <1>2 DEF Grown, OpOf
  <2>2. pc'[Restorer] = "idle"
    BY <1>1, <1>2, <1>4, RestorerAssumption DEF Grown
  <2>3. pc'[h] \in {"failed", "waiting"}
    BY <1>2 DEF Grown
  <2>4. \A c \in Callers : pc'[c] = "released" => lsn'[c] \in acked'
    BY <1>2, <2>1, <2>3 DEF KeepInv, AtWork, Grown, Waiting
  <2>5. ASSUME NEW c \in Callers, pc'[c] \in {"waiting", "released"}
        PROVE  OpOf(c)' \in hist' /\ LastIn(All, OpOf(c))' /\ c # Restorer
    <3>1. c # Restorer
      BY <2>2, <2>5
    <3>2. CASE c = h
      <4>1. OpOf(c)' \in New({h})
        BY <2>3, <2>5, <3>2 DEF New, OpOf
      <4>2. OpOf(c)' \in hist'
        BY <1>4, <2>3, <2>5, <3>2, <1>3 DEF Logged, OpOf
      <4>3. \A f \in All' : f.lsn <= OpOf(c)'.lsn
        BY <1>5, <4>1
      <4> QED BY <3>1, <4>2, <4>3 DEF LastIn
    <3>3. CASE c # h
      <4>1. pc[c] \in {"waiting", "released"} /\ OpOf(c)' = OpOf(c)
        BY <2>1, <2>5, <3>3
      <4>2. OpOf(c) \in hist /\ LastIn(All, OpOf(c))
        BY <3>1, <4>1 DEF KeepInv, AtWork
      <4>3. OpOf(c) \in hist'
        BY <1>4, <4>2 DEF Logged
      <4>4. job'[c] # NoJob /\ job'[h] # NoJob /\ c \in Handlers
        BY <1>1, <2>3, <2>5, <3>1 DEF StoreInv, JobsInLog, Handlers
      <4>5. job'[c].name # job'[h].name
        BY <3>3, <4>4 DEF NoRace
      <4>6. \A f \in New({h}) : f.data.name = d.name
        BY <1>3 DEF New
      <4>7. OpOf(c).data = job'[c]
        BY <4>1 DEF OpOf
      <4>8. \A f \in All' : f.data.name = OpOf(c).data.name => f.lsn <= OpOf(c).lsn
        BY <1>3, <1>7, <4>2, <4>5, <4>6, <4>7 DEF LastIn
      <4> QED BY <3>1, <4>1, <4>3, <4>8 DEF LastIn
    <3> QED BY <3>2, <3>3
  <2> QED BY <1>4, <2>2, <2>4, <2>5 DEF AtWork
<1> QED BY <1>6, <1>8, <1>9 DEF KeepInv

\* A delete that replay logs again repeats a delete: if the last operation on the
\* file were an add, it would have to be in the map or still to come, and neither
\* is so when a delete is at the head of the replay.
LEMMA RelogKeep ==
  ASSUME IInv, IInv', StoreInv, StoreInv', KeepInv, RelogsInOrder, RelogsInOrder',
         MaxSegments # 1, NEW d \in Data, ApplyDelete(d)
  PROVE  KeepInv'
<1>1. /\ Appends(Restorer, d) /\ DeleteToReplay(d) /\ Restorer \in Callers
      /\ again' = Logged(again, Restorer, d) /\ hist' = hist /\ replay' = replay
  BY RestorerAssumption DEF ApplyDelete, Appends
<1>2. PICK rolled \in BOOLEAN : Grown(rolled, {Restorer})
  BY <1>1, AppendGrown
<1>3. /\ Running /\ MayAppend(Restorer) /\ job'[Restorer] = d
      /\ \A g \in Callers \ {Restorer} : job'[g] = job[g]
  BY <1>1, AppendGrown
<1>4. /\ mode = "restoring" /\ pc[Restorer] = "idle" /\ mode' = mode
      /\ \A h \in Handlers : pc[h] = "idle" /\ job[h] = NoJob
  BY <1>2, <1>3 DEF MayAppend, KeepInv, AtWork, Grown
<1>5. /\ \A e \in All, f \in New({Restorer}) : e.lsn < f.lsn
      /\ \A e \in All', f \in New({Restorer}) : e.lsn <= f.lsn
      /\ New({Restorer}) \subseteq Entry
  BY <1>1, <1>2, <1>3, GrownOps
<1>6. HistInv' /\ Headers' /\ CopyKeeps' /\ DiskKeeps' /\ MemoryKeeps'
  BY <1>1, <1>2, <1>3, GrownKeep
<1>7. All \subseteq Entry /\ All' = All \cup New({Restorer}) /\ Typed
  BY <1>2, KeepTypes DEF Typed, Grown
<1>8. \A g \in Callers : pc[g] = "idle"
  BY <1>4 DEF Handlers
<1>9. Flying = {} /\ ToSet(buf) = {} /\ All = Ops
  BY <1>8 DEF Flying, KeepInv, HistInv
<1>10. /\ Ordered(replay) /\ ToSet(replay) \subseteq Ops
       /\ Restores(Ops, ToSet(replay), files)
  BY <1>3, <1>9 DEF KeepInv, MemoryKeeps
<1>11. /\ replay # << >> /\ Head(replay).data.del /\ d.del
       /\ d.name = Head(replay).data.name /\ files[d.name] # None
  BY <1>1 DEF DeleteToReplay
<1>12. Head(replay) \in ToSet(replay) /\ ToSet(replay) = {Head(replay)} \cup ToSet(Tail(replay))
  BY <1>10, <1>11, ReplayHead
<1>13. \A q \in ToSet(replay) : q.data.name = d.name => q.data.del
  BY <1>1, <1>4, <1>11, <1>12 DEF RelogsInOrder
<1>14. pc'[Restorer] = "waiting"
  BY <1>2 DEF Grown, RelogsInOrder
<1>15. again' = again \cup New({Restorer})
  BY <1>1, <1>3, <1>14 DEF Logged, New
<1>16. ASSUME NEW e \in hist, LastIn(hist, e), e.data.name = d.name
       PROVE  e.data.del
  <2>1. e \in Ops /\ \A f \in Ops : f \in Entry
    BY <1>7, <1>9 DEF All, Typed
  <2>2. PICK f \in Ops : f.data.name = d.name /\ LastIn(Ops, f)
    <3>1. \A g \in Ops : g.lsn <= lastSequenceNo
      BY <1>3, <1>9, Numbers DEF KeepInv
    <3> QED BY <1>7, <1>16, <2>1, <3>1, LastExists DEF Typed
  <2>3. f.data.del
    <3>1. CASE f \in ToSet(replay)
      BY <1>13, <2>2, <3>1
    <3>2. CASE f \notin ToSet(replay)
      <4>1. files[d.name] = Eff(f.data) /\ Eff(Head(replay).data) = Eff(f.data)
        BY <1>10, <1>11, <1>12, <2>2, <3>2 DEF Restores
      <4>2. Eff(Head(replay).data) = None
        BY <1>11 DEF Eff
      <4> QED BY <1>11, <4>1, <4>2
    <3> QED BY <3>1, <3>2
  <2>4. e.lsn <= f.lsn /\ e.lsn \in Nat /\ f.lsn \in Nat
    BY <1>16, <2>1, <2>2 DEF LastIn, Entry
  <2>5. CASE e = f
    BY <2>3, <2>5
  <2>6. CASE e # f
    <3>1. e.lsn < f.lsn
      BY <2>1, <2>2, <2>4, <2>6 DEF KeepInv, HistInv, Ops
    <3>2. f \notin hist
      BY <1>16, <2>2, <2>4, <3>1 DEF LastIn
    <3>3. f \in again
      BY <2>2, <3>2 DEF Ops, All
    <3>4. LastIn({g \in hist : g.lsn < f.lsn}, e)
      BY <1>16 DEF LastIn
    <3> QED BY <1>16, <2>2, <3>1, <3>3, <3>4 DEF KeepInv, Repeats
  <2> QED BY <2>5, <2>6
<1>17. Repeats'
  <2>1. ASSUME NEW k \in again', NEW e \in hist,
               LastIn({f \in hist : f.lsn < k.lsn}, e), e.lsn < k.lsn, e.data.name = k.data.name
        PROVE  e.data.del
    <3>1. CASE k \in again
      BY <2>1, <3>1 DEF KeepInv, Repeats
    <3>2. CASE k \in New({Restorer})
      <4>1. {f \in hist : f.lsn < k.lsn} = hist
        BY <1>5, <3>2 DEF All
      <4>2. k.data = d
        BY <1>3, <3>2 DEF New
      <4> QED BY <1>16, <2>1, <4>1, <4>2
    <3> QED BY <1>15, <3>1, <3>2
  <2>2. \A k \in again' : k.data.del
    <3>1. \A k \in New({Restorer}) : k.data = d
      BY <1>3 DEF New
    <3> QED BY <1>11, <1>15, <3>1 DEF KeepInv, Repeats
  <2> QED BY <1>1, <2>1, <2>2 DEF Repeats
<1>18. AtWork'
  <2>1. \A h \in Handlers : pc'[h] = "idle" /\ job'[h] = NoJob
    BY <1>2, <1>3, <1>4 DEF Grown, Handlers
  <2>2. OpOf(Restorer)' \in again' /\ LastIn(All, OpOf(Restorer))'
    <3>1. OpOf(Restorer)' \in New({Restorer})
      BY <1>14 DEF New, OpOf
    <3>2. \A f \in All' : f.lsn <= OpOf(Restorer)'.lsn
      BY <1>5, <3>1
    <3> QED BY <1>15, <3>1, <3>2 DEF LastIn
  <2>3. \A c \in Callers : pc'[c] # "idle" => c = Restorer
    BY <2>1 DEF Handlers
  <2>4. /\ Head(replay').data.name = job'[Restorer].name /\ job'[Restorer].del
        /\ \A q \in ToSet(replay') : q.data.name = job'[Restorer].name => q.data.del
    BY <1>1, <1>3, <1>11, <1>13
  <2> QED BY <1>4, <1>14, <2>1, <2>2, <2>3, <2>4 DEF AtWork
<1> QED BY <1>6, <1>17, <1>18 DEF KeepInv

\* Adds and deletes of handlers are such steps; a delete that has found its file
\* has not logged yet.
LEMMA HandlerKeep ==
  ASSUME IInv, IInv', StoreInv, StoreInv', KeepInv, NoRace', MaxSegments # 1,
         \/ \E h \in Handlers, d \in Data : AddFileMetadata(h, d) \/ DeleteLookup(h, d)
         \/ \E h \in Handlers : DeleteAppend(h)
  PROVE  KeepInv'
<1>1. CASE \E h \in Handlers, d \in Data : AddFileMetadata(h, d)
  <2>1. PICK h \in Handlers, d \in Data : AddFileMetadata(h, d)
    BY <1>1
  <2>2. Appends(h, d)
    BY <2>1 DEF AddFileMetadata, Appends, Handlers
  <2> QED BY <2>1, <2>2, HandlerAppendKeep
<1>2. CASE \E h \in Handlers : DeleteAppend(h)
  <2>1. PICK h \in Handlers : DeleteAppend(h)
    BY <1>2
  <2>2. job \in [Callers -> Data \cup {NoJob}] /\ h \in Callers
    BY DEF StoreInv, StoreTypeOK, Handlers
  <2>3. job[h] \in Data
    BY <2>1, <2>2 DEF DeleteAppend
  <2>4. job' = [job EXCEPT ![h] = job[h]]
    BY <2>1, <2>2 DEF DeleteAppend
  <2>5. Appends(h, job[h])
    BY <2>1, <2>4 DEF DeleteAppend, Appends, Handlers
  <2> QED BY <2>3, <2>5, HandlerAppendKeep
<1>3. CASE \E h \in Handlers, d \in Data : DeleteLookup(h, d)
  <2>1. PICK h \in Handlers, d \in Data : DeleteLookup(h, d)
    BY <1>3
  <2>2. /\ UNCHANGED <<hist, again, acked, buf, pc, lsn, mode, replay, files>>
        /\ UNCHANGED <<tmp, copied, snapFile, segs, snapshot, lastSnapshot, snap>>
        /\ job' = [job EXCEPT ![h] = d] /\ pc[h] = "idle" /\ mode = "up"
    BY <2>1 DEF DeleteLookup, vars
  <2>3. job \in [Callers -> Data \cup {NoJob}] /\ h \in Callers /\ h # Restorer
    BY DEF StoreInv, StoreTypeOK, Handlers
  <2>4. /\ \A g \in Callers : pc[g] # "idle" => OpOf(g)' = OpOf(g)
        /\ job'[Restorer] = job[Restorer]
    BY <2>2, <2>3, RestorerAssumption DEF OpOf
  <2>5. All' = All /\ Ops' = Ops
    BY <2>2 DEF All, Ops
  <2>6. Flying' = Flying
    BY <2>2, <2>4 DEF Flying
  <2>7. Repeats' /\ Headers' /\ DiskKeeps'
    BY <2>2, <2>5 DEF KeepInv, Repeats, Headers, DiskKeeps
  <2>8. \A F : OnlyOps(F)' <=> OnlyOps(F)
    BY <2>5 DEF OnlyOps
  <2>9. CopyKeeps' /\ MemoryKeeps'
    BY <2>2, <2>5, <2>6, <2>8 DEF KeepInv, CopyKeeps, Copied, MemoryKeeps, Running
  <2>10. HistInv'
    <3>1. {OpOf(c)' : c \in {g \in Callers : pc'[g] = "waiting"}}
            = {OpOf(c) : c \in {g \in Callers : pc[g] = "waiting"}}
      BY <2>2, <2>4
    <3> QED BY <2>2, <2>5, <3>1 DEF KeepInv, HistInv
  <2>11. AtWork'
    BY <2>2, <2>4, <2>5 DEF KeepInv, AtWork
  <2> QED BY <2>7, <2>9, <2>10, <2>11 DEF KeepInv
<1> QED BY <1>1, <1>2, <1>3

----------------------------------------------------------------------------
(* AppendEntry returns *)

\* The operation takes effect in the map: it was the last one on its file.
LEMMA FinishKeep ==
  ASSUME IInv, IInv', StoreInv, KeepInv, NoRace, RelogsInOrder, NEW c \in Callers, Finish(c)
  PROVE  KeepInv'
<1>1. /\ pc[c] \in {"released", "failed"}
      /\ pc' = [pc EXCEPT ![c] = "idle"] /\ lsn' = [lsn EXCEPT ![c] = 0]
      /\ job' = [job EXCEPT ![c] = NoJob]
      /\ replay' = IF c = Restorer THEN Tail(replay) ELSE replay
      /\ UNCHANGED <<segs, snapshot, mode, buf, lastSnapshot, snap, acked>>
      /\ UNCHANGED <<tmp, copied, snapFile, hist, again>>
  BY DEF Finish, Return, disk
<1>2. Typed
  BY KeepTypes
<1>3. /\ job \in [Callers -> Data \cup {NoJob}] /\ lsn \in [Callers -> Nat]
      /\ pc \in [Callers -> {"idle", "waiting", "released", "failed"}]
      /\ job[c] # NoJob /\ job[c] \in Data
      /\ (c = Restorer => replay # << >>)
  BY <1>1 DEF StoreInv, StoreTypeOK, JobsInLog, IInv, TypeOK
<1>4. /\ pc'[c] = "idle" /\ job'[c] = NoJob
      /\ \A g \in Callers \ {c} : pc'[g] = pc[g] /\ job'[g] = job[g] /\ OpOf(g)' = OpOf(g)
                                  /\ lsn'[g] = lsn[g]
  BY <1>1, <1>3 DEF OpOf
<1>5. All' = All /\ Ops' = Ops
  BY <1>1 DEF All, Ops
<1>6. Running /\ (c = Restorer => mode = "restoring") /\ (c # Restorer => mode = "up")
  <2>1. c # Restorer => mode = "up"
    BY <1>1 DEF KeepInv, AtWork, Handlers
  <2>2. c = Restorer => mode = "restoring"
    BY <1>1 DEF KeepInv, AtWork
  <2> QED BY <2>1, <2>2 DEF Running
<1>7. Repeats' /\ Headers' /\ DiskKeeps'
  BY <1>1, <1>5 DEF KeepInv, Repeats, Headers, DiskKeeps
<1>8. \A F : OnlyOps(F)' <=> OnlyOps(F)
  BY <1>5 DEF OnlyOps
<1>9. CopyKeeps'
  BY <1>1, <1>5, <1>8 DEF KeepInv, CopyKeeps, Copied
<1>10. HistInv'
  <2>1. {g \in Callers : pc'[g] = "waiting"} = {g \in Callers : pc[g] = "waiting"}
    BY <1>1, <1>4
  <2>2. {OpOf(g)' : g \in {x \in Callers : pc'[x] = "waiting"}}
          = {OpOf(g) : g \in {x \in Callers : pc[x] = "waiting"}}
    BY <1>1, <1>4, <2>1
  <2> QED BY <1>1, <1>5, <2>2 DEF KeepInv, HistInv
<1>11. AtWork'
  <2>1. mode # "up" => \A h \in Handlers : pc'[h] = "idle" /\ job'[h] = NoJob
    BY <1>4 DEF KeepInv, AtWork, Handlers
  <2>2. mode # "restoring" => replay' = << >> /\ pc'[Restorer] = "idle"
    BY <1>1, <1>4, <1>6, RestorerAssumption DEF KeepInv, AtWork
  <2>3. \A g \in Callers : pc'[g] # "idle" => g # c
    BY <1>4
  <2>4. pc'[Restorer] # "idle" => replay' = replay /\ job'[Restorer] = job[Restorer]
                                  /\ pc[Restorer] # "idle"
    BY <1>1, <1>4, <2>3, RestorerAssumption
  <2> QED BY <1>1, <1>4, <1>5, <2>1, <2>2, <2>3, <2>4 DEF KeepInv, AtWork
<1>12. /\ Ordered(replay) /\ ToSet(replay) \subseteq Ops
       /\ Restores(Ops, Flying \cup ToSet(replay), files) /\ OnlyOps(files)
  BY <1>6 DEF KeepInv, MemoryKeeps
<1>13. CASE pc[c] = "failed"
  <2>1. c # Restorer
    BY <1>13 DEF RelogsInOrder
  <2>2. files' = files /\ replay' = replay
    BY <1>1, <1>13, <2>1 DEF Finish
  <2>3. Flying' = Flying
    <3>1. {g \in Callers : pc'[g] = "released"} = {g \in Callers : pc[g] = "released"}
      BY <1>4, <1>13
    <3>2. \A g \in Callers : pc[g] = "released" => OpOf(g)' = OpOf(g)
      BY <1>4, <1>13
    <3> QED BY <3>1, <3>2 DEF Flying
  <2>4. MemoryKeeps'
    BY <1>5, <1>8, <1>12, <2>2, <2>3 DEF MemoryKeeps
  <2> QED BY <1>7, <1>9, <1>10, <1>11, <2>4 DEF KeepInv
<1>14. CASE pc[c] = "released"
  <2> DEFINE e == OpOf(c)
  <2>1. /\ e \in All /\ LastIn(All, e) /\ e.lsn \in acked /\ e.data = job[c]
    BY <1>14 DEF KeepInv, AtWork, OpOf, All
  <2>2. e \in Ops /\ LastIn(Ops, e) /\ e \in Entry
    BY <1>2, <2>1 DEF Ops, Typed, LastIn
  <2>3. files' = Applied(files, e)
    BY <1>14, <2>1 DEF Finish, Applied
  <2>4. /\ Flying' \subseteq Flying
        /\ \A p \in Flying : p = e \/ p \in Flying'
    <3>1. \A g \in Callers : pc'[g] = "released" => pc[g] = "released" /\ OpOf(g)' = OpOf(g)
      BY <1>4
    <3>2. \A g \in Callers : pc[g] = "released" => g = c \/ (pc'[g] = "released" /\ OpOf(g)' = OpOf(g))
      BY <1>4
    <3>3. ASSUME NEW p \in Flying
          PROVE  p = e \/ p \in Flying'
      <4>1. PICK g \in Callers : pc[g] = "released" /\ p = OpOf(g)
        BY DEF Flying
      <4> QED BY <3>2, <4>1 DEF Flying
    <3>4. ASSUME NEW p \in Flying'
          PROVE  p \in Flying
      <4>1. PICK g \in Callers : pc'[g] = "released" /\ p = OpOf(g)'
        BY DEF Flying
      <4> QED BY <3>1, <4>1 DEF Flying
    <3> QED BY <3>3, <3>4
  <2>5. /\ ToSet(replay') \subseteq ToSet(replay) /\ Ordered(replay')
        /\ \A p \in ToSet(replay) : p \in ToSet(replay') \/ p.data.name = e.data.name
    <3>1. CASE c = Restorer
      <4>1. Ordered(Tail(replay)) /\ ToSet(replay) = {Head(replay)} \cup ToSet(Tail(replay))
        BY <1>3, <1>12, <3>1, ReplayHead
      <4>2. Head(replay).data.name = e.data.name
        BY <1>14, <2>1, <3>1 DEF KeepInv, AtWork
      <4> QED BY <1>1, <3>1, <4>1, <4>2
    <3>2. CASE c # Restorer
      BY <1>1, <1>12, <3>2
    <3> QED BY <3>1, <3>2
  <2>6. \A q \in Flying' \cup ToSet(replay') : q.data.name = e.data.name => Eff(q.data) = Eff(e.data)
    <3>1. CASE c = Restorer
      <4>1. \A g \in Callers : pc'[g] = "idle"
        BY <1>4, <1>6, <3>1 DEF KeepInv, AtWork, Handlers
      <4>2. Flying' = {}
        BY <4>1 DEF Flying
      <4>3. \A q \in ToSet(replay) : q.data.name = e.data.name => q.data.del
        BY <1>14, <2>1, <3>1 DEF KeepInv, AtWork
      <4>4. e.data.del
        BY <1>14, <2>1, <3>1 DEF KeepInv, AtWork
      <4> QED BY <2>5, <4>2, <4>3, <4>4 DEF Eff
    <3>2. CASE c # Restorer
      <4>1. replay' = << >> /\ pc[Restorer] = "idle" /\ c \in Handlers
        BY <1>1, <1>6, <3>2 DEF KeepInv, AtWork, Handlers
      <4>2. ToSet(replay') = {}
        BY <4>1 DEF ToSet
      <4>3. ASSUME NEW q \in Flying'
            PROVE  q.data.name # e.data.name
        <5>1. PICK g \in Callers : pc'[g] = "released" /\ q = OpOf(g)'
          BY DEF Flying
        <5>2. g # c /\ pc[g] = "released" /\ q.data = job[g]
          BY <1>4, <5>1 DEF OpOf
        <5>3. g \in Handlers /\ job[g] # NoJob
          BY <4>1, <5>2 DEF Handlers, StoreInv, JobsInLog
        <5> QED BY <1>3, <2>1, <4>1, <5>2, <5>3 DEF NoRace
      <4> QED BY <4>2, <4>3
    <3> QED BY <3>1, <3>2
  <2> HIDE DEF e
  <2>7. Restores(Ops, Flying' \cup ToSet(replay'), Applied(files, e))
    <3>1. Numbered(Ops) /\ files \in FileMap
      BY <1>2, Numbers DEF KeepInv, Typed
    <3>2. Flying' \cup ToSet(replay') \subseteq Flying \cup ToSet(replay)
      BY <2>4, <2>5
    <3>3. \A p \in Flying \cup ToSet(replay) :
            p \in Flying' \cup ToSet(replay') \/ p.data.name = e.data.name
      BY <2>4, <2>5
    <3> QED BY <1>12, <2>2, <2>6, <3>1, <3>2, <3>3, RestoresLast, Zenon
  <2>8. OnlyOps(files')
    <3>1. /\ e.data.name \in Names
          /\ \A x \in Names : Applied(files, e)[x] = IF x = e.data.name THEN Eff(e.data) ELSE files[x]
      BY <1>2, <2>2, AppliedIs DEF Typed
    <3> QED BY <1>12, <2>2, <2>3, <3>1 DEF OnlyOps
  <2>9. MemoryKeeps'
    BY <1>5, <1>12, <2>3, <2>5, <2>7, <2>8, <1>8 DEF MemoryKeeps, OnlyOps
  <2> QED BY <1>7, <1>9, <1>10, <1>11, <2>9 DEF KeepInv
<1> QED BY <1>1, <1>13, <1>14

----------------------------------------------------------------------------
(* Crashes *)

\* A crash inside AppendEntry keeps what was flushed before the first or the
\* second rollover; an operation is in the log when it is flushed.
LEMMA CrashOps ==
  ASSUME IInv, IInv', StoreInv, KeepInv, MaxSegments # 1,
         MetaCrash \/ \E c \in Callers, d \in Data : MetaCrashInRoll(c, d)
  PROVE  /\ \E rolled \in BOOLEAN :
              /\ Ops' = Flushed(rolled) /\ All' = Ops'
              /\ acked' = IF rolled THEN acked \cup {lsn[x] : x \in Waiting} ELSE acked
              /\ DiskInv(segs', Flushed(rolled), snapshot)
         /\ LoseMemory /\ LoseStore /\ Running /\ snapshot' = snapshot
<1>1. Typed
  BY KeepTypes
<1>2. LoseMemory /\ LoseStore /\ Running /\ snapshot' = snapshot
  BY DEF MetaCrash, Crash, MetaCrashInRoll, CrashInRoll, MayAppend, Running, disk
<1>3. ToSet(buf) = {OpOf(x) : x \in Waiting} /\ All = Ops \cup ToSet(buf)
  BY DEF KeepInv, HistInv, Waiting
<1>4. ASSUME acked' = acked \cup {lsn[x] : x \in Waiting}
      PROVE  Ops' = Ops \cup ToSet(buf) /\ All' = Ops'
  <2>1. \A e \in All : e.lsn \in acked'
    <3>1. \A b \in ToSet(buf) : b.lsn \in acked'
      BY <1>3, <1>4 DEF OpOf
    <3>2. \A e \in Ops : e.lsn \in acked'
      BY <1>4 DEF Ops
    <3> QED BY <1>3, <3>1, <3>2
  <2>2. hist' = hist /\ again' = again
    BY <1>2, <2>1 DEF LoseStore, All
  <2> QED BY <1>3, <2>1, <2>2 DEF All, Ops
<1>5. ASSUME acked' = acked
      PROVE  Ops' = Ops /\ All' = Ops'
  BY <1>2, <1>5 DEF All, Ops, LoseStore
<1> DEFINE L == log
<1>6. DiskInv(segs, Ops, snapshot) /\ snapshot \in Int
  BY <1>1 DEF KeepInv, DiskKeeps, Typed
<1>7. CASE MetaCrash
  <2>1. acked' = acked /\ segs' = segs
    BY <1>7 DEF MetaCrash, Crash, disk
  <2> QED BY <1>2, <1>5, <1>6, <2>1 DEF Flushed
<1>8. CASE \E c \in Callers, d \in Data : MetaCrashInRoll(c, d)
  <2>1. PICK c \in Callers, d \in Data : CrashInRoll(c, d)
    BY <1>8 DEF MetaCrashInRoll
  <2> DEFINE A == AfterFirst(L, lastSnapshot)
  <2>2. /\ LogInv(L, acked, covered)
        /\ L.segs = segs /\ L.buf = buf
        /\ acked \in SUBSET Nat /\ covered \in Nat
        /\ lastSnapshot \in Nat /\ lastSnapshot <= covered
    BY <1>2, RunningLog
  <2>3. ~ (RollsFirst(L) /\ RollFails(L))
    BY <2>1 DEF CrashInRoll, FirstRollFails
  <2>4. \/ /\ RollsFirst(L) /\ segs' \in RollStages(L) /\ acked' = acked
        \/ /\ RollsSecond(L, d) /\ ~ RollFails(A) /\ segs' \in RollStages(A)
           /\ acked' = IF RollsFirst(L) THEN acked \cup {lsn[x] : x \in Waiting} ELSE acked
    BY <2>1 DEF CrashInRoll, SecondRollFails
  <2> HIDE DEF L
  <2>5. /\ Numbered(Ops) /\ Numbered(Ops \cup ToSet(L.buf))
        /\ \A e \in Ops : e.lsn \in acked
        /\ Published(Ops \cup ToSet(L.buf), lastSnapshot, snapshot)
        /\ DiskInv(L.segs, Ops, snapshot)
    <3>1. Numbered(Ops) /\ Numbered(All) /\ \A e \in Ops : e.lsn \in acked
      BY Numbers DEF KeepInv, Ops
    <3>2. Published(All, lastSnapshot, snapshot)
      BY HeaderPublished
    <3> QED BY <1>3, <1>6, <2>2, <3>1, <3>2
  <2>6. /\ RollsFirst(L) => /\ DiskInv(RollRemoved(L, lastSnapshot), Ops, snapshot)
                            /\ DiskInv(RollCreated(L, lastSnapshot), Ops, snapshot)
        /\ RollsSecond(L, d) /\ ~ RollFails(A) =>
             /\ DiskInv(RollRemoved(A, lastSnapshot), Taken(L, Ops, RollsFirst(L)), snapshot)
             /\ DiskInv(RollCreated(A, lastSnapshot), Taken(L, Ops, RollsFirst(L)), snapshot)
    BY <1>6, <2>2, <2>3, <2>5, AppendDisk, ZenonT(40)
  <2> HIDE DEF A
  <2>7. CASE RollsFirst(L) /\ segs' \in RollStages(L) /\ acked' = acked
    <3>1. DiskInv(segs', Ops, snapshot)
      BY <2>6, <2>7 DEF RollStages
    <3> QED BY <1>2, <1>5, <2>7, <3>1 DEF Flushed
  <2>8. CASE /\ RollsSecond(L, d) /\ ~ RollFails(A) /\ segs' \in RollStages(A)
             /\ acked' = IF RollsFirst(L) THEN acked \cup {lsn[x] : x \in Waiting} ELSE acked
    <3>1. DiskInv(segs', Taken(L, Ops, RollsFirst(L)), snapshot)
      BY <2>6, <2>8 DEF RollStages
    <3>2. CASE RollsFirst(L)
      <4>1. Taken(L, Ops, RollsFirst(L)) = Flushed(TRUE)
        BY <2>2, <3>2 DEF Taken, Flushed
      <4>2. Ops' = Flushed(TRUE) /\ All' = Ops'
        BY <1>4, <2>8, <3>2 DEF Flushed
      <4> QED BY <1>2, <2>8, <3>1, <3>2, <4>1, <4>2
    <3>3. CASE ~ RollsFirst(L)
      <4>1. Taken(L, Ops, RollsFirst(L)) = Flushed(FALSE)
        BY <3>3 DEF Taken, Flushed
      <4>2. Ops' = Flushed(FALSE) /\ All' = Ops'
        BY <1>5, <2>8, <3>3 DEF Flushed
      <4> QED BY <1>2, <2>8, <3>1, <3>3, <4>1, <4>2
    <3> QED BY <3>2, <3>3
  <2> QED BY <2>4, <2>7, <2>8
<1> QED BY <1>7, <1>8

\* What is left of the invariant is what it says of the files.
LEMMA CrashKeep ==
  ASSUME IInv, IInv', StoreInv, KeepInv, MaxSegments # 1,
         MetaCrash \/ \E c \in Callers, d \in Data : MetaCrashInRoll(c, d)
  PROVE  KeepInv'
<1>1. Typed
  BY KeepTypes
<1>2. PICK rolled \in BOOLEAN :
        /\ Ops' = Flushed(rolled) /\ All' = Ops'
        /\ acked' = IF rolled THEN acked \cup {lsn[x] : x \in Waiting} ELSE acked
        /\ DiskInv(segs', Flushed(rolled), snapshot)
  BY CrashOps
<1>3. LoseMemory /\ LoseStore /\ Running /\ snapshot' = snapshot
  BY CrashOps
<1>4. /\ mode' = "down" /\ buf' = << >> /\ lastSnapshot' = 0 /\ snap' = SnapIdle
      /\ pc' = [c \in Callers |-> "idle"] /\ job' = [c \in Callers |-> NoJob]
      /\ replay' = << >> /\ tmp' = tmp /\ snapFile' = snapFile
      /\ hist' = {e \in hist : e.lsn \in acked'} /\ again' = {e \in again : e.lsn \in acked'}
  BY <1>3 DEF LoseMemory, LoseStore
<1>5. acked \subseteq acked'
  BY <1>2
<1>6. AtWork'
  BY <1>4, RestorerAssumption DEF AtWork, Handlers
<1>7. /\ \A l \in acked, b \in ToSet(buf) : l < b.lsn
      /\ ToSet(buf) \subseteq Entry /\ Ops \subseteq Entry
      /\ Later(Ops, ToSet(buf)) /\ ToSet(buf) \subseteq All
  BY <1>1, Numbers DEF KeepInv, Typed
<1>8. Repeats'
  <2>1. \A k \in again' : k \in again /\ k.data.del
    BY <1>4 DEF KeepInv, Repeats
  <2>2. ASSUME NEW k \in again', NEW f \in hist, f.lsn < k.lsn
        PROVE  f \in hist'
    <3>1. k \in again /\ k.lsn \in acked' /\ k \in All /\ f \in All
      BY <1>4 DEF All
    <3>2. f.lsn \in Nat /\ k.lsn \in Nat
      BY <1>1, <3>1 DEF Typed, Entry
    <3>3. CASE rolled
      <4>1. f \in Flushed(rolled)
        BY <3>1, <3>3 DEF Flushed, KeepInv, HistInv
      <4>2. f \in Ops'
        BY <1>2, <4>1
      <4> QED BY <1>4, <4>2 DEF Ops
    <3>4. CASE ~ rolled
      <4>1. k.lsn \in acked
        BY <1>2, <3>1, <3>4
      <4>2. f \notin ToSet(buf)
        BY <1>7, <2>2, <3>2, <4>1
      <4>3. f.lsn \in acked'
        BY <1>5, <3>1, <4>2 DEF KeepInv, HistInv, Ops
      <4> QED BY <1>4, <4>3
    <3> QED BY <3>3, <3>4
  <2>3. \A k \in again' : {f \in hist' : f.lsn < k.lsn} = {f \in hist : f.lsn < k.lsn}
    BY <1>4, <2>2
  <2>4. hist' \subseteq hist
    BY <1>4
  <2> QED BY <2>1, <2>3, <2>4 DEF KeepInv, Repeats
<1>9. HistInv'
  <2>1. ToSet(buf') = {} /\ {OpOf(c)' : c \in {g \in Callers : pc'[g] = "waiting"}} = {}
    BY <1>4 DEF ToSet
  <2>2. All' \subseteq All
    BY <1>4 DEF All
  <2> QED BY <1>2, <2>1, <2>2 DEF KeepInv, HistInv
<1>10. Headers'
  BY <1>3, <1>4, <1>5 DEF KeepInv, Headers, SnapIdle
<1>11. DiskKeeps'
  BY <1>2, <1>3 DEF DiskKeeps
<1>12. MemoryKeeps'
  BY <1>4 DEF MemoryKeeps, Running
<1>13. CopyKeeps'
  <2> DEFINE F == RestoreFrom(snapFile)
  <2>1. Covers(Ops, snapshot, F) /\ OnlyOps(F) /\ Whole(snapFile)
    BY DEF KeepInv, CopyKeeps, Copied
  <2>2. snapshot \in Int /\ \A b \in ToSet(buf) : snapshot < b.lsn
    <3>1. \A b \in ToSet(buf) : b.lsn \in Nat /\ b.lsn # 0
      BY <1>7 DEF KeepInv, HistInv, Entry
    <3> QED BY <1>1, <1>7, <3>1 DEF KeepInv, Headers, Typed, NoSnapshot
  <2>3. Covers(Ops \cup ToSet(buf), snapshot, F)
    BY <1>7, <2>1, <2>2, CoversMore, Zenon
  <2>4. Covers(Ops', snapshot, F)
    BY <1>2, <2>1, <2>3 DEF Flushed
  <2>5. \A x \in Names : F[x] # None => \E e \in Ops' : e.data.name = x
    BY <1>2, <2>1 DEF Flushed, OnlyOps
  <2> QED BY <1>3, <1>4, <2>1, <2>4, <2>5 DEF CopyKeeps, Copied, OnlyOps, SnapIdle
<1> QED BY <1>6, <1>8, <1>9, <1>10, <1>11, <1>12, <1>13 DEF KeepInv

\* KeepInv is inductive, relative to the invariant of the log, where the server
\* meets none of the flaws.
LEMMA NextKeep ==
  ASSUME MaxSegments # 1
  PROVE  Orderly /\ Orderly' /\ [CleanCopy]_allVars /\ IInv /\ IInv' /\ StoreInv /\ StoreInv'
           /\ KeepInv /\ [MetaNext]_allVars => KeepInv'
<1> SUFFICES ASSUME Orderly, Orderly', [CleanCopy]_allVars, IInv, IInv', StoreInv, StoreInv',
                    KeepInv, [MetaNext]_allVars
             PROVE  KeepInv'
  OBVIOUS
<1>1. CASE MetaBoot
  BY <1>1, BootKeep DEF Orderly
<1>2. CASE MetaBootFails \/ UNCHANGED allVars
  BY <1>2, StutterKeep
<1>3. CASE ApplyInMemory
  BY <1>3, ApplyKeep
<1>4. CASE MetaRestored
  BY <1>4, RestoredKeep
<1>5. CASE \E d \in Data : ApplyDelete(d)
  BY <1>5, RelogKeep DEF Orderly
<1>6. CASE \/ \E h \in Handlers, d \in Data : AddFileMetadata(h, d) \/ DeleteLookup(h, d)
           \/ \E h \in Handlers : DeleteAppend(h)
  BY <1>6, HandlerKeep DEF Orderly
<1>7. CASE \E c \in Callers : Finish(c)
  BY <1>7, FinishKeep DEF Orderly
<1>8. CASE MetaFlushTick
  BY <1>8, FlushKeep
<1>9. CASE MetaSnapBegin \/ MetaSnapFails \/ MetaSnapPublish \/ MetaSnapList
  BY <1>9, SnapStepKeep
<1>10. CASE Snapshot
  <2>1. CASE CleanCopy
    BY <1>10, <2>1, SnapshotKeep
  <2>2. CASE UNCHANGED allVars
    BY <2>2, StutterKeep
  <2> QED BY <2>1, <2>2
<1>11. CASE MetaSnapRename
  BY <1>11, RenameKeep
<1>12. CASE MetaCleanStep
  BY <1>12, CleanStepKeep
<1>13. CASE MetaCrash \/ \E c \in Callers, d \in Data : MetaCrashInRoll(c, d)
  BY <1>13, CrashKeep
<1> QED BY <1>1, <1>2, <1>3, <1>4, <1>5, <1>6, <1>7, <1>8, <1>9, <1>10, <1>11, <1>12, <1>13
        DEF MetaNext

----------------------------------------------------------------------------
(* What the invariant says of the map *)

\* Applied in order, entries leave of each file what the last one on it says.
LEMMA AppliedLast ==
  ASSUME NEW F \in FileMap, NEW s \in Seq(Entry), Ordered(s)
  PROVE  /\ FoldLeft(Applied, F, s) \in FileMap
         /\ \A x \in Names :
              /\ (\A p \in ToSet(s) : p.data.name # x) => FoldLeft(Applied, F, s)[x] = F[x]
              /\ \A e \in ToSet(s) : e.data.name = x /\ LastIn(ToSet(s), e)
                                       => FoldLeft(Applied, F, s)[x] = Eff(e.data)
<1> DEFINE n == Len(s)
           G == FoldLeft(Applied, F, s)
<1>1. n \in Nat /\ DOMAIN s = 1 .. n /\ \A k \in 1 .. n : s[k] \in Entry
  OBVIOUS
<1> HIDE DEF n
<1>2. PICK g : ApplySteps(g, n, F, s)
  BY <1>1, AppliesInSteps, Zenon
<1>3. g[0] = F /\ G = g[n] /\ \A k \in 1 .. n : g[k] = Applied(g[k - 1], s[k])
  BY <1>2 DEF ApplySteps
<1> HIDE DEF G
<1>4. \A k \in 0 .. n : g[k] \in FileMap
  <2> DEFINE T == {k \in 0 .. n : g[k] \notin FileMap}
  <2> SUFFICES ASSUME T # {} PROVE FALSE
    OBVIOUS
  <2>1. T \in SUBSET Nat
    BY <1>1
  <2>2. PICK k \in T : \A y \in T : k <= y
    BY <2>1, LeastExists, Zenon
  <2>3. k # 0
    BY <1>3, <2>2
  <2>4. k \in 1 .. n /\ k - 1 \in 0 .. n /\ ~ (k <= k - 1)
    BY <1>1, <2>3
  <2>5. g[k - 1] \in FileMap
    BY <2>2, <2>4
  <2>6. Applied(g[k - 1], s[k]) \in FileMap
    BY <1>1, <2>4, <2>5, AppliedTyped
  <2> QED BY <1>3, <2>2, <2>4, <2>6
<1>5. \A k \in 1 .. n, x \in Names :
        g[k][x] = IF s[k].data.name = x THEN Eff(s[k].data) ELSE g[k - 1][x]
  <2> TAKE k \in 1 .. n, x \in Names
  <2>1. k - 1 \in 0 .. n /\ s[k] \in Entry
    BY <1>1
  <2>2. g[k - 1] \in FileMap /\ g[k] = Applied(g[k - 1], s[k])
    BY <1>3, <1>4, <2>1
  <2>3. Applied(g[k - 1], s[k])[x] = IF x = s[k].data.name THEN Eff(s[k].data) ELSE g[k - 1][x]
    BY <2>1, <2>2, AppliedIs
  <2> QED BY <2>2, <2>3
<1>6. ASSUME NEW x \in Names, NEW k \in 0 .. n, \A j \in k + 1 .. n : s[j].data.name # x
      PROVE  G[x] = g[k][x]
  <2> DEFINE T == {j \in k .. n : g[j][x] # g[k][x]}
  <2>1. T = {}
    <3> SUFFICES ASSUME T # {} PROVE FALSE
      OBVIOUS
    <3>1. T \in SUBSET Nat
      BY <1>1
    <3>2. PICK j \in T : \A y \in T : j <= y
      BY <3>1, LeastExists, Zenon
    <3>3. j \in k .. n /\ j # k
      BY <3>2
    <3>4. j \in k + 1 .. n /\ j \in 1 .. n /\ j - 1 \in k .. n /\ ~ (j <= j - 1)
      BY <1>1, <3>3
    <3>5. g[j - 1][x] = g[k][x]
      BY <3>2, <3>4
    <3>6. g[j][x] = g[j - 1][x]
      BY <1>5, <1>6, <3>4
    <3> QED BY <3>2, <3>5, <3>6
  <2>2. n \in k .. n
    BY <1>1
  <2> QED BY <1>3, <2>1, <2>2
<1>7. ASSUME NEW x \in Names, \A p \in ToSet(s) : p.data.name # x
      PROVE  G[x] = F[x]
  <2>1. 0 \in 0 .. n /\ \A j \in 0 + 1 .. n : s[j].data.name # x
    BY <1>1, <1>7 DEF ToSet
  <2>2. G[x] = g[0][x]
    BY <1>6, <2>1
  <2> QED BY <1>3, <2>2
<1>8. ASSUME NEW x \in Names, NEW e \in ToSet(s), e.data.name = x, LastIn(ToSet(s), e)
      PROVE  G[x] = Eff(e.data)
  <2>1. PICK k \in 1 .. n : s[k] = e
    BY <1>1 DEF ToSet
  <2>2. ASSUME NEW j \in k + 1 .. n, s[j].data.name = x
        PROVE  FALSE
    <3>1. j \in 1 .. n /\ k < j
      BY <1>1
    <3>2. s[k].lsn < s[j].lsn /\ s[j] \in ToSet(s) /\ s[j].lsn \in Nat /\ s[k].lsn \in Nat
      BY <1>1, <3>1 DEF Ordered, ToSet, Entry
    <3>3. s[j].lsn <= s[k].lsn
      BY <1>8, <2>1, <2>2, <3>2 DEF LastIn
    <3> QED BY <3>2, <3>3
  <2>3. k \in 0 .. n
    BY <1>1
  <2>4. G[x] = g[k][x]
    BY <1>6, <2>2, <2>3
  <2> QED BY <1>5, <1>8, <2>1, <2>4
<1>9. G \in FileMap
  <2>1. n \in 0 .. n
    BY <1>1
  <2> QED BY <1>3, <1>4, <2>1
<1> QED BY <1>7, <1>8, <1>9 DEF G

\* Entries in order are numbered up to the last one.
LEMMA OrderedBounded ==
  ASSUME NEW s \in Seq(Entry), Ordered(s)
  PROVE  \E b \in Nat : \A q \in ToSet(s) : q.lsn <= b
<1>1. Len(s) \in Nat /\ DOMAIN s = 1 .. Len(s) /\ \A i \in 1 .. Len(s) : s[i] \in Entry
  OBVIOUS
<1>2. \A i \in 1 .. Len(s) : s[i].lsn \in Nat
  BY <1>1 DEF Entry
<1>3. CASE Len(s) = 0
  BY <1>1, <1>3 DEF ToSet
<1>4. CASE Len(s) # 0
  <2>1. Len(s) \in 1 .. Len(s)
    BY <1>1, <1>4
  <2>2. \A i \in 1 .. Len(s) : s[i].lsn <= s[Len(s)].lsn
    <3> TAKE i \in 1 .. Len(s)
    <3>1. i \in Nat /\ Len(s) \in Nat /\ i <= Len(s)
      BY <1>1
    <3>2. CASE i = Len(s)
      BY <1>2, <2>1, <3>2
    <3>3. CASE i # Len(s)
      <4>1. i < Len(s)
        BY <3>1, <3>3
      <4>2. s[i].lsn < s[Len(s)].lsn
        BY <1>1, <2>1, <4>1 DEF Ordered
      <4> QED BY <1>2, <2>1, <4>2
    <3> QED BY <3>2, <3>3
  <2> QED BY <1>1, <1>2, <2>1, <2>2 DEF ToSet
<1> QED BY <1>3, <1>4

\* F is what the operations O have made of the files, but for those of X.
MapOf(F, O, X) ==
  /\ F \in FileMap
  /\ \A x \in Names : (\A e \in O : e.data.name # x) => F[x] = None
  /\ \A e \in O : LastIn(O, e) => F[e.data.name] = Eff(e.data) \/ e \in X

\* There is one such map.
LEMMA SameMap ==
  ASSUME NEW O, O \subseteq Entry, NEW b \in Nat, \A e \in O : e.lsn <= b,
         NEW F, NEW G, MapOf(F, O, {}), MapOf(G, O, {})
  PROVE  F = G
<1>1. F \in FileMap /\ G \in FileMap
  BY DEF MapOf
<1>2. ASSUME NEW x \in Names
      PROVE  F[x] = G[x]
  <2>1. CASE \A e \in O : e.data.name # x
    BY <2>1 DEF MapOf
  <2>2. CASE \E e \in O : e.data.name = x
    <3>1. PICK e \in O : e.data.name = x
      BY <2>2
    <3>2. PICK f \in O : f.data.name = x /\ LastIn(O, f)
      BY <3>1, LastExists
    <3> QED BY <3>2 DEF MapOf
  <2> QED BY <2>1, <2>2
<1> QED BY <1>1, <1>2 DEF FileMap

\* The entries P still make up for the operations O that the map F has not.
Remade(O, P, F) ==
  \A e \in O : LastIn(O, e) =>
    \/ e \in P
    \/ /\ F[e.data.name] = Eff(e.data) \/ \E p \in P : p.data.name = e.data.name
       /\ \A p \in P : p.data.name = e.data.name => Eff(p.data) = Eff(e.data)

\* Applied to such a map, they give what the operations have made.
LEMMA AppliedMap ==
  ASSUME NEW F \in FileMap, NEW s \in Seq(Entry), Ordered(s),
         NEW O, O \subseteq Entry, ToSet(s) \subseteq O,
         Remade(O, ToSet(s), F),
         \A x \in Names : F[x] # None => \E e \in O : e.data.name = x
  PROVE  MapOf(FoldLeft(Applied, F, s), O, {})
<1> DEFINE G == FoldLeft(Applied, F, s)
<1>1. /\ G \in FileMap
      /\ \A x \in Names :
           /\ (\A p \in ToSet(s) : p.data.name # x) => G[x] = F[x]
           /\ \A e \in ToSet(s) : e.data.name = x /\ LastIn(ToSet(s), e) => G[x] = Eff(e.data)
  BY AppliedLast, Zenon
<1> HIDE DEF G
<1>2. \A e \in O : e.data.name \in Names
  <2> TAKE e \in O
  <2>1. e.data \in Data
    BY DEF Entry
  <2> QED BY <2>1, DataFields
<1>3. ASSUME NEW x \in Names, \A e \in O : e.data.name # x
      PROVE  G[x] = None
  BY <1>1, <1>3
<1>4. ASSUME NEW e \in O, LastIn(O, e)
      PROVE  G[e.data.name] = Eff(e.data)
  <2> DEFINE x == e.data.name
  <2>1. x \in Names
    BY <1>2
  <2>2. CASE e \in ToSet(s)
    <3>1. LastIn(ToSet(s), e)
      BY <1>4 DEF LastIn
    <3> QED BY <1>1, <2>1, <2>2, <3>1
  <2>3. CASE e \notin ToSet(s)
    <3>1. /\ F[x] = Eff(e.data) \/ \E p \in ToSet(s) : p.data.name = x
          /\ \A p \in ToSet(s) : p.data.name = x => Eff(p.data) = Eff(e.data)
      BY <1>4, <2>3 DEF Remade
    <3>2. CASE \A p \in ToSet(s) : p.data.name # x
      BY <1>1, <2>1, <3>1, <3>2
    <3>3. CASE \E p \in ToSet(s) : p.data.name = x
      <4>1. PICK p \in ToSet(s) : p.data.name = x
        BY <3>3
      <4>2. PICK b \in Nat : \A q \in ToSet(s) : q.lsn <= b
        BY OrderedBounded
      <4>3. PICK f \in ToSet(s) : f.data.name = x /\ LastIn(ToSet(s), f)
        BY <4>1, <4>2, LastExists
      <4> QED BY <1>1, <2>1, <3>1, <4>3
    <3> QED BY <3>2, <3>3
  <2> QED BY <2>2, <2>3
<1> QED BY <1>1, <1>3, <1>4 DEF MapOf, G

\* With nothing left to apply, the map stays as it is.
LEMMA AppliedNone ==
  ASSUME NEW F \in FileMap
  PROVE  FoldLeft(Applied, F, << >>) = F
<1>1. << >> \in Seq(Entry) /\ Ordered(<< >>) /\ ToSet(<< >>) = {}
  BY DEF Ordered, ToSet
<1>2. /\ FoldLeft(Applied, F, << >>) \in FileMap
      /\ \A x \in Names : (\A p \in ToSet(<< >>) : p.data.name # x)
                              => FoldLeft(Applied, F, << >>)[x] = F[x]
  BY <1>1, AppliedLast, Zenon
<1>3. \A x \in Names : FoldLeft(Applied, F, << >>)[x] = F[x]
  BY <1>1, <1>2
<1> QED BY <1>2, <1>3 DEF FileMap

\* What a restore makes of the files is what the flushed operations have made.
LEMMA DiskMap ==
  ASSUME IInv, StoreInv, KeepInv
  PROVE  MapOf(FoldLeft(Applied, RestoreFrom(snapFile), ReachEntries(segs)), Ops, {})
<1>1. Typed
  BY KeepTypes
<1> DEFINE F == RestoreFrom(snapFile)
           s == ReachEntries(segs)
<1>2. s \in Seq(Entry) /\ Ordered(s) /\ ToSet(s) = Reached(segs)
  BY DirRead
<1>3. /\ F \in FileMap /\ Ops \subseteq Entry /\ snapshot \in Int /\ Numbered(Ops)
      /\ Covers(Ops, snapshot, F) /\ OnlyOps(F) /\ DiskInv(segs, Ops, snapshot)
  BY <1>1, Numbers DEF Typed, KeepInv, CopyKeeps, Copied, DiskKeeps
<1> HIDE DEF F, s
<1>4. Restores(Ops, Reached(segs), F) /\ Reached(segs) \subseteq Ops
  BY <1>3, DiskRestores, Zenon
<1>5. Remade(Ops, ToSet(s), F)
  BY <1>2, <1>4 DEF Restores, Remade
<1>6. \A x \in Names : F[x] # None => \E e \in Ops : e.data.name = x
  BY <1>3 DEF OnlyOps
<1>7. ToSet(s) \subseteq Ops
  BY <1>2, <1>4
<1>8. MapOf(FoldLeft(Applied, F, s), Ops, {})
  BY <1>2, <1>3, <1>5, <1>6, <1>7, AppliedMap, Zenon
<1> QED BY <1>8 DEF F, s

\* The operations whose effect a running server still keeps from its clients.
Hidden == IF mode = "up" THEN Flying \cup ToSet(buf) ELSE {}

\* What a running server answers by, now or after the restore, is what the
\* operations in the log have made, flushed or not, but for those of the handlers
\* at work.  A delete that is logged again changes nothing: one of the same file
\* is at the head of the replay.
LEMMA RunningMap ==
  ASSUME IInv, StoreInv, KeepInv, Running, NEW rolled \in BOOLEAN
  PROVE  MapOf(Served, Flushed(rolled), Hidden)
<1>1. Typed
  BY KeepTypes
<1> DEFINE O == Flushed(rolled)
<1>2. /\ Ops \subseteq O /\ O \subseteq All /\ O \subseteq Entry
      /\ \A e \in O : e \in Ops \/ e \in ToSet(buf)
  BY <1>1, Numbers DEF Flushed, Typed, KeepInv
<1>3. /\ Ordered(replay) /\ ToSet(replay) \subseteq Ops
      /\ Restores(Ops, Flying \cup ToSet(replay), files) /\ OnlyOps(files)
      /\ files \in FileMap /\ replay \in Seq(Entry)
  BY <1>1 DEF KeepInv, MemoryKeeps, Typed
<1> HIDE DEF O
<1>4. ASSUME NEW e \in O, LastIn(O, e)
      PROVE  \/ e \in Flying \cup ToSet(buf) \cup ToSet(replay)
             \/ /\ files[e.data.name] = Eff(e.data)
                /\ \A p \in ToSet(replay) : p.data.name = e.data.name => Eff(p.data) = Eff(e.data)
  <2>1. CASE e \in ToSet(buf)
    BY <2>1
  <2>2. CASE e \in Ops
    <3>1. LastIn(Ops, e)
      BY <1>2, <1>4 DEF LastIn
    <3> QED BY <1>3, <2>2, <3>1 DEF Restores
  <2> QED BY <1>2, <2>1, <2>2
<1>5. \A x \in Names : files[x] # None => \E e \in O : e.data.name = x
  BY <1>2, <1>3 DEF OnlyOps
<1>6. CASE mode = "up"
  <2>1. ToSet(replay) = {} /\ Served = files /\ Hidden = Flying \cup ToSet(buf)
    BY <1>6 DEF KeepInv, AtWork, Served, ToSet, Hidden
  <2> QED BY <1>3, <1>4, <1>5, <2>1 DEF MapOf, O
<1>7. CASE mode = "restoring"
  <2>1. Served = FoldLeft(Applied, files, replay) /\ Hidden = {}
    BY <1>7 DEF Served, Hidden
  <2>2. ASSUME NEW e \in Flying \cup ToSet(buf)
        PROVE  /\ \E p \in ToSet(replay) : p.data.name = e.data.name
               /\ \A p \in ToSet(replay) : p.data.name = e.data.name => Eff(p.data) = Eff(e.data)
    <3>1. PICK c \in Callers : pc[c] \in {"waiting", "released"} /\ e = OpOf(c)
      BY DEF Flying, KeepInv, HistInv
    <3>2. c = Restorer /\ e.data = job[Restorer] /\ pc[Restorer] # "idle"
      BY <1>7, <3>1 DEF KeepInv, AtWork, Handlers, OpOf
    <3>3. /\ Head(replay).data.name = e.data.name /\ e.data.del
          /\ \A q \in ToSet(replay) : q.data.name = e.data.name => q.data.del
      BY <3>2 DEF KeepInv, AtWork
    <3>4. replay # << >>
      BY <3>2 DEF StoreInv, JobsInLog
    <3>5. Head(replay) \in ToSet(replay)
      BY <1>3, <3>4, ReplayHead
    <3> QED BY <3>3, <3>5 DEF Eff
  <2>3. Remade(O, ToSet(replay), files)
    BY <1>4, <2>2 DEF Remade
  <2>4. ToSet(replay) \subseteq O
    BY <1>2, <1>3
  <2>5. MapOf(FoldLeft(Applied, files, replay), O, {})
    BY <1>2, <1>3, <1>5, <2>3, <2>4, AppliedMap, Zenon
  <2> QED BY <2>1, <2>5 DEF O
<1> QED BY <1>6, <1>7 DEF Running

\* Of a running server the numbers of the operations have a bound.
LEMMA Bounded ==
  ASSUME IInv, StoreInv, KeepInv, Running
  PROVE  Ops \subseteq Entry /\ lastSequenceNo \in Nat /\ \A e \in Ops : e.lsn <= lastSequenceNo
BY KeepTypes, Numbers DEF KeepInv, Typed

\* When no handler is at work the map is what the operations have made.
LEMMA QuietMap ==
  ASSUME IInv, StoreInv, KeepInv, Quiet
  PROVE  MapOf(files, Ops, {}) /\ All = Ops /\ Running
<1>1. \A c \in Callers : pc[c] = "idle"
  BY DEF Quiet, Handlers, StoreInv, JobsInLog, KeepInv, AtWork
<1>2. Flying = {} /\ ToSet(buf) = {} /\ Running /\ mode = "up"
  BY <1>1 DEF Flying, KeepInv, HistInv, Running, Quiet
<1>3. Served = files /\ Hidden = {} /\ Flushed(FALSE) = Ops /\ All = Ops
  BY <1>2 DEF Served, Hidden, Flushed, KeepInv, HistInv
<1>4. MapOf(Served, Flushed(FALSE), Hidden)
  BY <1>2, RunningMap
<1> QED BY <1>2, <1>3, <1>4

\* The map answers by the last operation of a client, as what is logged again
\* repeats it.
LEMMA KeepDurable ==
  ASSUME IInv, StoreInv, KeepInv
  PROVE  Durable
<1> SUFFICES ASSUME Quiet, NEW e \in hist, e.lsn \in acked, LastOnFile(e)
             PROVE  files[e.data.name] = Eff(e.data)
  BY DEF Durable, Eff
<1>1. MapOf(files, Ops, {}) /\ All = Ops /\ Running
  BY QuietMap
<1>2. e \in Ops
  BY <1>1 DEF All
<1>3. /\ Ops \subseteq Entry /\ lastSequenceNo \in Nat
      /\ \A f \in Ops : f.lsn <= lastSequenceNo
  BY <1>1, Bounded
<1>4. PICK f \in Ops : f.data.name = e.data.name /\ LastIn(Ops, f)
  BY <1>2, <1>3, LastExists
<1>5. files[e.data.name] = Eff(f.data)
  BY <1>1, <1>4 DEF MapOf
<1>6. e.lsn <= f.lsn /\ e.lsn \in Nat /\ f.lsn \in Nat
  BY <1>2, <1>3, <1>4 DEF LastIn, Entry
<1>7. CASE e = f
  BY <1>5, <1>7
<1>8. CASE e # f
  <2>1. e.lsn < f.lsn
    BY <1>1, <1>2, <1>6, <1>8 DEF KeepInv, HistInv
  <2>2. f \notin hist
    BY <1>4, <1>6, <2>1 DEF LastOnFile
  <2>3. f \in again
    BY <1>1, <2>2 DEF All
  <2>4. LastIn({g \in hist : g.lsn < f.lsn}, e)
    BY DEF LastIn, LastOnFile
  <2>5. e.data.del /\ f.data.del
    BY <1>4, <2>1, <2>3, <2>4 DEF KeepInv, Repeats
  <2> QED BY <1>5, <2>5 DEF Eff
<1> QED BY <1>7, <1>8

\* The files, read as restore reads them, give the same map as the memory: both
\* are what the operations have made.
LEMMA KeepReplay ==
  ASSUME IInv, StoreInv, KeepInv
  PROVE  ReplayAgrees
<1> SUFFICES ASSUME Quiet, Readable(segs)
             PROVE  /\ Whole(snapFile)
                    /\ FoldLeft(Applied, RestoreFrom(snapFile), AllEntries(segs)) = files
  BY DEF ReplayAgrees
<1>1. Whole(snapFile)
  BY DEF KeepInv, CopyKeeps, Copied
<1>2. AllEntries(segs) = ReachEntries(segs)
  BY DirRead
<1>3. MapOf(files, Ops, {}) /\ Running
  BY QuietMap
<1>4. /\ Ops \subseteq Entry /\ lastSequenceNo \in Nat
      /\ \A f \in Ops : f.lsn <= lastSequenceNo
  BY <1>3, Bounded
<1>5. FoldLeft(Applied, RestoreFrom(snapFile), ReachEntries(segs)) = files
  BY <1>3, <1>4, DiskMap, SameMap, Zenon
<1> QED BY <1>1, <1>2, <1>5

----------------------------------------------------------------------------
(* The steps of the server, seen from the map MetaStore *)

Sound == IInv /\ StoreInv /\ KeepInv /\ Orderly

\* The map of a running server, as an implication that can be primed.
LEMMA UpMap == Sound => (Running => MapOf(Served, Ops, Hidden))
<1> SUFFICES ASSUME Sound, Running
             PROVE  MapOf(Served, Ops, Hidden)
  OBVIOUS
<1>1. MapOf(Served, Flushed(FALSE), Hidden)
  BY RunningMap DEF Sound
<1> QED BY <1>1 DEF Flushed

\* The map of a stopped server: without a snapshot nothing has been flushed.
LEMMA DownMap == Sound => (mode = "down" => MapOf(Served, Ops, {}))
<1> SUFFICES ASSUME Sound, mode = "down"
             PROVE  MapOf(Served, Ops, {})
  OBVIOUS
<1>1. Served = OnDisk
  BY DEF Served
<1>2. CASE snapshot = NoSnapshot
  <2>1. Served = NoFiles /\ Ops = {}
    BY <1>1, <1>2 DEF OnDisk, Ops, Sound, Orderly, SnapshotInTime
  <2>2. NoFiles \in FileMap /\ \A x \in Names : NoFiles[x] = None
    BY DEF NoFiles, FileMap
  <2> QED BY <2>1, <2>2 DEF MapOf
<1>3. CASE snapshot # NoSnapshot
  <2>1. Served = FoldLeft(Applied, RestoreFrom(snapFile), ReachEntries(segs))
    BY <1>1, <1>3 DEF OnDisk
  <2> QED BY <2>1, DiskMap DEF Sound
<1> QED BY <1>2, <1>3

\* While restore goes on, what it has applied and what it has still to apply are
\* the same map.
LEMMA RestoringServed ==
  ASSUME Sound, Sound', mode = "restoring", mode' = "restoring",
         UNCHANGED <<hist, again, acked>>
  PROVE  Served' = Served
<1>1. Running /\ Running' /\ Hidden = {} /\ Hidden' = {} /\ Ops' = Ops
  BY DEF Running, Hidden, Ops, All
<1>2. MapOf(Served, Ops, {})
  BY <1>1, UpMap
<1>3. MapOf(Served', Ops, {})
  <2>1. (Sound => (Running => MapOf(Served, Ops, Hidden)))'
    BY UpMap, PTL
  <2>2. MapOf(Served', Ops', Hidden')
    BY <1>1, <2>1
  <2> QED BY <1>1, <2>2
<1>4. /\ Ops \subseteq Entry /\ lastSequenceNo \in Nat
      /\ \A e \in Ops : e.lsn <= lastSequenceNo
  BY <1>1, Bounded DEF Sound
<1> QED BY <1>2, <1>3, <1>4, SameMap, Zenon

\* The start of a process: what was on disk is served again.
LEMMA BootMaps ==
  ASSUME Sound, Sound', MetaBoot \/ ApplyInMemory \/ MetaRestored
  PROVE  [Store!Next]_(Store!mapVars)
<1>1. Begun' = Begun
  BY DEF MetaBoot, ApplyInMemory, MetaRestored, storeVars, Begun
<1>2. CASE MetaBoot /\ snapshot = NoSnapshot
  <2>1. mode = "down" /\ mode' = "up" /\ files' = NoFiles
    BY <1>2 DEF MetaBoot, Boot
  <2>2. Served = NoFiles /\ Served' = files'
    BY <1>2, <2>1 DEF Served, OnDisk
  <2> QED BY <1>1, <2>1, <2>2 DEF Store!Next, Store!Restart
<1>3. CASE MetaBoot /\ snapshot # NoSnapshot
  <2>1. /\ mode = "down" /\ mode' = "restoring" /\ CanBoot
        /\ files' = RestoreFrom(snapFile) /\ replay' = AllEntries(segs)
    BY <1>3 DEF MetaBoot, Boot
  <2>2. segs # EmptyDirectory => Readable(segs)
    BY <1>3, <2>1 DEF CanBoot
  <2>3. AllEntries(segs) = ReachEntries(segs)
    BY <2>2, DirRead DEF Sound
  <2>4. Served = FoldLeft(Applied, RestoreFrom(snapFile), ReachEntries(segs))
    BY <1>3, <2>1 DEF Served, OnDisk
  <2>5. Served' = FoldLeft(Applied, files', replay')
    BY <2>1 DEF Served
  <2>6. Served' = Served
    BY <2>1, <2>3, <2>4, <2>5
  <2> QED BY <1>1, <2>1, <2>6 DEF Store!mapVars
<1>4. CASE ApplyInMemory
  <2>1. /\ mode = "restoring" /\ mode' = "restoring"
        /\ UNCHANGED <<hist, again, acked>>
    BY <1>4 DEF ApplyInMemory, vars
  <2>2. Served' = Served
    BY <2>1, RestoringServed
  <2> QED BY <1>1, <2>1, <2>2 DEF Store!mapVars
<1>5. CASE MetaRestored
  <2>1. /\ mode = "restoring" /\ mode' = "up"
        /\ replay = << >> /\ files' = files
    BY <1>5 DEF MetaRestored, Restored, storeVars
  <2>2. files \in FileMap
    BY DEF Sound, StoreInv, StoreTypeOK, FileMap
  <2>3. Served = files /\ Served' = files'
    BY <2>1, <2>2, AppliedNone DEF Served
  <2> QED BY <1>1, <2>1, <2>3 DEF Store!Next, Store!Restart
<1> QED BY <1>2, <1>3, <1>4, <1>5

\* An operation begins with the look-up of a delete or the append of an add; the
\* append of the delete changes nothing that a client can see.
LEMMA BeginMaps ==
  ASSUME Sound,
         \/ \E h \in Handlers, d \in Data : AddFileMetadata(h, d) \/ DeleteLookup(h, d)
         \/ \E h \in Handlers : DeleteAppend(h)
         \/ \E d \in Data : ApplyDelete(d)
  PROVE  [Store!Next]_(Store!mapVars)
<1>1. ASSUME NEW h \in Handlers, NEW d \in Data, AddFileMetadata(h, d) \/ DeleteLookup(h, d)
      PROVE  Store!Begin(h)
  <2>1. /\ mode = "up" /\ mode' = mode /\ files' = files
        /\ job[h] = NoJob /\ job' = [job EXCEPT ![h] = d]
    BY <1>1 DEF AddFileMetadata, DeleteLookup, vars, AppendEntry, AppendFailsFirst,
                AppendFailsSecond, AppendSucceeds, MayAppend, Handlers
  <2>2. Served' = Served
    BY <2>1 DEF Served
  <2>3. Begun[h] = NoJob /\ Begun' = [Begun EXCEPT ![h] = d]
    BY <2>1 DEF Begun, Handlers, Sound, StoreInv, StoreTypeOK
  <2>4. d \in Store!Ops
    BY DataAssumption DEF Store!Ops
  <2> QED BY <2>1, <2>2, <2>3, <2>4 DEF Store!Begin
<1>2. ASSUME NEW h \in Handlers, DeleteAppend(h)
      PROVE  UNCHANGED Store!mapVars
  <2>1. /\ mode = "up" /\ mode' = mode /\ files' = files /\ job' = job
    BY <1>2 DEF DeleteAppend, AppendEntry, AppendFailsFirst, AppendFailsSecond,
                AppendSucceeds, MayAppend, Handlers
  <2> QED BY <2>1 DEF Served, Begun, Store!mapVars
<1>3. ASSUME NEW d \in Data, ApplyDelete(d)
      PROVE  UNCHANGED Store!mapVars
  <2>1. /\ mode = "restoring" /\ mode' = mode /\ files' = files /\ replay' = replay
        /\ job' = [job EXCEPT ![Restorer] = d]
    BY <1>3 DEF ApplyDelete, AppendEntry, AppendFailsFirst, AppendFailsSecond,
                AppendSucceeds, MayAppend
  <2>2. Begun' = Begun
    BY <2>1, RestorerAssumption DEF Begun, Handlers, Sound, StoreInv, StoreTypeOK
  <2> QED BY <2>1, <2>2 DEF Served, Store!mapVars
<1> QED BY <1>1, <1>2, <1>3 DEF Store!Next

\* It takes effect, or fails, when the handler returns from the log.
LEMMA FinishMaps ==
  ASSUME Sound, Sound', NEW c \in Callers, Finish(c)
  PROVE  [Store!Next]_(Store!mapVars)
<1>1. /\ pc[c] \in {"released", "failed"} /\ mode' = mode /\ UNCHANGED <<hist, again, acked>>
      /\ job' = [job EXCEPT ![c] = NoJob]
  BY DEF Finish, Return
<1>2. CASE c \in Handlers
  <2>1. mode = "up" /\ mode' = "up"
    BY <1>1, <1>2 DEF Sound, KeepInv, AtWork
  <2>2. job[c] # NoJob /\ job[c] \in Data
    BY <1>1 DEF Sound, StoreInv, StoreTypeOK, JobsInLog
  <2>3. Served = files /\ Served' = files'
    BY <2>1 DEF Served
  <2>4. Begun[c] = job[c] /\ Begun' = [Begun EXCEPT ![c] = NoJob]
    BY <1>1, <1>2 DEF Begun, Handlers, Sound, StoreInv, StoreTypeOK
  <2>5. CASE pc[c] = "failed"
    <3>1. files' = files
      BY <2>5 DEF Finish
    <3> QED BY <1>2, <2>1, <2>2, <2>3, <2>4, <3>1 DEF Store!Next, Store!Drop
  <2>6. CASE pc[c] = "released"
    <3>1. files' = IF job[c].del THEN [files EXCEPT ![job[c].name] = None]
                   ELSE [files EXCEPT ![job[c].name] = job[c].meta]
      BY <2>6 DEF Finish, Added
    <3>2. files' = Store!Effect(files, job[c])
      BY <3>1 DEF Store!Effect
    <3> QED BY <1>2, <2>1, <2>2, <2>3, <2>4, <3>2 DEF Store!Next, Store!Commit
  <2> QED BY <1>1, <2>5, <2>6
<1>3. CASE c \notin Handlers
  <2>1. c = Restorer
    BY <1>3 DEF Handlers
  <2>2. mode = "restoring"
    BY <1>1, <2>1 DEF Sound, KeepInv, AtWork
  <2>3. Served' = Served
    BY <1>1, <2>2, RestoringServed
  <2>4. Begun' = Begun
    BY <1>1, <2>1, RestorerAssumption DEF Begun, Handlers, Sound, StoreInv, StoreTypeOK
  <2> QED BY <1>1, <2>3, <2>4 DEF Store!mapVars
<1> QED BY <1>2, <1>3

\* The log, the snapshots and the cleanup, seen from the map: nothing.
LEMMA LogMaps ==
  ASSUME Sound,
         \/ MetaFlushTick \/ MetaSnapBegin \/ Snapshot \/ MetaSnapFails \/ MetaSnapRename
         \/ MetaSnapPublish \/ MetaSnapList \/ MetaCleanStep
  PROVE  [Store!Next]_(Store!mapVars)
<1>1. mode' = mode /\ files' = files /\ replay' = replay /\ job' = job
  BY DEF MetaFlushTick, MetaSnapBegin, Snapshot, MetaSnapFails, MetaSnapRename, MetaSnapPublish,
         MetaSnapList, MetaCleanStep, FlushTick, SnapBegin, SnapFails, SnapRename, SnapPublish,
         SnapList, CleanStep, vars, storeVars
<1>2. mode \in {"restoring", "up"}
  BY DEF MetaFlushTick, MetaSnapBegin, Snapshot, MetaSnapFails, MetaSnapRename, MetaSnapPublish,
         MetaSnapList, MetaCleanStep, FlushTick, SnapBegin, SnapFails, SnapRename, SnapPublish,
         SnapList, CleanStep, Running, Sound, KeepInv, Headers
<1>3. Served' = Served /\ Begun' = Begun
  BY <1>1, <1>2 DEF Served, Begun
<1> QED BY <1>1, <1>3 DEF Store!mapVars

\* An operation that a running server keeps from its clients is one that a
\* handler has begun.
LEMMA HiddenBegun ==
  ASSUME Sound, NEW f \in Hidden
  PROVE  \E h \in Handlers : Begun[h] = f.data /\ Begun[h] # NoJob
<1>1. mode = "up" /\ f \in Flying \cup ToSet(buf)
  BY DEF Hidden
<1>2. PICK c \in Callers : pc[c] \in {"waiting", "released"} /\ f = OpOf(c)
  BY <1>1 DEF Flying, Sound, KeepInv, HistInv
<1>3. c \in Handlers
  BY <1>1, <1>2 DEF Sound, KeepInv, AtWork, Handlers
<1>4. job[c] # NoJob /\ f.data = job[c]
  BY <1>2 DEF OpOf, Sound, StoreInv, JobsInLog
<1> QED BY <1>3, <1>4 DEF Begun

\* A crash, seen from the map: of the operations that were begun each takes
\* effect or vanishes.
LEMMA CrashMaps ==
  ASSUME MaxSegments # 1, Sound, Sound',
         MetaCrash \/ \E c \in Callers, d \in Data : MetaCrashInRoll(c, d)
  PROVE  Store!Crash
<1>1. /\ \E rolled \in BOOLEAN : Ops' = Flushed(rolled)
      /\ LoseMemory /\ LoseStore /\ Running
  <2>1. IInv /\ IInv' /\ StoreInv /\ KeepInv
    BY DEF Sound
  <2> QED BY <2>1, CrashOps
<1>2. PICK rolled \in BOOLEAN : Ops' = Flushed(rolled)
  BY <1>1
<1>3. mode' = "down" /\ Begun' = Store!Idle
  BY <1>1 DEF LoseMemory, LoseStore, Begun, Store!Idle, Handlers
<1>4. MapOf(Served, Ops', Hidden)
  <2>1. MapOf(Served, Flushed(rolled), Hidden)
    BY <1>1, RunningMap DEF Sound
  <2> QED BY <1>2, <2>1
<1>5. MapOf(Served', Ops', {})
  <2>1. (Sound => (mode = "down" => MapOf(Served, Ops, {})))'
    BY DownMap, PTL
  <2> QED BY <1>3, <2>1
<1>6. /\ Ops' \subseteq Entry /\ lastSequenceNo \in Nat
      /\ \A e \in Ops' : e.lsn <= lastSequenceNo
  <2>1. /\ All \subseteq Entry /\ Ops \subseteq All /\ ToSet(buf) \subseteq All
        /\ lastSequenceNo \in Nat /\ \A e \in All : e.lsn <= lastSequenceNo
    BY <1>1, KeepTypes, Numbers DEF Sound, KeepInv, Typed
  <2>2. Flushed(rolled) \subseteq All
    BY <2>1 DEF Flushed
  <2> QED BY <1>2, <2>1, <2>2
<1> DEFINE F == Served'
           O == Ops'
<1>7. F \in FileMap /\ F \in [Names -> Metas \cup {None}] /\ Served \in FileMap
  BY <1>4, <1>5 DEF MapOf, FileMap
<1> HIDE DEF F, O
<1>8. ASSUME NEW x \in Names
      PROVE  \/ F[x] = Served[x]
             \/ \E h \in Handlers : /\ Begun[h] # NoJob /\ Begun[h].name = x
                                    /\ F[x] = Store!Effect(Served, Begun[h])[x]
  <2>1. CASE \A e \in O : e.data.name # x
    BY <1>4, <1>5, <2>1 DEF MapOf, F, O
  <2>2. CASE \E e \in O : e.data.name = x
    <3>1. PICK e \in O : e.data.name = x
      BY <2>2
    <3>2. O \subseteq Entry
      BY <1>6 DEF O
    <3>3. PICK f \in O : f.data.name = x /\ LastIn(O, f)
      BY <1>6, <3>1, <3>2, LastExists DEF O
    <3>4. F[x] = Eff(f.data)
      BY <1>5, <3>3 DEF MapOf, F, O
    <3>5. Served[x] = Eff(f.data) \/ f \in Hidden
      BY <1>4, <3>3 DEF MapOf, O
    <3>6. CASE f \in Hidden
      <4>1. PICK h \in Handlers : Begun[h] = f.data /\ Begun[h] # NoJob
        BY <3>6, HiddenBegun
      <4>2. Store!Effect(Served, Begun[h])[x] = Eff(f.data)
        BY <1>7, <3>3, <4>1 DEF Store!Effect, Eff, FileMap
      <4> QED BY <3>3, <3>4, <4>1, <4>2
    <3> QED BY <3>4, <3>5, <3>6
  <2> QED BY <2>1, <2>2
<1>9. F \in Store!Survivors
  BY <1>7, <1>8 DEF Store!Survivors
<1> QED BY <1>3, <1>9 DEF Store!Crash, F

\* Both initial states of the server are those of a map.
LEMMA InitMaps ==
  ASSUME MetaInit, Sound
  PROVE  Store!Init
<1>1. mode = "down" /\ Begun = Store!Idle
  BY DEF MetaInit, Init, Down, Begun, Store!Idle, Handlers
<1>2. MapOf(Served, Ops, {})
  BY <1>1, DownMap
<1>3. Served \in [Names -> Metas \cup {None}]
  BY <1>2 DEF MapOf, FileMap
<1> QED BY <1>1, <1>3 DEF Store!Init

\* Every step of the server is a step of the map or leaves it alone.
LEMMA NextMaps ==
  ASSUME MaxSegments # 1
  PROVE  Sound /\ Sound' /\ [MetaNext]_allVars => [Store!Next]_(Store!mapVars)
<1> SUFFICES ASSUME Sound, Sound', [MetaNext]_allVars
             PROVE  [Store!Next]_(Store!mapVars)
  OBVIOUS
<1>1. CASE MetaBoot \/ ApplyInMemory \/ MetaRestored
  BY <1>1, BootMaps
<1>2. CASE MetaBootFails \/ UNCHANGED allVars
  <2>1. UNCHANGED <<segs, snapshot, mode, files, replay, snapFile, job>>
    BY <1>2 DEF MetaBootFails, allVars, vars, storeVars
  <2>2. Served' = Served /\ Begun' = Begun
    BY <2>1 DEF Served, OnDisk, Begun
  <2> QED BY <2>1, <2>2 DEF Store!mapVars
<1>3. CASE \/ \E h \in Handlers, d \in Data : AddFileMetadata(h, d) \/ DeleteLookup(h, d)
           \/ \E h \in Handlers : DeleteAppend(h)
           \/ \E d \in Data : ApplyDelete(d)
  BY <1>3, BeginMaps
<1>4. CASE \E c \in Callers : Finish(c)
  BY <1>4, FinishMaps
<1>5. CASE \/ MetaFlushTick \/ MetaSnapBegin \/ Snapshot \/ MetaSnapFails \/ MetaSnapRename
           \/ MetaSnapPublish \/ MetaSnapList \/ MetaCleanStep
  BY <1>5, LogMaps
<1>6. CASE MetaCrash \/ \E c \in Callers, d \in Data : MetaCrashInRoll(c, d)
  BY <1>6, CrashMaps DEF Store!Next
<1> QED BY <1>1, <1>2, <1>3, <1>4, <1>5, <1>6 DEF MetaNext

----------------------------------------------------------------------------
\* The invariants of a server that meets none of the flaws.
LEMMA SoundInvariance ==
  ASSUME MaxSegments # 1
  PROVE  MetaSpec /\ []Orderly /\ [][CleanCopy]_allVars => []Sound
<1>1. MetaSpec => []IInv
  BY ServerImplementsLog, Invariance, PTL
<1>2. MetaInit => StoreInv
  BY InitStoreInv
<1>3. IInv /\ IInv' /\ StoreInv /\ [MetaNext]_allVars => StoreInv'
  BY NextStoreInv
<1>4. MetaInit => KeepInv
  BY InitKeep
<1>5. Orderly /\ Orderly' /\ [CleanCopy]_allVars /\ IInv /\ IInv' /\ StoreInv /\ StoreInv'
        /\ KeepInv /\ [MetaNext]_allVars => KeepInv'
  BY NextKeep
<1>6. IInv /\ StoreInv /\ KeepInv /\ Orderly => Sound
  BY DEF Sound
<1>7. MetaSpec => []StoreInv
  BY <1>1, <1>2, <1>3, PTL DEF MetaSpec
<1>8. MetaSpec /\ []Orderly /\ [][CleanCopy]_allVars => []KeepInv
  BY <1>1, <1>4, <1>5, <1>7, PTL DEF MetaSpec
<1> QED BY <1>1, <1>6, <1>7, <1>8, PTL

\* An operation that was flushed is what the server answers by, for any number of
\* handlers, adds and deletes and whatever rollovers, failed appends, snapshots
\* that are cut short, cleanups, crashes and restarts come in between, unless the
\* server meets one of the flaws that the hypotheses exclude.
THEOREM ServerDurable ==
  ASSUME MaxSegments # 1
  PROVE  MetaSpec /\ []Orderly /\ [][CleanCopy]_allVars => []Durable
<1>1. Sound => Durable
  BY KeepDurable DEF Sound
<1> QED BY <1>1, SoundInvariance, PTL

\* Under the same hypotheses the snapshot file and the log, read as restore reads
\* them, are the map in memory whenever no handler is at work, in the middle of a
\* snapshot or a cleanup as well.
THEOREM ServerReplayAgrees ==
  ASSUME MaxSegments # 1
  PROVE  MetaSpec /\ []Orderly /\ [][CleanCopy]_allVars => []ReplayAgrees
<1>1. Sound => ReplayAgrees
  BY KeepReplay DEF Sound
<1> QED BY <1>1, SoundInvariance, PTL

\* Under the same hypotheses the server is a map that survives crashes: what was
\* answered stays, and what was not has happened wholly or not at all.
THEOREM ServerIsDurableMap ==
  ASSUME MaxSegments # 1
  PROVE  MetaSpec /\ []Orderly /\ [][CleanCopy]_allVars => ImplementsStore
<1>1. MetaInit /\ Sound => Store!Init
  BY InitMaps
<1>2. Sound /\ Sound' /\ [MetaNext]_allVars => [Store!Next]_(Store!mapVars)
  BY NextMaps
<1> QED BY <1>1, <1>2, SoundInvariance, PTL DEF MetaSpec, ImplementsStore, Store!Spec

=============================================================================
