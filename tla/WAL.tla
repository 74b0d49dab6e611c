-------------------------------- MODULE WAL --------------------------------
(***************************************************************************)
(* The write-ahead log of internal/wal: concurrent AppendEntry calls, the  *)
(* flusher goroutine (flushBuffer), the snapshot goroutine (snapshotRunner *)
(* with takeSnapshot and performCleanup), start-up (InitWAL followed by    *)
(* EnableSnapshots) and crashes of the process.                            *)
(*                                                                         *)
(* Every step under w.mu is one action.  takeSnapshot holds the mutex only *)
(* while it reads its two counters and around each removeLogFile, so it is *)
(* several actions.  A crash loses the memory and keeps the files.         *)
(***************************************************************************)
EXTENDS WALSegments

CONSTANTS Callers,       \* goroutines that call AppendEntry
          Restorer,      \* the one that runs EnableSnapshots at start-up
          StartSegment,  \* 0: no files yet; k: a directory cleaned up to segment k
          MaxSeqNo,      \* bound: no record is numbered above it
          MaxSegNo       \* bound: no segment is numbered above it

ASSUME RestorerAssumption == Restorer \in Callers
ASSUME StartAssumption == StartSegment \in Nat
ASSUME BoundsAssumption == MaxSeqNo \in Nat /\ MaxSegNo \in Nat

VARIABLES
  \* files
  segs,            \* the segment files
  snapshot,        \* header of the file wal-snapshot, or NoSnapshot
  \* memory of the process
  mode,            \* "down", "restoring" (in EnableSnapshots) or "up"
  buf,             \* records in w.writer
  lastSegmentNo, lastSequenceNo, lastSnapshot, curSegmentSize,
  pc,              \* pc[c]: where caller c is in AppendEntry
  lsn,             \* lsn[c]: the number of the record c is appending, or 0
  snap,            \* the snapshot goroutine in takeSnapshot
  \* history
  acked,           \* LSNs whose AppendEntry was released by a flush
  covered          \* the highest header a snapshot file ever had

disk == <<segs, snapshot>>
counters == <<lastSegmentNo, lastSequenceNo, curSegmentSize>>
vars == <<segs, snapshot, mode, buf, lastSegmentNo, lastSequenceNo,
          lastSnapshot, curSegmentSize, pc, lsn, snap, acked, covered>>

NoSnapshot == -1

SnapIdle == [pc |-> "idle", seq |-> 0, seg |-> 0, pending |-> {}]

log == [segs |-> segs, buf |-> buf, last |-> lastSegmentNo, size |-> curSegmentSize]

SetLog(L) ==
  /\ segs' = L.segs
  /\ buf' = L.buf
  /\ lastSegmentNo' = L.last
  /\ curSegmentSize' = L.size

Running == mode \in {"restoring", "up"}

Waiting == {c \in Callers : pc[c] = "waiting"}

\* Mutant: flush does not close the channel.
Released_NotClosed == pc

\* pc once close(w.flushDone) has let every waiting caller go.
Released == [c \in Callers |-> IF c \in Waiting THEN "released" ELSE pc[c]]

TypeOK ==
  /\ IsDirectory(segs)
  /\ snapshot \in Nat \cup {NoSnapshot}
  /\ mode \in {"down", "restoring", "up"}
  /\ buf \in Seq(Entry)
  /\ lastSegmentNo \in Nat
  /\ lastSequenceNo \in Nat
  /\ lastSnapshot \in Nat
  /\ curSegmentSize \in Nat
  /\ pc \in [Callers -> {"idle", "waiting", "released", "failed"}]
  /\ lsn \in [Callers -> Nat]
  /\ snap \in [pc : {"idle", "writing", "renamed", "published", "cleaning"},
               seq : Nat, seg : Nat, pending : SUBSET (Nat \ {0})]
  /\ acked \in SUBSET Nat
  /\ covered \in Nat

----------------------------------------------------------------------------
\* The directory is empty or, so that a run can start at a chosen segment
\* number, what a snapshot of one record per segment and its cleanup leave.
InitialSegs ==
  IF StartSegment = 0
  THEN {EmptyDirectory}
  ELSE {With(EmptyDirectory, StartSegment,
             [recs |-> <<[lsn |-> StartSegment, data |-> d]>>, size |-> Size[d]])
           : d \in Data}

Down ==
  /\ mode = "down"
  /\ buf = << >>
  /\ lastSegmentNo = 0
  /\ lastSequenceNo = 0
  /\ lastSnapshot = 0
  /\ curSegmentSize = 0
  /\ pc = [c \in Callers |-> "idle"]
  /\ lsn = [c \in Callers |-> 0]
  /\ snap = SnapIdle

Init ==
  /\ segs \in InitialSegs
  /\ snapshot = IF StartSegment = 0 THEN NoSnapshot ELSE StartSegment
  /\ Down
  /\ acked = IF StartSegment = 0 THEN {} ELSE {StartSegment}
  /\ covered = StartSegment

----------------------------------------------------------------------------
(* InitWAL and EnableSnapshots *)

\* Mutant: the error of findLastSequenceNumberInLogFile is dropped.
CanBoot_IgnoresError ==
  segs # EmptyDirectory => (snapshot # NoSnapshot => Readable(segs))

\* What InitWAL and then restore need to find in a directory with files.
CanBoot ==
  segs # EmptyDirectory =>
    /\ findLastSequenceNumberInLogFile(segs, findLastSegmentNumber(segs)) # NoFile
    /\ snapshot # NoSnapshot => Readable(segs)

\* Mutant: a restart counts sequence numbers from 0 again.
InitWAL_CountsAnew ==
  IF segs = EmptyDirectory
  THEN /\ SetLog(addNewLogFile([segs |-> segs, buf |-> << >>, last |-> 0, size |-> 0], 0))
       /\ lastSequenceNo' = 0
  ELSE LET last == findLastSegmentNumber(segs)
       IN  /\ SetLog([segs |-> segs, buf |-> << >>, last |-> last, size |-> segs[last].size])
           /\ lastSequenceNo' = 0

\* The first start creates segment 1; a later one opens the last segment.
InitWAL ==
  IF segs = EmptyDirectory
  THEN /\ SetLog(addNewLogFile([segs |-> segs, buf |-> << >>, last |-> 0, size |-> 0], 0))
       /\ lastSequenceNo' = 0
  ELSE LET last == findLastSegmentNumber(segs)
       IN  /\ SetLog([segs |-> segs, buf |-> << >>, last |-> last, size |-> segs[last].size])
           /\ lastSequenceNo' = findLastSequenceNumberInLogFile(segs, last)

\* Without a snapshot file restore returns before it reads any log file.
Boot ==
  /\ mode = "down"
  /\ CanBoot
  /\ InitWAL
  /\ mode' = IF snapshot = NoSnapshot THEN "up" ELSE "restoring"
  /\ UNCHANGED <<snapshot, lastSnapshot, pc, lsn, snap, acked, covered>>

\* NewMetaServer returns the error and the process exits.
BootFails ==
  /\ mode = "down"
  /\ ~ CanBoot
  /\ UNCHANGED vars

\* All entries are applied; only now does the WAL know its last snapshot.
Restored ==
  /\ mode = "restoring"
  /\ pc[Restorer] = "idle"
  /\ mode' = "up"
  /\ lastSnapshot' = snapshot
  /\ UNCHANGED <<segs, snapshot, buf, counters, pc, lsn, snap, acked, covered>>

----------------------------------------------------------------------------
(* AppendEntry *)

\* During start-up only the restoring goroutine appends (a replayed delete).
MayAppend(c) ==
  /\ pc[c] = "idle"
  /\ IF c = Restorer THEN mode = "restoring" ELSE mode = "up"
  /\ lastSequenceNo < MaxSeqNo
  /\ lastSegmentNo + 2 <= MaxSegNo

FirstRollFails == RollsFirst(log) /\ RollFails(log)

SecondRollFails(d) == RollsSecond(log, d) /\ RollFails(AfterFirst(log, lastSnapshot))

\* The first addNewLogFile returns an error: nothing has changed.
AppendFailsFirst(c, d) ==
  /\ MayAppend(c)
  /\ FirstRollFails
  /\ pc' = [pc EXCEPT ![c] = "failed"]
  /\ UNCHANGED <<disk, mode, buf, counters, lastSnapshot, lsn, snap, acked, covered>>

\* The second one does: the number is used up, a first roll has happened.
AppendFailsSecond(c, d) ==
  /\ MayAppend(c)
  /\ ~ FirstRollFails
  /\ SecondRollFails(d)
  /\ SetLog(AfterFirst(log, lastSnapshot))
  /\ lastSequenceNo' = lastSequenceNo + 1
  /\ IF RollsFirst(log)
     THEN /\ pc' = [Released EXCEPT ![c] = "failed"]
          /\ acked' = acked \cup {lsn[x] : x \in Waiting}
     ELSE /\ pc' = [pc EXCEPT ![c] = "failed"]
          /\ UNCHANGED acked
  /\ UNCHANGED <<snapshot, mode, lastSnapshot, lsn, snap, covered>>

\* The record is in the buffer; the caller waits on the flushDone channel
\* that is current after appendEntry, so a roll does not let it go.
AppendSucceeds(c, d) ==
  /\ MayAppend(c)
  /\ ~ FirstRollFails
  /\ ~ SecondRollFails(d)
  /\ SetLog(Written(AfterSecond(log, d, lastSnapshot), d, lastSequenceNo + 1))
  /\ lastSequenceNo' = lastSequenceNo + 1
  /\ lsn' = [lsn EXCEPT ![c] = lastSequenceNo + 1]
  /\ IF RollsSecond(log, d)
     THEN /\ pc' = [Released EXCEPT ![c] = "waiting"]
          /\ acked' = acked \cup {lsn[x] : x \in Waiting}
     ELSE /\ pc' = [pc EXCEPT ![c] = "waiting"]
          /\ UNCHANGED acked
  /\ UNCHANGED <<snapshot, mode, lastSnapshot, snap, covered>>

AppendEntry(c, d) ==
  \/ AppendFailsFirst(c, d)
  \/ AppendFailsSecond(c, d)
  \/ AppendSucceeds(c, d)

\* flushBuffer, on a tick of the flush timer.
FlushTick ==
  /\ Running
  /\ SetLog(flush(log))
  /\ pc' = Released
  /\ acked' = acked \cup {lsn[c] : c \in Waiting}
  /\ UNCHANGED <<snapshot, mode, lastSequenceNo, lastSnapshot, lsn, snap, covered>>

\* AppendEntry returns to its caller, with or without an error.
Return(c) ==
  /\ pc[c] \in {"released", "failed"}
  /\ pc' = [pc EXCEPT ![c] = "idle"]
  /\ lsn' = [lsn EXCEPT ![c] = 0]
  /\ UNCHANGED <<disk, mode, buf, counters, lastSnapshot, snap, acked, covered>>

----------------------------------------------------------------------------
(* takeSnapshot and performCleanup *)

\* Mutant: the new lastSnapshot is set before the snapshot file exists.
SnapBegin_PublishesEarly ==
  /\ mode = "up"
  /\ snap.pc = "idle"
  /\ snap' = [pc |-> "writing", seq |-> lastSequenceNo, seg |-> lastSegmentNo, pending |-> {}]
  /\ lastSnapshot' = lastSequenceNo
  /\ UNCHANGED <<disk, mode, buf, counters, pc, lsn, acked, covered>>

\* The two counters are read under the mutex, the rest happens without it.
SnapBegin ==
  /\ mode = "up"
  /\ snap.pc = "idle"
  /\ snap' = [pc |-> "writing", seq |-> lastSequenceNo, seg |-> lastSegmentNo, pending |-> {}]
  /\ UNCHANGED <<disk, mode, buf, counters, lastSnapshot, pc, lsn, acked, covered>>

\* Opening, writing, syncing or renaming the snapshot file fails.
SnapFails ==
  /\ snap.pc = "writing"
  /\ snap' = SnapIdle
  /\ UNCHANGED <<disk, mode, buf, counters, lastSnapshot, pc, lsn, acked, covered>>

\* os.Rename puts the new snapshot in the place of the old one.
SnapRename ==
  /\ snap.pc = "writing"
  /\ snapshot' = snap.seq
  /\ covered' = IF snap.seq > covered THEN snap.seq ELSE covered
  /\ snap' = [snap EXCEPT !.pc = "renamed"]
  /\ UNCHANGED <<segs, mode, buf, counters, lastSnapshot, pc, lsn, acked>>

SnapPublish ==
  /\ snap.pc = "renamed"
  /\ lastSnapshot' = snap.seq
  /\ snap' = [snap EXCEPT !.pc = "published"]
  /\ UNCHANGED <<disk, mode, buf, counters, pc, lsn, acked, covered>>

\* Mutant: the segment number is read when the cleanup begins.
SnapList_CurrentSegment ==
  /\ snap.pc = "published"
  /\ snap' = [snap EXCEPT !.pc = "cleaning", !.seg = lastSegmentNo, !.pending = DOMAIN segs]
  /\ UNCHANGED <<disk, mode, buf, counters, lastSnapshot, pc, lsn, acked, covered>>

\* performCleanup lists the directory once, before it removes anything.
SnapList ==
  /\ snap.pc = "published"
  /\ snap' = [snap EXCEPT !.pc = "cleaning", !.pending = DOMAIN segs]
  /\ UNCHANGED <<disk, mode, buf, counters, lastSnapshot, pc, lsn, acked, covered>>

BeforeSnapshot(n) == n < snap.seg

\* The next file of the listing; an error ends the cleanup.
CleanStep ==
  /\ snap.pc = "cleaning"
  /\ \E n \in snap.pending :
       /\ \A m \in snap.pending : NameKey(n) <= NameKey(m)
       /\ IF BeforeSnapshot(n) /\ RemoveFails(segs, n)
          THEN snap' = SnapIdle /\ UNCHANGED segs
          ELSE /\ snap' = IF snap.pending = {n}
                          THEN SnapIdle
                          ELSE [snap EXCEPT !.pending = @ \ {n}]
               /\ segs' = IF BeforeSnapshot(n) THEN removeLogFile(segs, n, lastSnapshot) ELSE segs
  /\ UNCHANGED <<snapshot, mode, buf, counters, lastSnapshot, pc, lsn, acked, covered>>

----------------------------------------------------------------------------
(* Crashes *)

LoseMemory ==
  /\ mode' = "down"
  /\ buf' = << >>
  /\ lastSegmentNo' = 0
  /\ lastSequenceNo' = 0
  /\ lastSnapshot' = 0
  /\ curSegmentSize' = 0
  /\ pc' = [c \in Callers |-> "idle"]
  /\ lsn' = [c \in Callers |-> 0]
  /\ snap' = SnapIdle

Crash ==
  /\ Running
  /\ LoseMemory
  /\ UNCHANGED <<disk, acked, covered>>

RollStages(L) == {RollRemoved(L, lastSnapshot), RollCreated(L, lastSnapshot)}

\* The process dies inside an addNewLogFile of AppendEntry, after the old
\* file is removed or after the new one is created.  The flush of a first
\* roll may already have let its waiters answer when the second one starts.
CrashInRoll(c, d) ==
  /\ MayAppend(c)
  /\ ~ FirstRollFails
  /\ \/ /\ RollsFirst(log)
        /\ segs' \in RollStages(log)
        /\ UNCHANGED acked
     \/ /\ RollsSecond(log, d)
        /\ ~ SecondRollFails(d)
        /\ segs' \in RollStages(AfterFirst(log, lastSnapshot))
        /\ acked' = IF RollsFirst(log) THEN acked \cup {lsn[x] : x \in Waiting} ELSE acked
  /\ LoseMemory
  /\ UNCHANGED <<snapshot, covered>>

Next ==
  \/ Boot \/ BootFails \/ Restored
  \/ \E c \in Callers, d \in Data : AppendEntry(c, d)
  \/ FlushTick
  \/ \E c \in Callers : Return(c)
  \/ SnapBegin \/ SnapFails \/ SnapRename \/ SnapPublish \/ SnapList \/ CleanStep
  \/ Crash
  \/ \E c \in Callers, d \in Data : CrashInRoll(c, d)

Spec == Init /\ [][Next]_vars

\* The flush timer keeps ticking while the process runs.
FairSpec == Spec /\ WF_vars(FlushTick)

----------------------------------------------------------------------------
(* Properties *)

\* Replay order is numbering order: along a file, from one file to the next
\* and on into the buffer, sequence numbers strictly increase.  ReadAllEntries
\* applies records in file order, so a number reissued after a crash or
\* written behind a later one would be replayed in the wrong order.
LogOrdered ==
  /\ OrderedDirectory(segs)
  /\ Ordered(buf)
  /\ \A a \in LsnsOnDisk(segs), b \in Lsns(buf) : a < b

\* A record whose AppendEntry has returned is in a file, whatever rollovers,
\* cleanups and crashes do, until some snapshot had a header at or above it.
NoAckedEntryDropped ==
  \A l \in acked : l \in LsnsOnDisk(segs) \/ l <= covered

\* A restart numbers on from a point above every acknowledged record, even
\* when the files that held them are gone (InitWAL derives lastSequenceNo from
\* the files that are left): no acknowledged number is ever issued again.
AckedBelowNext ==
  Running => \A l \in acked : l <= lastSequenceNo

\* No file is ever written over or taken up again: os.Create empties a file that
\* has the number of the next segment, after a restart or behind a cleanup as
\* well, and a flush must find its writer at the end of its file (manager.go:359,
\* manager.go:269).
FilesOnlyGrow == [][OnlyGrown(segs, segs', lastSegmentNo)]_vars

\* "Restores state from previous snapshot and replays wal log" (snapshot.go:66):
\* after a crash the process can start again from the files it left.
Restartable == mode = "down" => CanBoot

----------------------------------------------------------------------------
\* Every AppendEntry that waits for its flush is let go, by the timer or by a
\* rollover (or it dies with the process).
AppendReturns ==
  \A c \in Callers : pc[c] = "waiting" ~> pc[c] # "waiting"

----------------------------------------------------------------------------
(* The inductive invariant behind the three safety invariants, for every     *)
(* MaxSegments but 1.                                                        *)

\* The live segment is the last file, and it is there.
LiveSegment ==
  Running => lastSegmentNo \in DOMAIN segs /\ \A n \in DOMAIN segs : n <= lastSegmentNo

\* Of the files a crash leaves, one is the last.
HasLast ==
  segs # EmptyDirectory => \E n \in DOMAIN segs : \A m \in DOMAIN segs : m <= n

NumberedSoFar ==
  Running => \A l \in LsnsOnDisk(segs) \cup Lsns(buf) : l <= lastSequenceNo

\* A caller waits for a record that is still in the buffer.
WaitersBuffered ==
  \A c \in Callers : pc[c] = "waiting" => lsn[c] \in Lsns(buf)

\* No header in memory is above one that was on disk, and the cleanup works
\* below the live segment.
SnapshotBounds ==
  /\ snapshot <= covered
  /\ lastSnapshot <= covered
  /\ snap.pc = "renamed" => snap.seq <= covered
  /\ snap.pc # "idle" => Running /\ snap.seg <= lastSegmentNo
  /\ mode = "restoring" => snapshot # NoSnapshot

Idle ==
  mode = "down" => buf = << >> /\ pc = [c \in Callers |-> "idle"]

IInv ==
  /\ TypeOK
  /\ DirInv(segs, Lsns(buf), acked, covered)
  /\ Ordered(buf)
  /\ LiveSegment
  /\ HasLast
  /\ NumberedSoFar
  /\ AckedBelowNext
  /\ WaitersBuffered
  /\ SnapshotBounds
  /\ Idle

=============================================================================
