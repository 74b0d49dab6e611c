----------------------------- MODULE MetaServer -----------------------------
(***************************************************************************)
(* The metadata server: handler goroutines (metaserver/handler.go) over    *)
(* the FileStore (files/file_store.go), whose map of files is logged in    *)
(* the WAL, copied into snapshots and rebuilt at start-up.                 *)
(*                                                                         *)
(* The module extends WAL: each of its actions is a step of the FileStore  *)
(* together with the step of the WAL it calls, if any.  A record of the    *)
(* log is the metadata of a file and the delete flag.  Reads               *)
(* (LookupFileMetadata, handleRead) and pings change no state: what a read *)
(* answers is files[n].                                                    *)
(***************************************************************************)
EXTENDS WAL, SequencesExt

CONSTANTS Names,         \* file names
          Metas,         \* metadata of a file, without its name
          None,          \* no such file
          Length,        \* cells that a record takes in a snapshot file
          MaxCrashes,    \* bound on crashes
          MaxSnapshots   \* bound on snapshots begun

ASSUME DataAssumption == Data \subseteq [name : Names, meta : Metas, del : BOOLEAN]
ASSUME NamesAssumption == IsFiniteSet(Names)
\* A lookup returns nil for a file that is not in the map, and for no other.
ASSUME NoneAssumption == None \notin Metas
ASSUME StoreBoundsAssumption == MaxCrashes \in Nat /\ MaxSnapshots \in Nat

FileRec == [name : Names, meta : Metas]

\* A record is its length and the metadata, so it is never empty.
ASSUME LengthAssumption == Length \in [FileRec -> Nat \ {0}]

VARIABLES
  files,      \* FileStore.files
  job,        \* job[h]: what handler h is logging, or NoJob
  replay,     \* entries restore has still to Apply
  tmp,        \* cells of the file wal-snapshot.tmp
  copied,     \* has the running snapshot written its copy to it?
  snapFile,   \* cells of the file wal-snapshot
  hist,       \* history: the operations of clients that got into the log
  again,      \* history: the deletes that restore has logged again
  crashes, snapshots   \* counters for the bounds

storeVars == <<files, job, replay, tmp, copied, snapFile, hist, again, crashes, snapshots>>
allVars == <<vars, storeVars>>

Handlers == Callers \ {Restorer}

NoJob == [name |-> None]

NoFiles == [n \in Names |-> None]

\* A snapshot file is a sequence of cells, as records are of different lengths:
\* which record a cell is of, and where in it.
Cell == [name : Names, meta : Metas, at : Nat \ {0}]

CellsOf(r) == [i \in 1 .. Length[r] |-> [name |-> r.name, meta |-> r.meta, at |-> i]]

StoreTypeOK ==
  /\ files \in [Names -> Metas \cup {None}]
  /\ job \in [Callers -> Data \cup {NoJob}]
  /\ replay \in Seq(Entry)
  /\ tmp \in Seq(Cell)
  /\ copied \in BOOLEAN
  /\ snapFile \in Seq(Cell)
  /\ \A e \in hist \cup again : e \in Entry
  /\ crashes \in 0 .. MaxCrashes
  /\ snapshots \in 0 .. MaxSnapshots

\* The first records of a run that starts with a snapshot are in it.
MetaInit ==
  /\ Init
  /\ files = NoFiles
  /\ job = [c \in Callers |-> NoJob]
  /\ replay = << >>
  /\ tmp = << >>
  /\ copied = FALSE
  /\ LET e == segs[StartSegment].recs[1]
     IN  IF StartSegment = 0 THEN snapFile = << >> /\ hist = {}
         ELSE /\ ~ e.data.del
              /\ snapFile = CellsOf([name |-> e.data.name, meta |-> e.data.meta])
              /\ hist = {e}
  /\ again = {}
  /\ crashes = 0
  /\ snapshots = 0

----------------------------------------------------------------------------
(* FileStore.Restore and Apply, from EnableSnapshots *)

\* Mutant: the map keeps the record it was given.
Added_Record(F, r) == [F EXCEPT ![r.name] = r]

Added(F, r) == [F EXCEPT ![r.name] = r.meta]

\* Restore adds the records of the snapshot file one after the other (each
\* cell of a record adds the same).
RestoreFrom(cells) == FoldLeft(Added, NoFiles, cells)

\* Records follow each other and the last one is complete.  What Restore reads
\* of any other file is a length out of the middle of a record, or less than it
\* was told: it returns an error.
Whole(cells) ==
  \A i \in DOMAIN cells :
    LET c == cells[i]
    IN  /\ c.at # 1 => i # 1 /\ cells[i - 1] = [c EXCEPT !.at = c.at - 1]
        /\ c.at # Length[[name |-> c.name, meta |-> c.meta]]
             => i # Len(cells) /\ cells[i + 1] = [c EXCEPT !.at = c.at + 1]

\* Mutant: only the last file is read.
AllEntries_LastFile(S) == S[findLastSegmentNumber(S)].recs

\* The records of n files, oldest segment first.
EntriesOf(S, start, n) == FlattenSeq([i \in 1 .. n |-> S[start + i - 1].recs])

\* ReadAllEntries: as many files as there are, ending at the last one.
AllEntries(S) ==
  EntriesOf(S, findLastSegmentNumber(S) - countLogFiles(S) + 1, countLogFiles(S))

CanRestore == CanBoot /\ (snapshot # NoSnapshot => Whole(snapFile))

\* Without a snapshot nothing is restored and nothing is replayed.
MetaBoot ==
  /\ Boot
  /\ CanRestore
  /\ IF snapshot = NoSnapshot
     THEN files' = NoFiles /\ replay' = << >>
     ELSE files' = RestoreFrom(snapFile) /\ replay' = AllEntries(segs)
  /\ UNCHANGED <<job, tmp, copied, snapFile, hist, again, crashes, snapshots>>

\* NewMetaServer returns the error of the log or of Restore.
MetaBootFails == mode = "down" /\ ~ CanRestore /\ UNCHANGED allVars

\* Apply of a record that is no delete, or deletes a file that is not there.
ApplyInMemory ==
  /\ mode = "restoring"
  /\ pc[Restorer] = "idle"
  /\ replay # << >>
  /\ LET d == Head(replay).data
     IN  IF d.del THEN files[d.name] = None /\ UNCHANGED files
                  ELSE files' = Added(files, d)
  /\ replay' = Tail(replay)
  /\ UNCHANGED <<vars, job, tmp, copied, snapFile, hist, again, crashes, snapshots>>

\* H with the operation d of caller c, if the log took it.
Logged(H, c, d) ==
  IF pc'[c] = "waiting" THEN H \cup {[lsn |-> lsn'[c], data |-> d]} ELSE H

\* Apply of a delete calls DeleteFileMetadata, which logs it once more.
DeleteToReplay(d) ==
  /\ replay # << >>
  /\ Head(replay).data.del
  /\ files[Head(replay).data.name] # None
  /\ d = [name |-> Head(replay).data.name, meta |-> files[Head(replay).data.name], del |-> TRUE]

ApplyDelete(d) ==
  /\ job[Restorer] = NoJob
  /\ DeleteToReplay(d)
  /\ AppendEntry(Restorer, d)
  /\ job' = [job EXCEPT ![Restorer] = d]
  /\ again' = Logged(again, Restorer, d)
  /\ UNCHANGED <<files, replay, tmp, copied, snapFile, hist, crashes, snapshots>>

MetaRestored ==
  /\ Restored
  /\ replay = << >>
  /\ UNCHANGED storeVars

----------------------------------------------------------------------------
(* handleWrite, handleDelete *)

\* handleWrite up to the wait in AppendEntry.
AddFileMetadata(h, d) ==
  /\ job[h] = NoJob
  /\ ~ d.del
  /\ AppendEntry(h, d)
  /\ job' = [job EXCEPT ![h] = d]
  /\ hist' = Logged(hist, h, d)
  /\ UNCHANGED <<files, replay, tmp, copied, snapFile, again, crashes, snapshots>>

\* DeleteFileMetadata finds the file; if it does not, it does nothing.
DeleteLookup(h, d) ==
  /\ mode = "up"
  /\ job[h] = NoJob
  /\ pc[h] = "idle"
  /\ d.del
  /\ files[d.name] = d.meta
  /\ job' = [job EXCEPT ![h] = d]
  /\ UNCHANGED <<vars, files, replay, tmp, copied, snapFile, hist, again, crashes, snapshots>>

DeleteAppend(h) ==
  /\ job[h] # NoJob
  /\ AppendEntry(h, job[h])
  /\ hist' = Logged(hist, h, job[h])
  /\ UNCHANGED <<files, job, replay, tmp, copied, snapFile, again, crashes, snapshots>>

\* AppendEntry has returned: the map is changed, without a lock, only if it
\* returned no error, and the client of an add is answered in both cases.
Finish(c) ==
  /\ Return(c)
  /\ files' = IF pc[c] = "failed" THEN files
              ELSE IF job[c].del THEN [files EXCEPT ![job[c].name] = None]
              ELSE Added(files, job[c])
  /\ job' = [job EXCEPT ![c] = NoJob]
  /\ replay' = IF c = Restorer THEN Tail(replay) ELSE replay
  /\ UNCHANGED <<tmp, copied, snapFile, hist, again, crashes, snapshots>>

MetaFlushTick == FlushTick /\ UNCHANGED storeVars

----------------------------------------------------------------------------
(* takeSnapshot with FileStore.Snapshot *)

MetaSnapBegin ==
  /\ SnapBegin
  /\ snapshots < MaxSnapshots
  /\ snapshots' = snapshots + 1
  /\ copied' = FALSE
  /\ UNCHANGED <<files, job, replay, tmp, snapFile, hist, again, crashes>>

\* The map in any order (it is iterated), one record per file.
Copies(F) ==
  {FlattenSeq([i \in DOMAIN s |-> CellsOf(s[i])]) :
     s \in SetToSeqs({[name |-> n, meta |-> F[n]] : n \in {m \in Names : F[m] # None}})}

\* The .tmp file is opened without O_TRUNC: what an earlier, longer attempt
\* left beyond the new cells stays, be it a part of a record or whole ones.
Over(cells) == cells \o SubSeq(tmp, Len(cells) + 1, Len(tmp))

Snapshot ==
  /\ snap.pc = "writing"
  /\ ~ copied
  /\ copied' = TRUE
  /\ \E s \in Copies(files) : tmp' = Over(s)
  /\ UNCHANGED <<vars, files, job, replay, snapFile, hist, again, crashes, snapshots>>

\* An attempt that fails, or that a crash then ends, may have written any part
\* of its copy.
MetaSnapFails ==
  /\ SnapFails
  /\ IF copied THEN UNCHANGED tmp
     ELSE \E s \in Copies(files) : \E k \in 0 .. Len(s) : tmp' = Over(SubSeq(s, 1, k))
  /\ UNCHANGED <<files, job, replay, copied, snapFile, hist, again, crashes, snapshots>>

MetaSnapRename ==
  /\ SnapRename
  /\ copied
  /\ snapFile' = tmp
  /\ tmp' = << >>
  /\ UNCHANGED <<files, job, replay, copied, hist, again, crashes, snapshots>>

MetaSnapPublish == SnapPublish /\ UNCHANGED storeVars

MetaSnapList == SnapList /\ UNCHANGED storeVars

MetaCleanStep == CleanStep /\ UNCHANGED storeVars

----------------------------------------------------------------------------
LoseStore ==
  /\ crashes < MaxCrashes
  /\ crashes' = crashes + 1
  /\ files' = NoFiles
  /\ job' = [c \in Callers |-> NoJob]
  /\ replay' = << >>
  /\ copied' = FALSE
  /\ hist' = {e \in hist : e.lsn \in acked'}
  /\ again' = {e \in again : e.lsn \in acked'}
  /\ UNCHANGED <<tmp, snapFile, snapshots>>

MetaCrash == Crash /\ LoseStore

MetaCrashInRoll(c, d) ==
  /\ CrashInRoll(c, d)
  /\ IF c = Restorer THEN DeleteToReplay(d)
     ELSE job[c] = IF d.del THEN d ELSE NoJob
  /\ LoseStore

MetaNext ==
  \/ MetaBoot \/ MetaBootFails \/ ApplyInMemory \/ MetaRestored
  \/ \E d \in Data : ApplyDelete(d)
  \/ \E h \in Handlers, d \in Data : AddFileMetadata(h, d) \/ DeleteLookup(h, d)
  \/ \E h \in Handlers : DeleteAppend(h)
  \/ \E c \in Callers : Finish(c)
  \/ MetaFlushTick
  \/ MetaSnapBegin \/ Snapshot \/ MetaSnapFails \/ MetaSnapRename
  \/ MetaSnapPublish \/ MetaSnapList \/ MetaCleanStep
  \/ MetaCrash
  \/ \E c \in Callers, d \in Data : MetaCrashInRoll(c, d)

MetaSpec == MetaInit /\ [][MetaNext]_allVars

----------------------------------------------------------------------------
(* Properties *)

\* The last operation on its file that is in the log.
LastOnFile(e) == \A f \in hist : f.data.name = e.data.name => f.lsn <= e.lsn

Quiet == mode = "up" /\ \A h \in Handlers : job[h] = NoJob

\* "Restores state from previous snapshot and replays wal log" (snapshot.go:66):
\* an operation that a flush has made durable is what the server answers by
\* once no handler is at work, unless a later operation on the file is in the
\* log: whatever snapshots, cleanups and restarts came in between.
Durable ==
  Quiet =>
    \A e \in hist :
      e.lsn \in acked /\ LastOnFile(e)
        => files[e.data.name] = IF e.data.del THEN None ELSE e.data.meta

Applied(F, e) ==
  IF e.data.del THEN [F EXCEPT ![e.data.name] = None] ELSE Added(F, e.data)

\* The same comment, seen from the files: once no handler is at work, the
\* snapshot file and the log, read as restore reads them, are the state the
\* server has in memory, as long as the log holds records of clients only (and
\* no delete that a replay has logged again).  A copy that is ahead of its
\* header, a cleanup that runs while requests go on or what is left of another
\* attempt in the snapshot file could break it.
ReplayAgrees ==
  (/\ Quiet /\ snapshot # NoSnapshot /\ Readable(segs)
   /\ ToSet(AllEntries(segs)) \subseteq hist) =>
    /\ Whole(snapFile)
    /\ FoldLeft(Applied, RestoreFrom(snapFile), AllEntries(segs)) = files

----------------------------------------------------------------------------
(* The server as a durable map *)

\* The files that no gap separates from the last one: all of a directory that
\* a process can start from.
Reach(S) == {n \in DOMAIN S : \A m \in DOMAIN S : n .. m \subseteq DOMAIN S}

ReachEntries(S) == EntriesOf(S, Min(Reach(S)), Cardinality(Reach(S)))

\* What restore makes of the files (a log with a gap is never read again, and
\* stands for what is behind the gap).
OnDisk ==
  IF snapshot = NoSnapshot THEN NoFiles
  ELSE FoldLeft(Applied, RestoreFrom(snapFile), ReachEntries(segs))

\* The map a client is answered by, now or after the restore.
Served ==
  CASE mode = "up" -> files
    [] mode = "restoring" -> FoldLeft(Applied, files, replay)
    [] OTHER -> OnDisk

Begun == [h \in Handlers |-> job[h]]

Store == INSTANCE MetaStore WITH kv <- Served, pending <- Begun, up <- mode = "up"

\* The server implements a map that survives crashes: what a client was told is
\* in effect then and after every restart, and what no client was told has
\* happened wholly or not at all ("Restores state from previous snapshot and
\* replays wal log.", snapshot.go:66).
ImplementsStore == Store!Spec

=============================================================================
