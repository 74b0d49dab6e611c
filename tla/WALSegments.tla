---------------------------- MODULE WALSegments ----------------------------
(***************************************************************************)
(* The directory of segment files of the write-ahead log of internal/wal,  *)
(* and the operations the WAL performs on it while it holds its mutex:     *)
(* finding the last record, deleting a file, rolling over to a new file,   *)
(* appending a record to the buffered writer, flushing the writer.         *)
(*                                                                         *)
(* A directory is a function from segment numbers to files.  A file is its *)
(* records, in the order they were written, and its size in bytes.         *)
(***************************************************************************)
EXTENDS Integers, Sequences, FiniteSets, FiniteSetsExt

CONSTANTS Data,            \* what a record carries: payload and delete flag
          Size,            \* bytes of a record in a file, length prefix included
          MaxSegments,     \* option WithMaxSegements
          MaxSegmentSize   \* option WithMaxSegementSize

ASSUME SizeAssumption == Size \in [Data -> Nat \ {0}]
\* defaultWALConfig and WALConfig.options never leave either limit at 0.
ASSUME MaxSegmentsAssumption == MaxSegments \in Nat \ {0}
ASSUME MaxSegmentSizeAssumption == MaxSegmentSize \in Nat \ {0}

\* WAL_Entry: the CRC always verifies, as every crash is a process crash.
Entry == [lsn : Nat, data : Data]

SegmentFile == [recs : Seq(Entry), size : Nat]

IsDirectory(S) == DOMAIN S \subseteq Nat \ {0} /\ S \in [DOMAIN S -> SegmentFile]

EmptyFile == [recs |-> << >>, size |-> 0]

EmptyDirectory == [n \in {} |-> EmptyFile]

\* The open log: the directory, the records in the bufio.Writer, the number
\* of the live segment (the one the writer writes to) and curSegmentSize.
IsLog(L) ==
  /\ IsDirectory(L.segs)
  /\ L.buf \in Seq(Entry)
  /\ L.last \in Nat
  /\ L.size \in Nat

Lsns(recs) == {recs[i].lsn : i \in DOMAIN recs}

LsnsOnDisk(S) == UNION {Lsns(S[n].recs) : n \in DOMAIN S}

Without(S, n) == [m \in DOMAIN S \ {n} |-> S[m]]

With(S, n, file) == [m \in DOMAIN S \cup {n} |-> IF m = n THEN file ELSE S[m]]

----------------------------------------------------------------------------
countLogFiles(S) == Cardinality(DOMAIN S)

findLastSegmentNumber(S) == Max(DOMAIN S)

\* findLastSequenceNumberInLogFile fails to open a file that is not there.
NoFile == -1

\* Where the walk from file n towards file 0 stops: at a file that has a
\* record, at a missing file, or at 0.
WalkStops(S, n) ==
  {j \in 0..n : j = 0 \/ j \notin DOMAIN S \/ S[j].recs # << >>}

\* Mutant: an empty file reads as "no record yet", without looking further.
findLastSequenceNumberInLogFile_NoWalk(S, n) ==
  IF n \notin DOMAIN S THEN NoFile
  ELSE IF S[n].recs = << >> THEN 0
  ELSE S[n].recs[Len(S[n].recs)].lsn

\* The LSN of the last record of file n or, as long as the file is empty, of
\* the file before it; 0 when files n, ..., 1 are all empty.
findLastSequenceNumberInLogFile(S, n) ==
  LET j == Max(WalkStops(S, n))
  IN  IF j = 0 THEN 0
      ELSE IF j \notin DOMAIN S THEN NoFile
      ELSE S[j].recs[Len(S[j].recs)].lsn

----------------------------------------------------------------------------
RemoveFails(S, n) == findLastSequenceNumberInLogFile(S, n) = NoFile

\* Mutant: the last snapshot is not consulted.
removeLogFile_Unguarded(S, n, lastSnapshot) == Without(S, n)

\* Keeps a file with a record above the last snapshot, deletes any other.
removeLogFile(S, n, lastSnapshot) ==
  IF findLastSequenceNumberInLogFile(S, n) > lastSnapshot THEN S ELSE Without(S, n)

\* The file removeLastLogFile asks for when the directory is full.
removeLastLogFile(last) == last - MaxSegments + 1

Full(S) == countLogFiles(S) >= MaxSegments

RollFails(L) == Full(L.segs) /\ RemoveFails(L.segs, removeLastLogFile(L.last))

\* The directory between removeLastLogFile and os.Create.
RollRemoved(L, lastSnapshot) ==
  IF Full(L.segs)
  THEN removeLogFile(L.segs, removeLastLogFile(L.last), lastSnapshot)
  ELSE L.segs

\* The directory between os.Create and the flush of the old writer.
RollCreated(L, lastSnapshot) ==
  With(RollRemoved(L, lastSnapshot), L.last + 1, EmptyFile)

\* Mutant: the file is not opened with O_APPEND.
FlushTo_Overwrites(S, L) ==
  IF L.last \in DOMAIN S
  THEN With(S, L.last, [recs |-> L.buf, size |-> L.size])
  ELSE S

\* Writer.Flush: the buffered records reach the file the writer was opened
\* on; if that file has been unlinked they are gone.
FlushTo(S, L) ==
  IF L.last \in DOMAIN S
  THEN With(S, L.last, [recs |-> S[L.last].recs \o L.buf, size |-> L.size])
  ELSE S

addNewLogFile(L, lastSnapshot) ==
  [segs |-> FlushTo(RollCreated(L, lastSnapshot), L),
   buf  |-> << >>,
   last |-> L.last + 1,
   size |-> 0]

flush(L) == [segs |-> FlushTo(L.segs, L), buf |-> << >>, last |-> L.last, size |-> L.size]

----------------------------------------------------------------------------
\* appendEntry rolls before it numbers the record when the segment is full ...
RollsFirst(L) == L.size >= MaxSegmentSize

AfterFirst(L, lastSnapshot) ==
  IF RollsFirst(L) THEN addNewLogFile(L, lastSnapshot) ELSE L

\* ... and again, after numbering it, when the record does not fit.  The size
\* compared is the one read on entry, so a first roll is followed by another.
RollsSecond(L, d) == L.size + Size[d] >= MaxSegmentSize

AfterSecond(L, d, lastSnapshot) ==
  LET M == AfterFirst(L, lastSnapshot)
  IN  IF RollsSecond(L, d) THEN addNewLogFile(M, lastSnapshot) ELSE M

Written(L, d, seqNo) ==
  [segs |-> L.segs,
   buf  |-> Append(L.buf, [lsn |-> seqNo, data |-> d]),
   last |-> L.last,
   size |-> L.size + Size[d]]

----------------------------------------------------------------------------
\* os.ReadDir sorts by name: "wal-log-10" comes before "wal-log-9".
NameKey(n) == IF n < 10 THEN 11 * n ELSE 11 * (n \div 10) + (n % 10) + 1

\* ReadAllEntries opens as many files as it counted, ending at the last one.
Readable(S) ==
  LET last == findLastSegmentNumber(S)
  IN  DOMAIN S = (last - countLogFiles(S) + 1) .. last
----------------------------------------------------------------------------
(* What is invariant of the directory.  B stands for the LSNs in the buffer, *)
(* A for the acknowledged LSNs and cov for the highest snapshot header.      *)

Ordered(recs) == \A i, j \in DOMAIN recs : i < j => recs[i].lsn < recs[j].lsn

OrderedDirectory(S) ==
  /\ \A n \in DOMAIN S : Ordered(S[n].recs)
  /\ \A m, n \in DOMAIN S : m < n =>
       \A a \in Lsns(S[m].recs), b \in Lsns(S[n].recs) : a < b

\* Of the files T that a step leaves of S, the live one alone has changed, and
\* that behind its records; the others are new and follow all there were.
OnlyGrown(S, T, live) ==
  \A n \in DOMAIN T :
    \/ /\ n \in DOMAIN S
       /\ \A k \in DOMAIN S[n].recs : k \in DOMAIN T[n].recs /\ T[n].recs[k] = S[n].recs[k]
       /\ n = live \/ T[n] = S[n]
    \/ \A m \in DOMAIN S : m < n

\* The file that held record l was removed, a later one exists, and every
\* record beyond the removed file is numbered above l.
Gone(S, B, l) ==
  /\ \A b \in B : l < b
  /\ \E n \in DOMAIN S : \E r \in 1 .. (n - 1) :
       /\ r \notin DOMAIN S
       /\ \A m \in DOMAIN S : r < m => \A x \in Lsns(S[m].recs) : l < x

DirInv(S, B, A, cov) ==
  /\ IsDirectory(S)
  /\ OrderedDirectory(S)
  /\ \A a \in LsnsOnDisk(S), b \in B : a < b
  /\ \A l \in A : l \in LsnsOnDisk(S) \/ Gone(S, B, l)
  /\ \A l \in A : l \in LsnsOnDisk(S) \/ l <= cov

\* The same of an open log, whose live segment is the last file.
LogInv(L, A, cov) ==
  /\ IsLog(L)
  /\ L.last \in DOMAIN L.segs
  /\ \A n \in DOMAIN L.segs : n <= L.last
  /\ Ordered(L.buf)
  /\ DirInv(L.segs, Lsns(L.buf), A, cov)
=============================================================================
