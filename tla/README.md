# A TLA+ model of MyDFS

MyDFS stores files in chunks on a chunk server and keeps the metadata of files
(name, chunk ids, offsets, addresses) on a metadata server. This directory holds
TLA+ modules for its parts, TLC configurations that check them on small instances,
and TLAPS proofs about each of them. Line numbers refer to the sources under
`src/`.

## 1. The system

| Part | State | Operations | Talks to |
|---|---|---|---|
| write-ahead log (`internal/wal`) | segment files `wal-log-N`, snapshot file, bufio writer, last segment and sequence numbers, last snapshot header, `flushDone` channel | `InitWAL`, `EnableSnapshots`/`restore`, `AppendEntry`, timer flush, `takeSnapshot`, `performCleanup`, `Close` | file store, through the `Snapshotable` callbacks |
| file store (`internal/files`) | map from name to metadata | `AddFileMetadata`, `LookupFileMetadata`, `DeleteFileMetadata`, `Snapshot`, `Restore`, `Apply` | the WAL, which it calls and is called by |
| metadata server (`internal/metaserver`) | none of its own | `handleWrite`, `handleRead`, `handleDelete`, `handlePing`, one goroutine per connection | file store, protocol |
| worker pool (`internal/wokers`) | job channel, counters of workers, context, `submitMu` | `Submit`, `Shutdown`, workers with retries, `scaleWorkers` | used twice by the client |
| TCP transport (`internal/transport`) | listener, unbuffered connection channel, `shutdown` channel, wait group | `Listen`, accept loop, handler goroutines, `Close` | both servers |
| TCP pool (`internal/transport`) | channel of idle connections, `isClosed` | `NewTCPPool`, `Get` with health check, `Put`, `ClosePool` | client; metadata server |
| protocol (`internal/protocol`) | none; a stream position | `Encode`, `Decode` | all |
| chunk server and storage (`internal/chunkserver`, `internal/storage`) | chunk files, `.tmp` files | write with checksum and rename, read | client |
| client (`internal/client`) | two worker pools, a TCP pool | `SendFile`, `ReadFile`, `Close` | all servers |

What makes each hard, and what would make it correct:

* **WAL.** Appenders, the flush timer and the snapshot goroutine share the log;
  only the counters and single removals are under the mutex. Correct means: the
  files are in numbering order, an acknowledged record is in a file until a
  snapshot covers it, a restart never reuses an acknowledged number, every append
  returns, a crash leaves files the next start can read.
* **File store and metadata server.** A request is logged, waits for a flush and
  only then changes the map, without a lock; the snapshot copies the map while
  requests go on. Correct means: the server is a map that survives crashes.
* **Worker pool.** Two mutexes, four kinds of goroutines, a scaler that acts on
  counters it has read earlier. Correct means: it is a bounded queue of jobs, each
  tried a bounded number of times and answered once, with never more workers than
  allowed and no send on the closed channel; Submit and Shutdown return.
* **TCP transport and pool.** Shutdown races with connections that are being
  handed over, `ClosePool` with Get and Put, a health check with a server that no
  longer answers. Correct means: each connection always has one owner, who closes
  it; no call waits without end; a closed server is quiet.
* **Chunk server.** Handlers share the `.tmp` file of a chunk; uploads break off.
  Correct means: under a chunk's name is the content its id stands for.
* **Client.** Counts results to know that it has ended, retries with a reader that
  has been consumed, gets no answer to a write. Correct means: a call returns; what
  `ReadFile` wrote is the file; what `SendFile` sent is stored.

`PROJECT.json` lists every part under `components` and every such point, at its
line, under `hazards`.

## 2. Modules

| Module | Models |
|---|---|
| `WALSegments` | the directory of segments and the operations under the WAL's mutex, as operators |
| `WAL` (extends `WALSegments`) | the state machine of the log |
| `MetaServer` (extends `WAL`) | file store and handlers over the log |
| `MetaStore` | abstract: a map that survives crashes; `MetaServer` implements it |
| `WorkerPool` | the worker pool |
| `JobQueue` | abstract: a bounded job queue; `WorkerPool` implements it |
| `Protocol` | messages on a stream, `Encode` and `Decode` |
| `ChunkServer` (extends `Protocol`) | chunk handlers and chunk storage |
| `Client` (extends `ChunkServer`, two instances of `JobQueue`) | the client with its worker pools and the chunk server |
| `TCPTransport` | the goroutines and sockets of a server |
| `TCPPool` (extends `TCPTransport`) | the connection pool and its server |
| `MCWAL`, `MCMetaServer`, `MCWorkerPool`, `MCChunkServer`, `MCClient`, `MCTCPPool` | instances for TLC |
| `WALProofs`, `MetaServerProofs`, `MetaDurableProofs`, `WorkerPoolProofs`, `TCPPoolProofs`, `ChunkServerProofs`, `ClientProofs`, `ClientReadProofs` | theorems and proofs (section 5) |

The composition follows what shares state. The log and the file store are one
machine, the client and the chunk server another, the pool and its server a third.
The client uses the worker pool as `JobQueue`, which `WorkerPool` is proved to
implement, and the metadata server as a map (`MetaStore`), which `MetaServer`
implements in every behaviour that meets none of the flaws section 5 names.

### WALSegments and WAL

A directory is a function from segment numbers to files; a file is a sequence of
records (`lsn`, `data`) and a size. A record's data is a model value with a size
(`Size`); what matters of a payload is only whether it fits. `removeLogFile`,
`addNewLogFile`, `flush`, `findLastSequenceNumberInLogFile` keep their names.
`findLastSequenceNumberInLogFile` of the code calls itself on the previous file
while a file is empty; `WalkStops` gives the place where that walk ends, which
needs no recursion and can be proved about. `NameKey` is the order of
`os.ReadDir`, by name, for numbers below 100.

In `WAL` every section under `w.mu` is one action: `AppendEntry` (three outcomes:
the first rollover fails, the second fails, the record is buffered), `FlushTick`.
A caller then waits (`pc[c] = "waiting"`) until a flush closes the channel it
holds. `takeSnapshot` is `SnapBegin` (counters read under the mutex), `SnapRename`
or `SnapFails`, `SnapPublish` (line 58, without the mutex), `SnapList` and one
`CleanStep` per file. `Boot` is `InitWAL` and, with a snapshot file, the start of
`restore`; `BootFails` is the error return of both. `Crash` loses memory and keeps
files; `CrashInRoll` is a crash inside `addNewLogFile`, after the removal or after
the creation and before the flush. A crash is one of the process: what was handed
to the operating system stays, so no record is torn and every CRC verifies.
The history variables `acked` and `covered` record released records and the
highest header a snapshot file ever had.

### MetaServer and MetaStore

Each action of `MetaServer` is a step of the file store joined with the step of
`WAL` it calls. `data` is now a record of name, metadata and delete flag.
`AddFileMetadata` runs up to the wait in `AppendEntry`; `DeleteLookup` and
`DeleteAppend` are `DeleteFileMetadata` before and in its append; `Finish` is the
return of `AppendEntry` and the change of the map. `MetaBoot` restores the snapshot
and queues all entries, `ApplyInMemory` and `ApplyDelete` replay them one by one
(the latter appends to the log, as the code does). Chunk lists and addresses
(`handleWrite` sets every address to `:5001`) are part of the metadata value.
Reads and pings change nothing. `hist` records the operations of clients that are
in the log, under their sequence numbers, and `again` the deletes that a replay has
logged once more.

A record in a snapshot file is its length and its bytes, so records differ in size. A
snapshot file is therefore a sequence of cells; a record takes `Length` of them, and a
cell says which record it belongs to and where in it. `Snapshot` writes the map in any
order onto the front of the `.tmp` file, which is opened without `O_TRUNC`: what a longer
attempt left behind the new cells stays (`Over`), whole records or the rest of one.
`RestoreFrom` adds the records one after the other, a stale one too. If the cells are not
a sequence of complete records (not `Whole`) the next length that `Restore` reads is none;
it returns an error, and the server does not start (`CanRestore`, `MetaBootFails`).

`MetaStore` is the promise: operations begin, take effect and are answered in one
step, and a crash makes an unanswered one take effect or vanish. The refinement
mapping of `MetaServer` takes for the map (`Served`) the map in memory while the server
is up, what is left to replay applied to it during a restore, and otherwise `OnDisk`,
what `restore` makes of the files. A directory with a gap cannot be started from
(`ReadAllEntries`, `InitWAL`), so that such a server stays down; for the mapping `OnDisk`
stands then for the files behind the last gap (`Reach`).

### WorkerPool and JobQueue

A step is a section under `mu` or `submitMu`, a channel operation or one case of a
`select`. `submitMu` is held for reading by the jobs whose `sub` is `"sending"`; a
waiting writer keeps new readers out, as Go's `RWMutex` does. The wait group is
derived: the goroutines that are not `"none"`. Result channels never block, since
both callers make them as large as the number of jobs. Durations are not
modelled: a timer may fire at any time.

`JobQueue` has only the jobs: new, queued, running, answered, refused or, once the
context is cancelled, lost. `StateOf` and `TriesOf` are the mapping.

### Protocol, ChunkServer and Client

A connection carries tokens: a header with a type and a length, a chunk's metadata
(length prefix and gob), a chunk id, a block of a chunk. `Encode` gives what is
written, what is left in the payload reader and whether `CopyN` found enough.

Chunk files are inodes with names, since an `O_TRUNC` open changes the inode that
another handler writes and a rename moves whatever inode has the name. A handler
goes from system call to system call: `DecodeMessage`, `ReadChunkMetadata`,
`OpenTmp`, `CopyBlock` for each round of `io.Copy`, `VerifyAndRename`; `OpenStored`,
`StatStored`, `SendBlock`. `io.Copy` writes whatever bytes come within the announced
length: a token that is no block of a chunk goes into the file as the block `Foreign`
(`BlockOf`), as in an upload whose header announces more than its payload, so that the
next header is taken in. What a client sent ends with a close (`"eof"`, which a
`LimitReader` cannot tell from the end of the message) or breaks (`"reset"`). Every
open, copy, stat and send may fail, and the process may crash. MD5 is the constant
`Hash`, assumed injective on the contents that occur. `DefaultPathTransform` is left
out: it keeps the whole key as the file name, so an id has one path.

In `Client` a call of `SendFile` or `ReadFile` registers or fetches metadata,
submits its jobs one by one and counts results. A `Submit` that is refused ends
`SendFile`, whose deferred `file.Close` makes the jobs that are queued or running fail at
their next read (`FileClosed`, `StillRead`); a `ReadFile` that ends so closes its file
too, and the attempts still at work fail when they write to it (`Open`). The attempt of a send job is one
step: `SendChunk` (everything was written, of which the end may still get lost) or
`SendChunkBreaks` (an error after n tokens; what `CopyN` has taken from `chunk.Data`
is gone). Nobody but the handler of its connection sees what it put there, and the
handler reads it in steps of its own. A read attempt is a request and, later, the
end of the answer, with a part of the chunk written when it fails. A failed dial
panics (`alive`), since `conn.Close` is deferred before the error is tested.
`Close` closes the three pools in any order; each closing, each error and each crash
counts against `MaxFaults`. Contexts of callers are `context.Background()`, as in
`cmd/client`. History: `registered` and, for what the server dropped after the
client had sent all of it, `lost`.

### TCPTransport and TCPPool

A connection has a client's and a server's end. `Accept` takes it from the
listener's backlog; `Handoff` is the rendezvous on the unbuffered channel;
`HandoffShutdown` and `LoopShutdown` are the other cases of the two selects; `wg` is
the wait group's counter, as a number, because its accounting is a point to check.
A handler answers pings and ends when the client closes. In `TCPPool` the creating
goroutines of `NewTCPPool`, users that Get and Put, and `ClosePool` with its draining
goroutine run against that server. `Forget` is what the client does with every
connection it gets (`requestMetaServer` neither puts it back nor closes it). The
history variable `leaked` holds the connections that were forgotten or put back
after `ClosePool`.

## 3. Runs

| Run | Instance | Shows |
|---|---|---|
| `wal_safety` | 2 appenders and the restorer, 2 sizes, at most 2 files of size 2, starts at segment 8, 5 more numbers, segments to 14 | `TypeOK`, `LogOrdered`, `NoAckedEntryDropped`, `AckedBelowNext`, `FilesOnlyGrow`, and `IInv`, the invariant of the proofs |
| `wal_fresh` | the same from an empty directory, 4 numbers, 5 segments, `FairSpec` | `NoAckedEntryDropped`, `AckedBelowNext`, `AppendReturns` |
| `meta_durable` | 1 handler, 2 files, a first snapshot and 1 more, 1 crash, no removal by rollover | `StoreTypeOK`, `Durable`, `ReplayAgrees`, `ImplementsStore` |
| `pool_safety` | 3 jobs, 1 to 2 workers (3 goroutines), no retry, queue of 2, 1 Shutdown | `TypeOK`, `WorkersBounded`, `NoSendOnClosed`, `IInv`, `ImplementsQueue` |
| `pool_liveness` | 2 jobs, 0 to 1 workers, 1 retry, queue of 1, 1 Shutdown, `FairSpec` | `ImplementsQueue`, `Answered`, `SubmitReturns`, `ShutdownReturns` |
| `chunk_server` | 3 connections, uploads whole, wrong, too long or broken off after any token, reads, pings and unknown messages, I/O errors, 1 crash | `ServerTypeOK`, `StoredIntact`, `ReadsIntact`, `ChunkInv` |
| `client` | 1 `SendFile` and 1 `ReadFile` of a file of 2 chunks, 1 worker and 1 retry in each pool, 1 fault of any kind, `FairSpec` | `ReadExact`, `ClientLink`, `SentIsStored`, `CallsReturn` |
| `connections` | 2 connections, a pool of 1, 2 users, 1 fault, both closes, `FairSpec` | `PoolTypeOK`, `OneOwner`, `NoneForgotten`, `AcceptedServed`, `CloseMeansQuiet`, `ConnInv`, `LoopsEnd`, `PoolCallsReturn`, `ClosedPoolFreesServer` |
| `wal_restart` | as `wal_safety`, from an empty directory | **fails** `Restartable` |
| `meta_not_in_copy` | 2 handlers, 2 files, adds only, 1 snapshot, 1 crash | **fails** `Durable` |
| `pool_stuck` | as `pool_safety`, no Shutdown | **fails** `QueueServed` |
| `chunk_shared_tmp` | as `chunk_server` | **fails** `ChunkIntact` |

**Bounds.** `MaxSeqNo` and `MaxSegNo` bound appends; five records with two sizes
fill, overfill and skip segments, so both rollovers, double rollovers, empty
segments, removals that are refused, that succeed and that fail all happen, with a
snapshot and a crash at any point among them; starting at 8 they do so around the
tenth segment, where names no longer sort as numbers. `MaxCrashes` and
`MaxSnapshots` bound the metadata server: the directory it starts from already has a
snapshot, so one more is enough for a cleanup behind a snapshot and a restart from
either; it has one handler, one new snapshot and one crash because with two of either
the failures of section 4 occur, and its `MaxSegments` is above the number of segments,
so that only cleanups remove files. More handlers, snapshots, crashes and a limit that is
reached are the business of the theorems (section 5). In the pool three jobs are the fewest with which a
second worker is added (two queued, one active); they leave no room for retries within
the time of a run, so it is `pool_liveness` that repeats attempts, with two jobs. Three connections to the chunk
server are the fewest for two uploads that overlap under a reader; two blocks are the
fewest for a chunk of which a part is missing. A file of two chunks of different
length has an offset and a short last chunk; one fault and one retry are enough for an
attempt that is repeated and for one whose repetition fails too, since the reader of
its data is used up. In `connections` the channel has room for one connection, so a
Put meets a full pool, and the two connections let a user and the pool, or two users,
have one each.

**Deadlock** is checked for the log and the metadata server (the flush timer always
ticks, a failed boot is repeated) and not for the others, which really end.

**Fairness.** `WAL!FairSpec`: the flush timer keeps ticking, which `time.Ticker`
gives. `WorkerPool!FairSpec`: goroutines run, a timer fires, an attempt ends
(connections carry read and write deadlines), the scaler's ticker ticks. Nothing
is assumed of callers of Submit and Shutdown or of cancellation. Weak fairness is
enough: jobs are finite, so no Submit can be overtaken for ever.
`Client!FairSpec`: as long as a goroutine of the client or a handler can run, one
does; faults and Close need not happen. Calls, attempts and messages are finite, so
nothing can be overtaken for ever. It takes for granted that a pool that is not shut
down goes on to take its jobs, which `pool_stuck` shows the scaler can prevent.
`TCPPool!FairSpec`: the accept loop, the connection loop, each handler, the two
closes, the dialling goroutines and each Get run when they can, and their timers
fire; nobody has to call Get, Put or a close, and nothing has to fail.

Each property of a passing run has a mutant in `PROJECT.json`: a changed definition
(defined next to the original, commented "Mutant") under which TLC finds the
property violated.

**What the exemptions say.** `StoredIntact`, `ReadsIntact` and `ReadExact` except
chunks of which two uploads overlapped (`chunk_shared_tmp` shows why), and
`StoredIntact` keeps what still holds of those: once all uploads of a chunk have ended
and none broke off, it is right. `SentIsStored` excepts what was lost after the last
byte was sent, which the client cannot know. `CallsReturn` excepts a process that
panicked, cancelled pools and calls without a chunk (section 4), and rests on pools that
keep taking jobs. `NoneForgotten` and
`ClosedPoolFreesServer` except `leaked`.

## 4. What fails, and how

* `Restartable` (snapshot.go:66): `addNewLogFile` removes the oldest file and
  creates the new one before it flushes. A crash in between can leave only empty
  files behind a removed one, and `findLastSequenceNumberInLogFile` walks into the
  removed file: the server cannot start any more.
* `Durable` with two handlers: a record that is flushed but whose handler has not
  yet changed the map is below the header and not in the copy; the cleanup removes
  its segment. One handler is enough to lose it if the log is at its limit of files
  (`MaxSegments = 2`): the next append's rollover removes the file of a record that the
  header covers and the copy has not (`removeLogFile` compares with the header only), and
  a crash before the next snapshot loses it. The theorems exclude both by `InStep`
  (section 5).
* `QueueServed`: a closed worker is still in `totalWorkers` at the scaler's next
  ticks; the scaler closes all workers and blocks in one more send. Jobs are
  accepted and nobody will ever take them.
* `ChunkIntact` (README.md:39): an upload opens the `.tmp` file of another one and
  truncates it; the other, whose received bytes had the right checksum, renames it. If
  the later upload breaks off, the chunk stays damaged under its final name.

The same modules show further points that have no run of their own:

* `Durable` without a snapshot file (`StartSegment = 0`): `restore` returns before it
  reads the log, and what was logged before the first snapshot is gone;
* `Durable` with a replayed delete (`MaxCrashes = 2`): add, delete, add, crash; the
  replay logs the delete again behind the second add, and the second restart deletes
  the file;
* `Durable` with a replayed delete whose append fails (`MaxSegments = 2`, a delete larger than an
  add): the log is full of files that no snapshot covers, `DeleteFileMetadata` returns nil
  (file_store.go:56), and the deleted file stays in the map;
* `SubmitReturns` with two Shutdowns (`Closers` of two elements): the second returns
  without unlocking `submitMu`;
* with `MaxSegments = 1` the file `removeLastLogFile` asks for is the live one, and
  `NoAckedEntryDropped` fails after two appends; the theorems exclude this value;
* the number of files exceeds `maxSegements` (manager.go:39) when nothing is covered by a
  snapshot, and a file exceeds `maxSegmentSize` (manager.go:35) when a record does;
* a header may be lower than the one before it (a crash loses a record that a
  header already counted, and its number is issued again), so "covered by some
  header", as in `NoAckedEntryDropped`, is weaker than "covered by the header on
  disk";
* `performCleanup` ends with an error at an empty segment whose predecessor it has
  just removed;
* two handlers that add one file may change the map in the order opposite to the
  log (`ReplayAgrees` with `Callers = {h1, h2, restorer}`);
* a failed snapshot leaves a `.tmp` file that is not truncated (snapshot.go:31), and what
  of it is longer than the next copy becomes part of the next snapshot: a deleted file
  comes back from it (`ReplayAgrees` with `MaxSnapshots = 2`), or, when a name has been
  registered again with shorter metadata, the rest of a record makes `Restore` fail at
  every start (the same with two values of `Metas`, also without deletes);
* with `MinWorkers = 0` a Shutdown before the scaler's first tick drops a queued job;
* a file with two equal chunks cannot be read back: the metadata is a map with the
  content id as key, and only the last offset stays (`ReadExact` with
  `MCFiles == {<<1, 1, 1, 1>>}`);
* `SendFile` of an empty file and `ReadFile` of a name that is not registered wait for
  a result that nobody sends, and so does a call whose result a cancelled worker
  dropped (write_file.go:96, read_file.go:42);
* a failed dial to the chunk server ends the client process (write_file.go:110);
* with more connections than the default, `NewTCPPool` blocks with its mutex held
  (`Creators` larger than `ChanCap`, against `CapAssumption`).

## 5. Proofs

Eight modules hold theorems. They are about every value of the constants that the
named assumptions admit: any number of callers, jobs, workers, connections, files and
faults. The counters that bound the runs are constants too, and the proofs make no use
of their values. What a theorem supposes beyond the named assumptions is in its
statement. The inductive invariants of the log, the pool, the connections, the chunk
server and the client's part in it are invariants of runs as well; `StoreInv`, `KeepInv`
and `ReadLink`, which only the proofs need, are defined in the proof modules, and TLC
finds no violation of them on instances like those of `meta_durable` (two handlers, adds
and deletes, at most three files of the log, two crashes and two snapshots, with every
step held to the hypotheses of the theorem) and `client`.

| Module | Theorem | States |
|---|---|---|
| `WALProofs` | `Invariance` | `Spec => []IInv` |
| | `TypeCorrect`, `ReplayOrder`, `AckedEntriesKept`, `AckedNumbersNotReissued` | `TypeOK`, `LogOrdered`, `NoAckedEntryDropped`, `AckedBelowNext` |
| | `FilesAreNotRewritten` | `Spec => FilesOnlyGrow`, an action property |
| `MetaServerProofs` | `ServerImplementsLog` | `MetaSpec => Spec` of the log |
| | `ServerReplayOrder`, `ServerKeepsAcked`, `ServerNumbersOnce` | the last three of the log, of the server |
| | `ServerTyped` | `StoreTypeOK` |
| | `CopyRestored` | `RestoreFrom` of a copy of a map is the map |
| `MetaDurableProofs` | `ServerDurable`, `ServerReplayAgrees` | `MetaSpec /\ []Orderly /\ [][CleanCopy]_allVars` gives `Durable`, `ReplayAgrees` |
| | `ServerIsDurableMap` | under the same hypotheses `ImplementsStore` |
| `WorkerPoolProofs` | `PoolInvariance` | `Spec => []IInv` |
| | `PoolTypeCorrect`, `AtMostMaxWorkers`, `ClosedMeansNoSender` | `TypeOK`, `WorkersBounded`, `NoSendOnClosed` |
| | `PoolIsJobQueue` | `Spec => ImplementsQueue` |
| `TCPPoolProofs` | `ConnInvariance` | `Spec => []ConnInv` |
| | `PoolTypeCorrect`, `EachHasOneOwner`, `NoneIsForgotten`, `AcceptedAreServed`, `CloseIsQuiet` | `PoolTypeOK`, `OneOwner`, `NoneForgotten`, `AcceptedServed`, `CloseMeansQuiet` |
| `ChunkServerProofs` | `ChunkInvariance` | `ServerSpec => []ChunkInv` |
| | `ServerTypeCorrect`, `StoredStaysIntact`, `ReadsStayIntact` | `ServerTypeOK`, `StoredIntact`, `ReadsIntact` |
| `ClientProofs` | `ClientInvariance`, `ClientKeepsLink` | `Spec => []ClientInv`, of which `ClientLink` is the client's part |
| | `ClientChunksStored`, `ClientReadsIntact` | `StoredIntact`, `ReadsIntact`, with the client |
| | `ClientUsesQueues` | `Spec => SendPool!Spec /\ ReadPool!Spec` |
| `ClientReadProofs` | `ReadInvariance` | `Spec => []ReadLink` |
| | `ReadsAreExact` | `DistinctChunks => (Spec => []ReadExact)` |

**The log.** The theorems hold for every limit of files other than 1
(`ASSUME MaxSegments # 1`; section 4 says what happens with 1). None of the properties is
inductive. `AckedBelowNext` at a restart depends on what is left of the directory: the
number found is that of the last record of the last nonempty file, and a record that is
acknowledged but gone must be below it. So `IInv` says of every acknowledged record
(`DirInv`) that it is in a file, or that there is a missing file number below an
existing one behind which all records are higher (`Gone`): the walk of
`findLastSequenceNumberInLogFile` then either finds a higher record or runs into the gap
and fails, in which case the server does not start. To keep that, `IInv` adds: the live
segment is the last file (`LiveSegment`, `HasLast`), all numbers are at most
`lastSequenceNo` (`NumberedSoFar`), a waiting caller's record is in the buffer, so that a
flush puts it on disk before it is acknowledged (`WaitersBuffered`), headers in memory
are covered, and the cleanup works below the live segment (`SnapshotBounds`).
The first part of `WALProofs` has the facts about the directory, one lemma per operation
(create, remove, flush, write, roll over, the two halves of a rollover that a crash
separates); the second lifts them, one lemma per action, to the step. `FilesOnlyGrow`
needs of `IInv` that the live segment is the last file: what `os.Create` creates is then
behind all files, and no flush writes in another one.

**The metadata server: log, types, folds.** Every step of it is one of the log or leaves
the log alone; that needs only that what a handler logs is a record (`JobTypes`). The
theorems of the log carry over. `Restore`, `Apply` and `ReadAllEntries` are folds, for
which the library has no theorem that the provers can use. `FoldLeft` and `FlattenSeq`
are expanded to the recursive functions they are defined by (`FoldInSteps`, `FlatInSteps`), and what holds
after every step is shown by the least step after which it would not, whose predecessor
contradicts it. So it is proved that all entries of the files are in numbering order if
the files are, that the map after a replay has the operation of the last entry on each
file, and that a snapshot, written in any order of the map, restores to the map
(`CopyRestored`). `StoreInv` adds to the types that the entry of a waiting handler is in
the log under its number (`JobsInLog`).

**The metadata server: durability.** `Restores(E, R, F)` says that the last operation of
`E` on each file is in `R` or is what the map `F` says, with nothing in `R` on that file
to change it. `KeepInv` says this of the memory, with what has been flushed but not yet
put into the map or still has to be replayed (`MemoryKeeps`), and of the files, with the
records of the log above the header and the snapshot file (`DiskKeeps`). The snapshot
file, and the `.tmp` file once the copy is written, hold every operation up to their
header and can be restored (`CopyKeeps`): then whatever a cleanup or a rollover removes,
which is at most up to the header, is in the snapshot file. `Headers` keeps headers to
flushed records, so that a number issued again after a crash is above them, `HistInv` ties
buffer, log and history together, `AtWork` says that an operation in flight is the last
one on its file, and `Repeats` that what a replay logs again changes nothing: it is a
delete of a file that was deleted at that point of the history. There is a lemma per step
of the server. `MapOf` turns the invariant into an equation of maps, from which
`ReplayAgrees` and each step of the refinement follow.

The theorems are about any number of handlers, adds and deletes, every limit of files but
1 (the default of 3 among them, with rollovers that remove files), failed appends, servers
that start with an empty log, snapshots that fail, and crashes at any point, inside a rollover and a
cleanup too. What they suppose is that a behaviour does not meet one of the flaws by which
the code loses operations. Each hypothesis is about one line:

* `NoRace` (file_store.go:33): no two handlers are at the same file, whose order in the map
  and in the log could differ;
* `RelogsInOrder` (file_store.go:133): a delete that replay logs again is not numbered above
  an add of the file that is still to be replayed, and its append does not fail;
* `SnapshotInTime` (snapshot.go:75): no operation is flushed before the crash of a server
  that has no snapshot file, since `restore` then reads no log;
* `InStep`, in `CleanCopy` (snapshot.go:26): when a snapshot copies the map, its header is the
  number of a flushed record, and the handlers of all records up to it have changed the map;
* the rest of `CleanCopy` (snapshot.go:31): no failed attempt left the `.tmp` file longer than
  the copy that is now written.

Section 4 has for each of them a behaviour without it in which the properties fail. A
server that crashes inside a rollover or a cleanup may leave a log with a gap; it does not
start again (`wal_restart`), and what the theorems say of it is that its files still hold
every operation.

**The worker pool.** `WorkersBounded` counts goroutines, the code counts in
`totalWorkers` and `activeWorkers`, which are stepped at other moments. `IInv` ties them
together (`Counters`): `totalWorkers` lags behind by the one worker that `addWorker` has
started and not yet counted, and the scaler starts one only below the limit, though it
has read the counter in an earlier step. `OnePlace` says that a job is in one place only (its caller,
the channel, one worker) and `Outcomes` what a worker holds in each of its states. The
refinement goes action by action: `StateOf` and `TriesOf` of all other jobs do not
change (`JobFrame`), and `RoomToStart` derives from the counters that a worker that takes
a job is one of at most `MaxWorkers` running ones.

**The connections.** `ConnInv` has three parts: where a goroutine is tells which
connection it holds (`Points`); no connection has two owners (`Owners`) and an open one
has one (`OpenOwned`); and `ServerInv`, which says the same of the server's accept loop,
connection loop and handlers, and that `wg` counts those of them that run.

**The chunk server.** `StoredIntact` is about names and handlers that are long gone; it
follows from what holds of inodes. For an id whose uploads never overlapped (`Alone`),
the `.tmp` file holds exactly what its one writer has hashed and a file under the final
name, or one that a reader still has open, is complete and is no writer's. For an id
whose uploads overlapped but never broke off (`Whole`), each block of a file is the
right one or a writer that is still at work has it before it, unless one of the writers
at work has received something else (`InOrder`): what an `O_TRUNC` open takes away is
made good by whoever is still writing. That is why the property may promise such a chunk only once all its uploads
have ended. `OneChunk` (an inode never changes its id) keeps ids apart, and `Uploading`
says that what is still to come of an upload continues what has been hashed. The
theorems suppose of the constants that MD5 tells the contents that occur apart
(`HashAssumption`), that beginnings of contents are contents (`ContentsAssumption`) and,
of clients in general, that what follows the metadata of an upload, tokens of other
messages included, is a content, not necessarily the one it names, or the beginning of one
(`RequestsAssumption`).

**The client.** In `Client` there are no `Requests`: the invariant of the chunk server
holds because of what the client puts on its connections. `SendJobsOK` says that a chunk
reader, from which broken attempts have taken any number of tokens, still holds what
`Uploads` allows, and that a job has been taken only for a chunk of its call's file;
`CallsOK` that a call keeps that file; `QueueInv` of the job queue that a job is queued
once. `ChunksAssumption` supposes that the chunks of the files are contents.
`ClientUsesQueues` together with `PoolIsJobQueue` puts the two worker pools behind the
client: what it does to its queues is what `RetriableWorkerPool` offers.

**Reading.** `ReadExact` is about a call that has ended; `ReadLink` follows its jobs.
`MetasOK`: the metadata of a name, and of a call, is that of a file registered under the
name. `ReadJobsOK` and `ConnsOK`: no two attempts share a connection, and the handler of
an attempt's connection is where the request for that chunk puts it, with an answer so far
that is the beginning of one whole chunk with the id asked for (from `ReadsIntact`, which
keeps this while another upload replaces the chunk). `DestOK`: what a job that has
succeeded wrote is in its place (`InPlace`), and the destination is no longer than the
metadata says. The places that one metadata names do not overlap (`MetaOfChunk`), so that
a repeated attempt of another job writes elsewhere. None of that needs `DistinctChunks`,
and TLC finds it to hold for a file with equal chunks too; the last step does: only if
chunks differ does the metadata name every place of the file.

**Only model-checked.**

* Liveness, and the fairness it rests on: out of the reach of TLAPS.
* That the hypotheses of the durability theorems hold in the instance of `meta_durable`
  wherever its properties need them: the run has none of them.

## 6. Not modelled

* `WAL.Close` (never called); I/O errors of the log other than a missing segment; fsync
  and power loss; the write-through of a full 4096-byte buffer before a flush.
* `DefaultPathTransform`, MD5, gob and protobuf encoding, magic bytes and versions:
  pure functions whose results the models only compare.
* File descriptors (`FileStorage.Read` never closes its file, storage.go:91) and other
  resources that the garbage collector frees.
* The requests of the client to the metadata server as messages: the metadata server is
  a map in `Client`, and a request fails or takes effect as one step.
* Options that set durations; the main programs, which start a component and wait for a
  signal; generated protobuf code.

`PROJECT.json` gives the reason for each.

## 7. Plan

1. Done: `WALSegments`, `WAL` with proofs; `MetaServer`, `WorkerPool` with the abstract
   specifications they implement; `Protocol`, `ChunkServer`, `Client`, `TCPTransport`,
   `TCPPool`.
2. Done: the inductive invariants and safety theorems of the worker pool, the
   connections, the chunk server and the client's part in it; that the worker pool is a
   job queue; that the metadata server uses its log as `WAL` says.
3. Done: `ReadExact` for files whose chunks differ; the types, the durability and the
   refinement of the metadata server; that no file of the log is rewritten.
4. Done: durability with any number of handlers, deletes, rollovers and crashes, outside the
   flaws of the code. Left: the action property worth having of the chunk server (a final
   name never goes back to none).
5. Power loss and fsync in `WAL`; write errors of a flush.
