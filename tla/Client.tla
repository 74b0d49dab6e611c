------------------------------- MODULE Client -------------------------------
(***************************************************************************)
(* The client (internal/client) with the chunk server: concurrent SendFile *)
(* and ReadFile calls, the two worker pools their jobs run in (as the job  *)
(* queues that WorkerPool is shown to implement), the metadata server as a *)
(* map, and the connections to the chunk server.                           *)
(*                                                                         *)
(* A job's attempt is one step when it sends: what it puts on its own      *)
(* connection is seen only by that connection's handler, which reads it    *)
(* when it gets to it.  An attempt that reads is a step for the request    *)
(* and one for the answer.                                                 *)
(***************************************************************************)
EXTENDS ChunkServer, Integers

CONSTANTS Senders, Readers,   \* calls of SendFile and of ReadFile
          Names,              \* file names
          Files,              \* contents of files, sequences of blocks
          ChunkSize,          \* in blocks
          MaxChunks,          \* bound: no file has more chunks
          MaxWorkers, MaxRetries, BufferSize,   \* of both worker pools
          MaxFaults           \* bound on errors, crashes and steps of Close

ASSUME ClientAssumption ==
  /\ Senders \cap Readers = {}
  /\ ChunkSize \in Nat \ {0} /\ MaxChunks \in Nat
  /\ \A f \in Files : Len(f) <= ChunkSize * MaxChunks

VARIABLES
  alive,        \* the client process has not panicked
  call,         \* call[x]: a SendFile or ReadFile call
  metas,        \* the file store of the metadata server
  rest,         \* rest[j]: what is left in the reader chunk.Data
  conn,         \* conn[j]: the connection on which read job j waits
  dest,         \* dest[r]: the file that ReadFile writes
  faults,       \* errors of connections and storage, crashes and steps of Close so far
  poolClosed,   \* ClosePool has closed the connections to the metadata server
  sendState, sendQueue, sendTries, sendClosed, sendCancelled,   \* writeWorkerPool
  readState, readQueue, readTries, readClosed, readCancelled,   \* readWorkerPool
  \* history
  registered,   \* the files that were registered, by name
  lost          \* the server dropped an upload after the client had sent all of it

sendVars == <<sendState, sendQueue, sendTries, sendClosed, sendCancelled>>
readVars == <<readState, readQueue, readTries, readClosed, readCancelled>>
callVars == <<alive, call, metas, rest, conn, dest, faults, poolClosed, registered, lost>>
vars == <<serverVars, sendVars, readVars, callVars>>

Calls == Senders \cup Readers
SendJobs == Senders \X (1 .. MaxChunks)
ReadJobs == Readers \X Ids

SendPool == INSTANCE JobQueue WITH
  Jobs <- SendJobs, state <- sendState, queue <- sendQueue, tries <- sendTries,
  closed <- sendClosed, cancelled <- sendCancelled

ReadPool == INSTANCE JobQueue WITH
  Jobs <- ReadJobs, state <- readState, queue <- readQueue, tries <- readTries,
  closed <- readClosed, cancelled <- readCancelled

----------------------------------------------------------------------------
(* chunkFiles and buildFileMetadata *)

ChunkCount(f) ==
  (Len(f) \div ChunkSize) + (IF Len(f) % ChunkSize # 0 THEN 1 ELSE 0)

Offset(i) == (i - 1) * ChunkSize

ChunkLen(f, i) ==
  LET remain == Len(f) - Offset(i) IN IF remain < ChunkSize THEN remain ELSE ChunkSize

Chunk(f, i) == SubSeq(f, Offset(i) + 1, Offset(i) + ChunkLen(f, i))

ChunkId(f, i) == Hash[Chunk(f, i)]

\* The chunks of the files are contents that a chunk can have.
ASSUME ChunksAssumption ==
  /\ Files \subseteq Seq(Blocks)
  /\ \A f \in Files : \A i \in 1 .. ChunkCount(f) : Chunk(f, i) \in Contents

\* A map with the chunk id as key: of equal chunks the last one stays.
buildFileMetadata(f) ==
  [id \in {ChunkId(f, i) : i \in 1 .. ChunkCount(f)} |->
     LET last == CHOOSE i \in 1 .. ChunkCount(f) :
                   /\ ChunkId(f, i) = id
                   /\ \A k \in 1 .. ChunkCount(f) : ChunkId(f, k) = id => k <= i
     IN  [off |-> Offset(last), size |-> ChunkLen(f, last)]]

NoMeta == [id \in {} |-> 0]

\* Mutant: the reader has no limit.
ChunkData_ToEnd(f, i) ==
  <<Metadata(ChunkId(f, i))>> \o AsData(SubSeq(f, Offset(i) + 1, Len(f)))

\* The reader chunk.Data: the encoded metadata, then the chunk.
ChunkData(f, i) == <<Metadata(ChunkId(f, i))>> \o AsData(Chunk(f, i))

NoCall == [pc |-> "idle", name |-> NoFile, file |-> << >>, meta |-> NoMeta, next |-> 1]

Returned == {"ok", "failed", "cancelled"}

ClientInit ==
  /\ ServerInit
  /\ SendPool!Init
  /\ ReadPool!Init
  /\ alive = TRUE
  /\ call = [x \in Calls |-> NoCall]
  /\ metas = [n \in Names |-> NoMeta]
  /\ rest = [j \in SendJobs |-> << >>]
  /\ conn = [j \in ReadJobs |-> NoFile]
  /\ dest = [r \in Readers |-> << >>]
  /\ faults = 0
  /\ poolClosed = FALSE
  /\ registered = {}
  /\ lost = FALSE

Fault == faults < MaxFaults /\ faults' = faults + 1

\* The call returns.
Returning(x, how) == call' = [call EXCEPT ![x].pc = how]

----------------------------------------------------------------------------
(* SendFile *)

\* The metadata server gets the request and answers.
registerFileMetadata(n, f) ==
  /\ ~ poolClosed
  /\ metas' = [metas EXCEPT ![n] = buildFileMetadata(f)]
  /\ registered' = registered \cup {[name |-> n, file |-> f]}

\* requestMetaServer returns an error: from Get, or from the connection before or
\* after the file is registered.
RegisterFails(n, f) ==
  \/ poolClosed /\ UNCHANGED <<metas, registered, faults>>
  \/ Fault /\ UNCHANGED <<metas, registered>>
  \/ Fault /\ registerFileMetadata(n, f)

\* The caller's file is cut into chunks and registered.
SendFile(s, n, f) ==
  /\ alive
  /\ call[s].pc = "idle"
  /\ \/ /\ registerFileMetadata(n, f)
        /\ call' = [call EXCEPT ![s] = [pc |-> "wait", name |-> n, file |-> f,
                                        meta |-> buildFileMetadata(f), next |-> 1]]
        /\ rest' = [j \in SendJobs |->
                      IF j[1] = s /\ j[2] <= ChunkCount(f) THEN ChunkData(f, j[2]) ELSE rest[j]]
        /\ UNCHANGED faults
     \/ /\ RegisterFails(n, f)
        /\ Returning(s, "failed")
        /\ UNCHANGED rest
  /\ UNCHANGED <<serverVars, sendVars, readVars, alive, conn, dest, poolClosed, lost>>

\* How many tokens a job may have read, or can still read, of its chunk when the
\* file of the call s is closed: the metadata is in memory, and an attempt that is
\* running may have got to any place in the file before.
StillRead(s, j) ==
  LET inMemory == IF rest[j] # << >> /\ Head(rest[j]).tok = "metadata" THEN 1 ELSE 0
  IN  IF j[1] # s THEN {Len(rest[j])}
      ELSE IF sendState[j] = "running" THEN inMemory .. Len(rest[j])
      ELSE {inMemory}

\* The deferred file.Close: for the jobs of the call their readers end there.
FileClosed(s) ==
  \E n \in [SendJobs -> 0 .. ChunkSize + 1] :
    /\ \A j \in SendJobs : n[j] \in StillRead(s, j)
    /\ rest' = [j \in SendJobs |-> SubSeq(rest[j], 1, n[j])]

\* sendChunks submits one job per chunk; an error leaves the earlier ones to read
\* a file that SendFile closes.
SubmitSend(s) ==
  /\ alive
  /\ call[s].pc = "wait"
  /\ call[s].next <= ChunkCount(call[s].file)
  /\ LET i == call[s].next
     IN  \/ /\ SendPool!Submit(<<s, i>>)
            /\ call' = [call EXCEPT ![s].next = i + 1]
            /\ UNCHANGED rest
         \/ /\ SendPool!Refuse(<<s, i>>)
            /\ Returning(s, "failed")
            /\ FileClosed(s)
  /\ UNCHANGED <<serverVars, readVars, alive, metas, conn, dest, faults,
                 poolClosed, registered, lost>>

\* Mutant: a failed job does not count as a result.
Outcomes_Successes(states) == IF states = {"success"} THEN {"ok"} ELSE {}

\* How a call returns, given the states of its jobs: with the first result that
\* is no success, and results arrive in any order.
Outcomes(states) ==
  IF states = {"success"} THEN {"ok"} ELSE {o \in {"failed", "cancelled"} : o \in states}

\* The loop over the results ends with the last one; without any it never does.
CollectSend(s) ==
  /\ alive
  /\ call[s].pc = "wait"
  /\ LET states == {sendState[<<s, i>>] : i \in 1 .. ChunkCount(call[s].file)}
     IN  /\ states # {}
         /\ states \subseteq SendPool!Answers
         /\ \E o \in Outcomes(states) : Returning(s, o)
  /\ UNCHANGED <<serverVars, sendVars, readVars, alive, metas, rest, conn, dest, faults,
                 poolClosed, registered, lost>>

----------------------------------------------------------------------------
(* sendChunk *)

\* Not in use by the server or by a reading job.
FreeConn(c) ==
  /\ h[c].pc \in {"none", "done", "failed"}
  /\ \A j \in ReadJobs : conn[j] # c

\* Connections are all alike.
NewConn == CHOOSE c \in Conns : FreeConn(c)

\* A connection on which the client sends these tokens; how the sending ends.
Dial(tokens, end) ==
  /\ \E c \in Conns : FreeConn(c)
  /\ h' = [h EXCEPT ![NewConn] = [NoHandler EXCEPT !.pc = "decode"]]
  /\ in' = [in EXCEPT ![NewConn] = tokens]
  /\ out' = [out EXCEPT ![NewConn] = << >>]
  /\ cut' = [cut EXCEPT ![NewConn] = end]
  /\ UNCHANGED <<diskVars, crashes, overlapped, broken>>

SendMessage(j) ==
  LET f == call[j[1]].file IN Encode("write", ChunkLen(f, j[2]) + 1, rest[j])

\* An attempt has failed: the next one, or the answer of performWork.
SendAttemptFails(j) == SendPool!Retry(j) \/ SendPool!Fail(j)

\* Encode succeeds, or finds chunk.Data used up by an earlier attempt.  Nobody
\* waits for the server: the end of what was sent may still get lost.
SendChunk(j) ==
  /\ alive
  /\ sendState[j] = "running"
  /\ ~ sendCancelled
  /\ LET m == SendMessage(j)
     IN  /\ \/ Dial(m.out, "eof") /\ UNCHANGED <<faults, lost>>
            \/ /\ Fault
               /\ lost' = TRUE
               /\ \E n \in 0 .. Len(m.out) - 1 : Dial(SubSeq(m.out, 1, n), "reset")
         /\ rest' = [rest EXCEPT ![j] = m.rest]
         /\ IF m.ok THEN SendPool!Succeed(j) ELSE SendAttemptFails(j)
  /\ UNCHANGED <<readVars, alive, call, metas, conn, dest, poolClosed, registered>>

\* Writing fails after n tokens, of which the server gets some.  What CopyN had
\* read of chunk.Data is gone, with the token it could not write any more.
SendChunkBreaks(j) ==
  /\ alive
  /\ sendState[j] = "running"
  /\ ~ sendCancelled
  /\ Fault
  /\ LET m == SendMessage(j).out
     IN  \E n \in 0 .. Len(m) - 1, end \in {"eof", "reset"} :
           /\ \E k \in 0 .. n : Dial(SubSeq(m, 1, k), end)
           /\ rest' = [rest EXCEPT ![j] = SubSeq(@, n + 1, Len(@))]
  /\ SendAttemptFails(j)
  /\ UNCHANGED <<readVars, alive, call, metas, conn, dest, poolClosed, registered, lost>>

\* getChunkServerConn returns a nil connection with its error, and the deferred
\* conn.Close panics.  With a cancelled context the dial always fails.
SendDialFails(j) ==
  /\ alive
  /\ sendState[j] = "running"
  /\ IF sendCancelled THEN UNCHANGED faults ELSE Fault
  /\ alive' = FALSE
  /\ UNCHANGED <<serverVars, sendVars, readVars, call, metas, rest, conn, dest, poolClosed,
                 registered, lost>>

----------------------------------------------------------------------------
(* ReadFile *)

\* No file of that name gives empty metadata and no error.
fetchFileMetadata(n) == metas[n]

FetchFails ==
  \/ poolClosed /\ UNCHANGED faults
  \/ Fault

\* The destination is created and the metadata fetched.
ReadFile(r, n) ==
  /\ alive
  /\ call[r].pc = "idle"
  /\ \/ /\ ~ poolClosed
        /\ call' = [call EXCEPT ![r].pc = "wait", ![r].name = n, ![r].meta = fetchFileMetadata(n)]
        /\ UNCHANGED faults
     \/ FetchFails /\ Returning(r, "failed")
  /\ UNCHANGED <<serverVars, sendVars, readVars, alive, metas, rest, conn, dest, poolClosed,
                 registered, lost>>

\* processReadFile submits one job per chunk, in the order of the map.
SubmitRead(r) ==
  /\ alive
  /\ call[r].pc = "wait"
  /\ \E id \in DOMAIN call[r].meta :
       \/ ReadPool!Submit(<<r, id>>) /\ UNCHANGED call
       \/ ReadPool!Refuse(<<r, id>>) /\ Returning(r, "failed")
  /\ UNCHANGED <<serverVars, sendVars, alive, metas, rest, conn, dest, faults, poolClosed,
                 registered, lost>>

\* A file that could not be read completely is removed.
CollectRead(r) ==
  /\ alive
  /\ call[r].pc = "wait"
  /\ LET states == {readState[<<r, id>>] : id \in DOMAIN call[r].meta}
     IN  /\ states # {}
         /\ states \subseteq ReadPool!Answers
         /\ \E o \in Outcomes(states) :
              /\ Returning(r, o)
              /\ dest' = [dest EXCEPT ![r] = IF o = "ok" THEN @ ELSE << >>]
  /\ UNCHANGED <<serverVars, sendVars, readVars, alive, metas, rest, conn, faults, poolClosed,
                 registered, lost>>

----------------------------------------------------------------------------
(* readChunk *)

ReadRequest(j) ==
  /\ alive
  /\ readState[j] = "running"
  /\ conn[j] = NoFile
  /\ ~ readCancelled
  /\ Dial(Encode("read", 1, <<Key(j[2])>>).out, "open")
  /\ conn' = [conn EXCEPT ![j] = NewConn]
  /\ UNCHANGED <<sendVars, readVars, alive, call, metas, rest, dest, faults, poolClosed,
                 registered, lost>>

Info(j) == call[j[1]].meta[j[2]]

\* What has come in of the answer: nothing, or the header and some blocks.
Answered(j) == conn[j] # NoFile /\ out[conn[j]] # << >>

Received(j) == IF Answered(j) THEN Len(out[conn[j]]) - 1 ELSE 0

\* CopyN copies no more than the size in the metadata.
Copyable(j) == IF Received(j) < Info(j).size THEN Received(j) ELSE Info(j).size

\* WriterAtAdaptper: n blocks of the answer, each written behind the one before.
WrittenTo(s, j, n) ==
  LET end == Info(j).off + n
  IN  [k \in 1 .. (IF Len(s) > end \/ n = 0 THEN Len(s) ELSE end) |->
         IF k > Info(j).off /\ k <= end THEN out[conn[j]][k - Info(j).off + 1].block
         ELSE IF k <= Len(s) THEN s[k] ELSE Hole]

\* The deferred conn.Close.
Hangup(j) ==
  /\ cut' = [cut EXCEPT ![conn[j]] = "eof"]
  /\ out' = [out EXCEPT ![conn[j]] = << >>]
  /\ conn' = [conn EXCEPT ![j] = NoFile]
  /\ UNCHANGED <<diskVars, in, h, crashes, overlapped, broken>>

\* After a refused Submit ReadFile has returned and closed the file, in which the
\* jobs that are left cannot write any more.
Open(j) == call[j[1]].pc = "wait"

ReadChunkDone(j) ==
  /\ alive
  /\ readState[j] = "running"
  /\ Open(j)
  /\ Answered(j)
  /\ Copyable(j) = Info(j).size
  /\ dest' = [dest EXCEPT ![j[1]] = WrittenTo(@, j, Info(j).size)]
  /\ Hangup(j)
  /\ ReadPool!Succeed(j)
  /\ UNCHANGED <<sendVars, alive, call, metas, rest, faults, poolClosed, registered, lost>>

\* The answer is too short or the server has closed the connection.
ShortAnswer(j) ==
  /\ Copyable(j) < Info(j).size
  /\ \/ h[conn[j]].pc \in {"done", "failed"}
     \/ Answered(j) /\ Received(j) = Head(out[conn[j]]).len

\* Mutant: the error of an attempt is not returned.
ReadAttemptFails_Ignored(j) == ReadPool!Succeed(j)

ReadAttemptFails(j) == ReadPool!Retry(j) \/ ReadPool!Fail(j)

\* The attempt fails, by itself, at the read deadline or in the write to a closed
\* file, with a part of the chunk already in the file.
ReadChunkBreaks(j) ==
  /\ alive
  /\ readState[j] = "running"
  /\ conn[j] # NoFile
  /\ \/ ShortAnswer(j) /\ dest' = [dest EXCEPT ![j[1]] = WrittenTo(@, j, Copyable(j))]
                       /\ UNCHANGED faults
     \/ \E n \in 0 .. Copyable(j) :
          /\ dest' = [dest EXCEPT ![j[1]] = WrittenTo(@, j, n)]
          /\ IF Open(j) \/ Received(j) = 0 THEN Fault ELSE UNCHANGED faults
  /\ Hangup(j)
  /\ ReadAttemptFails(j)
  /\ UNCHANGED <<sendVars, alive, call, metas, rest, poolClosed, registered, lost>>

ReadDialFails(j) ==
  /\ alive
  /\ readState[j] = "running"
  /\ conn[j] = NoFile
  /\ IF readCancelled THEN UNCHANGED faults ELSE Fault
  /\ alive' = FALSE
  /\ UNCHANGED <<serverVars, sendVars, readVars, call, metas, rest, conn, dest, poolClosed,
                 registered, lost>>

----------------------------------------------------------------------------
(* The worker pools; Close *)

SendWorker(j) ==
  /\ alive
  /\ SendPool!Start(j) \/ SendPool!Abandon(j)
  /\ UNCHANGED <<serverVars, readVars, callVars>>

\* A worker looks at the context only between attempts.
ReadWorker(j) ==
  /\ alive
  /\ ReadPool!Start(j) \/ (conn[j] = NoFile /\ ReadPool!Abandon(j))
  /\ UNCHANGED <<serverVars, sendVars, callVars>>

\* Close runs three goroutines, one per pool; each that gets to its pool counts
\* as a fault.  A Shutdown that has closed its pool cancels the context when its
\* timeout fires or all workers have ended.
CloseSendPool ==
  /\ alive
  /\ \/ SendPool!Close /\ Fault
     \/ sendClosed /\ SendPool!Cancel /\ UNCHANGED faults
  /\ UNCHANGED <<serverVars, readVars, alive, call, metas, rest, conn, dest, poolClosed,
                 registered, lost>>

CloseReadPool ==
  /\ alive
  /\ \/ ReadPool!Close /\ Fault
     \/ readClosed /\ ReadPool!Cancel /\ UNCHANGED faults
  /\ UNCHANGED <<serverVars, sendVars, alive, call, metas, rest, conn, dest, poolClosed,
                 registered, lost>>

CloseConnPool ==
  /\ alive
  /\ ~ poolClosed
  /\ Fault
  /\ poolClosed' = TRUE
  /\ UNCHANGED <<serverVars, sendVars, readVars, alive, call, metas, rest, conn, dest,
                 registered, lost>>

----------------------------------------------------------------------------
Handler(c) ==
  /\ HandlerStep(c)
  /\ UNCHANGED <<sendVars, readVars, callVars>>

StorageError(c) ==
  /\ IOError(c)
  /\ Fault
  /\ lost' = (lost \/ h[c].pc \in {"open", "copy"})
  /\ UNCHANGED <<sendVars, readVars, alive, call, metas, rest, conn, dest, poolClosed, registered>>

Crash ==
  /\ ServerCrash
  /\ Fault
  /\ lost' = TRUE
  /\ UNCHANGED <<sendVars, readVars, alive, call, metas, rest, conn, dest, poolClosed, registered>>

CallStep(x) ==
  \/ x \in Senders /\ (SubmitSend(x) \/ CollectSend(x))
  \/ x \in Readers /\ (SubmitRead(x) \/ CollectRead(x))

SendStep(j) == SendWorker(j) \/ SendChunk(j)

ReadStep(j) ==
  \/ ReadWorker(j) \/ ReadRequest(j) \/ ReadChunkDone(j) \/ ReadChunkBreaks(j)

\* What goes on by itself, without a caller, a fault or Close.
Progress ==
  \/ \E x \in Calls : CallStep(x)
  \/ \E j \in SendJobs : SendStep(j)
  \/ \E j \in ReadJobs : ReadStep(j)
  \/ \E c \in Conns : Handler(c)

Next ==
  \/ \E s \in Senders, n \in Names, f \in Files : SendFile(s, n, f)
  \/ \E r \in Readers, n \in Names : ReadFile(r, n)
  \/ Progress
  \/ \E j \in SendJobs : SendDialFails(j) \/ SendChunkBreaks(j)
  \/ \E j \in ReadJobs : ReadDialFails(j)
  \/ CloseSendPool \/ CloseReadPool \/ CloseConnPool
  \/ \E c \in Conns : StorageError(c)
  \/ Crash

Spec == ClientInit /\ [][Next]_vars

\* As long as some goroutine of the client or of the server can run, one does:
\* every call, job and connection takes a bounded number of steps, so that no
\* fairness among them is needed.
FairSpec == Spec /\ WF_vars(Progress)

----------------------------------------------------------------------------
(* Properties *)

ChunkIds(s) == {ChunkId(call[s].file, i) : i \in 1 .. ChunkCount(call[s].file)}

\* A ReadFile that returns without error has written exactly a file that was
\* registered under the name, whatever happened to its chunks in between:
\* attempts that broke off in the middle of a chunk and were repeated, chunks
\* that arrive in any order, uploads of the name or of the chunk meanwhile
\* (read_file.go:75).  Two uploads of one chunk at once are exempt.
ReadExact ==
  \A r \in Readers :
    call[r].pc = "ok" /\ DOMAIN call[r].meta \cap overlapped = {}
      => [name |-> call[r].name, file |-> dest[r]] \in registered

\* The chunks of a SendFile that returned without error end up stored, though
\* no server ever said so, unless the server or the connection failed after the
\* last byte was sent or another upload of the same chunk broke off on top of
\* it: no attempt that stopped halfway counts as sent (write_file.go:117).
SentIsStored ==
  <>[](\A s \in Senders :
         call[s].pc = "ok" =>
           \/ lost
           \/ \A id \in ChunkIds(s) :
                (stored[id] # NoFile /\ Intact(id)) \/ id \in overlapped \cap broken)

\* Every call returns in the end that has a chunk to wait for, if the process
\* lives and nobody cancels the workers: failed attempts and answers that never
\* come are counted too (write_file.go:96, read_file.go:42).  It rests on pools
\* that go on taking jobs, as job queues do; a pool of module WorkerPool may be
\* left without workers (QueueServed), and then the call waits on.
CallsReturn ==
  <>[](\A x \in Calls :
         alive /\ ~ sendCancelled /\ ~ readCancelled /\ DOMAIN call[x].meta # {}
           => call[x].pc \in Returned)

----------------------------------------------------------------------------
(* The inductive invariant of the composition: what is in a chunk reader is  *)
(* what the chunk server supposes of an upload.                              *)

Metas == {NoMeta} \cup {buildFileMetadata(f) : f \in Files}

CallRec ==
  [pc : {"idle", "wait"} \cup Returned, name : Names \cup {NoFile},
   file : Files \cup {<< >>}, meta : Metas, next : Nat \ {0}]

CallsOK ==
  /\ call \in [Calls -> CallRec]
  /\ metas \in [Names -> Metas]
  /\ \A s \in Senders : call[s].pc = "wait" => call[s].file \in Files

\* A job that is submitted is one for a chunk of the caller's file.
SendJobsOK ==
  /\ rest \in [SendJobs -> Seq(Tokens)]
  /\ \A j \in SendJobs :
       /\ Uploads(rest[j])
       /\ sendState[j] # "new" =>
            /\ call[j[1]].pc # "idle" /\ call[j[1]].file \in Files
            /\ j[2] <= ChunkCount(call[j[1]].file)

\* What the composition adds to the chunk server's invariant: the client's jobs
\* are in the queue once, belong to the file of their call, and no attempt that
\* broke off leaves in a chunk reader what the server could not take for a part
\* of an upload (write_file.go:90, client.go:288).
ClientLink == SendPool!QueueInv /\ CallsOK /\ SendJobsOK

ClientInv == ChunkInv /\ ClientLink

=============================================================================
