-------------------------- MODULE ClientReadProofs --------------------------
(***************************************************************************)
(* What a ReadFile of the client gets: the metadata of a registered file,  *)
(* each chunk on a connection of its own, and the chunks of the file in    *)
(* their places.  ClientProofs is about what a client sends and about its  *)
(* queues.                                                                 *)
(***************************************************************************)
EXTENDS ClientProofs, WellFoundedInduction

----------------------------------------------------------------------------
(* The inductive invariant *)

\* The metadata of a file that was registered under the name, or of no file.
OfRegistered(n, m) ==
  \/ m = NoMeta
  \/ \E f \in Files : [name |-> n, file |-> f] \in registered /\ m = buildFileMetadata(f)

MetasOK ==
  /\ \A n \in Names : OfRegistered(n, metas[n])
  /\ \A r \in Readers : OfRegistered(call[r].name, call[r].meta)

\* A job runs for its call's metadata, on a connection of its own.
ReadJobsOK ==
  /\ conn \in [ReadJobs -> Conns \cup {NoFile}]
  /\ \A j \in ReadJobs :
       /\ conn[j] # NoFile => readState[j] = "running"
       /\ \A i \in ReadJobs : conn[j] # NoFile /\ conn[i] = conn[j] => i = j
       /\ readState[j] # "new" => call[j[1]].pc # "idle" /\ j[2] \in DOMAIN call[j[1]].meta
  /\ \A r \in Readers :
       call[r].pc = "ok" =>
         /\ DOMAIN call[r].meta # {}
         /\ \A id \in DOMAIN call[r].meta : readState[<<r, id>>] = "success"

\* Behind the header c has carried the beginning of s so far.
Carried(c, s) ==
  /\ Len(out[c]) <= Len(s) + 1
  /\ \A k \in 1 .. Len(out[c]) - 1 : out[c][k + 1] = Data(s[k])

\* How far the handler is with the request for chunk id.
Asked(c, id) ==
  \/ h[c].pc = "decode" /\ out[c] = << >> /\ Len(in[c]) = 2
       /\ in[c][1] = Header("read", 1) /\ in[c][2] = Key(id)
  \/ h[c].pc = "key" /\ out[c] = << >> /\ Len(in[c]) = 1 /\ in[c][1] = Key(id)
  \/ h[c].pc = "stat" /\ h[c].id = id /\ out[c] = << >> /\ in[c] = << >>
  \/ h[c].pc = "send" /\ h[c].id = id /\ in[c] = << >>
       /\ Len(out[c]) = Len(h[c].buf) + 1 /\ Carried(c, h[c].buf)
  \/ h[c].pc \in {"decode", "done", "failed"} /\ in[c] = << >>

\* What the answer may be.
AnswerOK(c, id) ==
  /\ \A k \in 1 .. Len(out[c]) - 1 : out[c][k + 1].tok = "data"
  /\ out[c] # << >> /\ id \notin overlapped =>
       \E s \in Contents : Hash[s] = id /\ Carried(c, s)

ConnsOK ==
  \A j \in ReadJobs : conn[j] # NoFile => Asked(conn[j], j[2]) /\ AnswerOK(conn[j], j[2])

\* The chunk of j is in the file where the metadata has it.
InPlace(j) ==
  \E s \in Contents :
    /\ Hash[s] = j[2]
    /\ Info(j).off + Len(s) <= Len(dest[j[1]])
    /\ \A k \in 1 .. Len(s) : dest[j[1]][Info(j).off + k] = s[k]

DestOK ==
  /\ dest \in [Readers -> Seq(Blocks)]
  /\ \A r \in Readers :
       \/ dest[r] = << >>
       \/ /\ call[r].pc # "idle"
          /\ \E id \in DOMAIN call[r].meta :
               Len(dest[r]) <= call[r].meta[id].off + call[r].meta[id].size
  /\ \A j \in ReadJobs :
       call[j[1]].pc \in {"wait", "ok"} /\ readState[j] = "success" /\ j[2] \notin overlapped
         => InPlace(j)

ReadLink == ReadPool!QueueInv /\ MetasOK /\ ReadJobsOK /\ ConnsOK /\ DestOK

\* No chunk of a file has the content of another one.
DistinctChunks ==
  \A f \in Files : \A i, k \in 1 .. ChunkCount(f) : ChunkId(f, i) = ChunkId(f, k) => i = k

----------------------------------------------------------------------------
(* The metadata of a file *)

\* A set of naturals with an upper bound has a greatest element.
LEMMA Greatest ==
  ASSUME NEW T \in SUBSET Nat, T # {}, NEW n \in Nat, \A x \in T : x <= n
  PROVE  \E x \in T : \A y \in T : y <= x
<1>1. PICK U \in SUBSET Nat : U = {n - x : x \in T}
  <2>1. \A x \in T : n - x \in Nat
    OBVIOUS
  <2>2. {n - x : x \in T} \in SUBSET Nat
    BY <2>1
  <2> QED BY <2>2, Zenon
<1>2. U # {}
  BY <1>1
<1>3. PICK R : R = OpToRel(<, Nat)
  OBVIOUS
<1>4. PICK u \in U : \A v \in U : ~ (<<v, u>> \in R)
  BY <1>2, <1>3, NatLessThanWellFounded, WFMin, Zenon
<1>5. \A v \in U : ~ (v < u)
  BY <1>3, <1>4 DEF OpToRel
<1>6. PICK x \in T : u = n - x
  BY <1>1
<1>7. ASSUME NEW y \in T
      PROVE  y <= x
  BY <1>1, <1>5, <1>6
<1> QED BY <1>7

\* Of every file there is a natural number of chunks.
LEMMA CountOfChunks ==
  ASSUME NEW f \in Files
  PROVE  ChunkCount(f) \in Nat
<1>1. PICK m \in Nat : m = Len(f)
  BY ChunksAssumption
<1>2. m \div ChunkSize \in Nat
  BY Divided, ClientAssumption
<1> QED BY <1>1, <1>2 DEF ChunkCount

\* The metadata has of each chunk the place of the last one with its content.
LEMMA MetaOfChunk ==
  ASSUME NEW f \in Files, NEW id \in DOMAIN buildFileMetadata(f)
  PROVE  \E i \in 1 .. ChunkCount(f) :
           /\ ChunkId(f, i) = id
           /\ buildFileMetadata(f)[id] = [off |-> Offset(i), size |-> ChunkLen(f, i)]
<1> DEFINE Last(x) == /\ ChunkId(f, x) = id
                      /\ \A k \in 1 .. ChunkCount(f) : ChunkId(f, k) = id => k <= x
<1>1. PICK n \in Nat : n = ChunkCount(f)
  BY CountOfChunks
<1>2. PICK T \in SUBSET Nat : T = {i \in 1 .. n : ChunkId(f, i) = id}
  <2>1. {i \in 1 .. n : ChunkId(f, i) = id} \in SUBSET Nat
    OBVIOUS
  <2> QED BY <2>1, Zenon
<1>3. id \in {ChunkId(f, i) : i \in 1 .. n}
  BY <1>1 DEF buildFileMetadata
<1>4. T # {} /\ \A x \in T : x <= n
  BY <1>2, <1>3
<1>5. PICK x \in T : \A y \in T : y <= x
  BY <1>4, Greatest, Zenon
<1>6. \E i \in 1 .. n : Last(i)
  BY <1>1, <1>2, <1>5
<1>7. PICK i : i = CHOOSE x1 \in 1 .. n : Last(x1)
  OBVIOUS
<1>8. i \in 1 .. n /\ Last(i)
  <2> HIDE DEF Last
  <2> QED BY <1>6, <1>7, Zenon
<1>9. buildFileMetadata(f)[id] = [off |-> Offset(i), size |-> ChunkLen(f, i)]
  BY <1>1, <1>3, <1>7 DEF buildFileMetadata
<1> QED BY <1>1, <1>8, <1>9

\* Chunks of a file do not overlap.
LEMMA ChunksApart ==
  ASSUME NEW f \in Files, NEW i \in 1 .. ChunkCount(f), NEW k \in 1 .. ChunkCount(f), i < k
  PROVE  Offset(i) + ChunkLen(f, i) <= Offset(k)
<1>1. PICK z \in Nat \ {0} : z = ChunkSize
  BY ClientAssumption
<1>2. PICK n \in Nat : n = ChunkCount(f)
  BY CountOfChunks
<1>3. PICK o \in Nat, l \in Nat : o = Offset(i) /\ l = ChunkLen(f, i)
  BY ChunkParts
<1>4. l <= z
  <2>1. PICK m \in Nat : m = Len(f)
    BY ChunksAssumption
  <2>2. l = IF m - o < z THEN m - o ELSE z
    BY <1>1, <1>3, <2>1 DEF ChunkLen
  <2> QED BY <2>2
<1>5. PICK p \in Nat, q \in Nat : p = i - 1 /\ q = k - 1 /\ p + 1 <= q
  <2>1. i - 1 \in Nat /\ k - 1 \in Nat /\ (i - 1) + 1 <= k - 1
    BY <1>2
  <2> QED BY <2>1
<1>6. o = p * z /\ Offset(k) = q * z
  BY <1>1, <1>3, <1>5 DEF Offset
<1>7. (p + 1) * z <= q * z /\ (p + 1) * z = p * z + z
  BY <1>5
<1>8. o + z <= q * z
  BY <1>6, <1>7
<1> QED BY <1>3, <1>4, <1>6, <1>8

\* Every position of a file is in one of its chunks.
LEMMA ChunksCover ==
  ASSUME NEW f \in Files, NEW p \in 1 .. Len(f)
  PROVE  \E i \in 1 .. ChunkCount(f) : \E k \in 1 .. ChunkLen(f, i) : p = Offset(i) + k
<1>1. PICK n \in Nat, z \in Nat \ {0} : n = Len(f) /\ z = ChunkSize
  BY ClientAssumption, ChunksAssumption
<1>2. PICK e \in Nat : p = e + 1 /\ e < n
  <2>1. p - 1 \in Nat /\ p = (p - 1) + 1 /\ p - 1 < n
    BY <1>1
  <2> QED BY <2>1
<1>3. PICK q \in Nat, r \in 0 .. z - 1 : q = e \div z /\ e = z * q + r
  BY Divided
<1>4. PICK a \in Nat, b \in 0 .. z - 1 : a = n \div z /\ b = n % z /\ n = z * a + b
  BY Divided
<1>5. ChunkCount(f) = a + (IF b # 0 THEN 1 ELSE 0)
  BY <1>1, <1>4 DEF ChunkCount
<1>6. q <= a
  <2>1. SUFFICES ASSUME a + 1 <= q PROVE FALSE
    OBVIOUS
  <2>2. z * (a + 1) <= z * q /\ z * (a + 1) = z * a + z
    BY <2>1
  <2> QED BY <1>2, <1>3, <1>4, <2>2
<1>7. q + 1 \in 1 .. ChunkCount(f)
  <2>1. CASE q = a
    <3>1. z * q + r < z * a + b /\ z * q = z * a
      BY <1>2, <1>3, <1>4, <2>1
    <3>2. b # 0
      BY <3>1
    <3> QED BY <1>5, <2>1, <3>2
  <2>2. CASE q < a
    BY <1>5, <2>2
  <2> QED BY <1>6, <2>1, <2>2
<1>8. Offset(q + 1) = z * q
  BY <1>1 DEF Offset
<1>9. ChunkLen(f, q + 1) = IF n - z * q < z THEN n - z * q ELSE z
  BY <1>1, <1>8 DEF ChunkLen
<1>10. PICK o \in Nat : o = z * q
  OBVIOUS
<1>11. r + 1 \in 1 .. ChunkLen(f, q + 1) /\ p = o + (r + 1)
  BY <1>2, <1>3, <1>9, <1>10
<1> QED BY <1>7, <1>8, <1>10, <1>11

\* What the metadata says of a chunk.
LEMMA MetaParts ==
  ASSUME NEW m \in Metas, NEW id \in DOMAIN m
  PROVE  /\ id \in Ids /\ m[id].off \in Nat /\ m[id].size \in Nat \ {0}
         /\ \E s \in Contents : Hash[s] = id /\ Len(s) = m[id].size
         /\ \A d \in DOMAIN m :
              \/ d = id
              \/ m[id].off + m[id].size <= m[d].off
              \/ m[d].off + m[d].size <= m[id].off
<1>1. PICK f \in Files : m = buildFileMetadata(f)
  BY DEF Metas, NoMeta
<1>2. PICK n \in Nat : n = ChunkCount(f)
  BY CountOfChunks
<1>3. ASSUME NEW d \in DOMAIN m
      PROVE  \E i \in 1 .. n : ChunkId(f, i) = d /\ m[d].off = Offset(i) /\ m[d].size = ChunkLen(f, i)
  <2>1. PICK i \in 1 .. n : ChunkId(f, i) = d /\ m[d] = [off |-> Offset(i), size |-> ChunkLen(f, i)]
    BY <1>1, <1>2, <1>3, MetaOfChunk
  <2> QED BY <2>1
<1>4. PICK i \in 1 .. n : ChunkId(f, i) = id /\ m[id].off = Offset(i) /\ m[id].size = ChunkLen(f, i)
  BY <1>3
<1>5. Offset(i) \in Nat /\ ChunkLen(f, i) \in Nat \ {0} /\ Len(Chunk(f, i)) = ChunkLen(f, i)
  BY <1>2, ChunkParts
<1>6. Chunk(f, i) \in Contents /\ Hash[Chunk(f, i)] = id
  BY <1>2, <1>4, ChunksAssumption DEF ChunkId
<1>7. id \in Ids
  BY <1>6, HashAssumption
<1>8. ASSUME NEW d \in DOMAIN m, d # id
      PROVE  \/ m[id].off + m[id].size <= m[d].off
             \/ m[d].off + m[d].size <= m[id].off
  <2>1. PICK k \in 1 .. n : ChunkId(f, k) = d /\ m[d].off = Offset(k) /\ m[d].size = ChunkLen(f, k)
    BY <1>3
  <2>2. k < i \/ i < k
    BY <1>4, <1>8, <2>1
  <2>3. \/ Offset(i) + ChunkLen(f, i) <= Offset(k)
        \/ Offset(k) + ChunkLen(f, k) <= Offset(i)
    BY <1>2, <2>2, ChunksApart
  <2> QED BY <1>4, <2>1, <2>3
<1> QED BY <1>4, <1>5, <1>6, <1>7, <1>8

\* The right contents, all in their places, are the file.
LEMMA FileOfChunks ==
  ASSUME DistinctChunks, NEW f \in Files, NEW m, m = buildFileMetadata(f),
         NEW d \in Seq(Blocks),
         d = << >> \/ \E id \in DOMAIN m : Len(d) <= m[id].off + m[id].size,
         \A id \in DOMAIN m : \E s \in Contents :
            /\ Hash[s] = id
            /\ m[id].off + Len(s) <= Len(d)
            /\ \A k \in 1 .. Len(s) : d[m[id].off + k] = s[k]
  PROVE  d = f
<1>1. PICK n \in Nat, l \in Nat : n = ChunkCount(f) /\ l = Len(f) /\ f \in Seq(Blocks)
  BY CountOfChunks, ChunksAssumption
<1>2. ASSUME NEW id \in DOMAIN m, NEW i \in 1 .. n, ChunkId(f, i) = id
      PROVE  m[id].off = Offset(i) /\ m[id].size = ChunkLen(f, i)
  <2>1. PICK k \in 1 .. n : ChunkId(f, k) = id /\ m[id] = [off |-> Offset(k), size |-> ChunkLen(f, k)]
    BY <1>1, MetaOfChunk
  <2>2. i = k
    BY <1>1, <1>2, <2>1 DEF DistinctChunks
  <2> QED BY <2>1, <2>2
<1>3. Len(d) <= l
  <2>1. CASE d = << >>
    BY <2>1
  <2>2. ASSUME NEW id \in DOMAIN m, Len(d) <= m[id].off + m[id].size
        PROVE  Len(d) <= l
    <3>1. PICK i \in 1 .. n : ChunkId(f, i) = id
      BY <1>1, MetaOfChunk
    <3>2. Offset(i) \in Nat /\ ChunkLen(f, i) \in Nat /\ Offset(i) + ChunkLen(f, i) <= l
      BY <1>1, ChunkParts
    <3> QED BY <1>2, <2>2, <3>1, <3>2
  <2> QED BY <2>1, <2>2
<1>4. ASSUME NEW p \in 1 .. l
      PROVE  p <= Len(d) /\ d[p] = f[p]
  <2>1. PICK i \in 1 .. n, k \in Nat : k \in 1 .. ChunkLen(f, i) /\ p = Offset(i) + k
    <3>1. PICK i \in 1 .. n : \E k \in 1 .. ChunkLen(f, i) : p = Offset(i) + k
      BY <1>1, ChunksCover
    <3> QED BY <3>1
  <2>2. /\ Offset(i) \in Nat /\ ChunkLen(f, i) \in Nat
        /\ Len(Chunk(f, i)) = ChunkLen(f, i)
        /\ Chunk(f, i)[k] = f[Offset(i) + k]
    BY <1>1, <2>1, ChunkParts
  <2>3. PICK id \in DOMAIN m : id = ChunkId(f, i)
    BY <1>1 DEF buildFileMetadata
  <2>4. m[id].off = Offset(i)
    BY <1>2, <2>3
  <2>5. PICK s \in Contents :
          /\ Hash[s] = id
          /\ m[id].off + Len(s) <= Len(d)
          /\ \A e \in 1 .. Len(s) : d[m[id].off + e] = s[e]
    OBVIOUS
  <2>6. s = Chunk(f, i)
    BY <1>1, <2>3, <2>5, ChunksAssumption, HashAssumption DEF ChunkId
  <2>7. k \in 1 .. Len(s) /\ s[k] = f[p]
    BY <2>1, <2>2, <2>6
  <2>8. d[Offset(i) + k] = s[k]
    BY <2>4, <2>5, <2>7
  <2>9. Offset(i) + ChunkLen(f, i) <= Len(d)
    BY <2>2, <2>4, <2>5, <2>6
  <2> QED BY <2>1, <2>2, <2>7, <2>8, <2>9
<1>5. Len(d) = l
  <2>1. l = 0 \/ l \in 1 .. l
    OBVIOUS
  <2> QED BY <1>3, <1>4, <2>1
<1> QED BY <1>1, <1>4, <1>5, SameBlocks

----------------------------------------------------------------------------
(* The steps that a reading call can tell apart *)

(* The steps that a reading call can tell apart *)

\* What steps of others do to the connections.
OthersServe ==
  \/ UNCHANGED serverVars
  \/ \E t, end : Dial(t, end)
  \/ \E c \in Conns : HandlerStep(c) \/ IOError(c)
  \/ ServerCrash

\* A step that no reading call takes part in.
Elsewhere ==
  /\ UNCHANGED <<conn, dest, readState>>
  /\ \A r \in Readers : call'[r] = call[r]
  /\ OthersServe

\* Every step is one of a reading call or of its jobs, or goes on elsewhere.
LEMMA ReadSteps ==
  ASSUME ClientInv, [Next]_vars
  PROVE  \/ \E r \in Readers, n \in Names : ReadFile(r, n)
         \/ \E r \in Readers : SubmitRead(r) \/ CollectRead(r)
         \/ \E j \in ReadJobs :
              ReadWorker(j) \/ ReadRequest(j) \/ ReadChunkDone(j) \/ ReadChunkBreaks(j)
         \/ Elsewhere
<1>1. call \in [Calls -> CallRec] /\ \A s \in Senders, r \in Readers : s # r
  BY ClientAssumption DEF ClientInv, ClientLink, CallsOK
<1>2. ASSUME UNCHANGED <<conn, dest, call>>, UNCHANGED readState, OthersServe
      PROVE  Elsewhere
  BY <1>2 DEF Elsewhere
<1>3. ASSUME NEW s \in Senders, NEW e, call' = [call EXCEPT ![s] = e],
             UNCHANGED <<conn, dest>>, UNCHANGED readVars, UNCHANGED serverVars
      PROVE  Elsewhere
  BY <1>1, <1>3 DEF Elsewhere, OthersServe, readVars, Calls
<1>4. CASE UNCHANGED vars
  BY <1>2, <1>4 DEF vars, callVars, readVars, OthersServe
<1>5. ASSUME NEW s \in Senders, NEW n \in Names, NEW f \in Files, SendFile(s, n, f)
      PROVE  Elsewhere
  <2>1. UNCHANGED <<conn, dest>> /\ UNCHANGED readVars /\ UNCHANGED serverVars
    BY <1>5 DEF SendFile
  <2>2. CASE call' = [call EXCEPT ![s] = [pc |-> "wait", name |-> n, file |-> f,
                                          meta |-> buildFileMetadata(f), next |-> 1]]
    BY <1>3, <2>1, <2>2
  <2>3. CASE Returning(s, "failed")
    BY <1>3, <2>1, <2>3 DEF Returning
  <2> QED BY <1>5, <2>2, <2>3 DEF SendFile
<1>6. ASSUME NEW s \in Senders, SubmitSend(s) \/ CollectSend(s)
      PROVE  Elsewhere
  <2>1. UNCHANGED <<conn, dest>> /\ UNCHANGED readVars /\ UNCHANGED serverVars
    BY <1>6 DEF SubmitSend, CollectSend
  <2>2. ASSUME NEW how, Returning(s, how)
        PROVE  Elsewhere
    BY <1>3, <2>1, <2>2 DEF Returning
  <2>3. CASE SubmitSend(s)
    <3>1. CASE call' = [call EXCEPT ![s].next = call[s].next + 1]
      BY <1>3, <2>1, <3>1
    <3> QED BY <2>2, <2>3, <3>1 DEF SubmitSend
  <2> QED BY <1>6, <2>2, <2>3 DEF CollectSend
<1>7. ASSUME NEW j \in SendJobs, SendStep(j) \/ SendDialFails(j) \/ SendChunkBreaks(j)
      PROVE  Elsewhere
  <2>1. UNCHANGED <<conn, dest, call>> /\ UNCHANGED readState
    BY <1>7 DEF SendStep, SendWorker, SendChunk, SendDialFails, SendChunkBreaks, callVars, readVars
  <2>2. OthersServe
    BY <1>7 DEF SendStep, SendWorker, SendChunk, SendDialFails, SendChunkBreaks, OthersServe
  <2> QED BY <1>2, <2>1, <2>2
<1>8. CASE (\E j \in ReadJobs : ReadDialFails(j)) \/ CloseSendPool \/ CloseReadPool \/ CloseConnPool
  BY <1>2, <1>8 DEF ReadDialFails, CloseSendPool, CloseReadPool, CloseConnPool, readVars,
                    ReadPool!Close, ReadPool!Cancel, OthersServe
<1>9. CASE (\E c \in Conns : Handler(c) \/ StorageError(c)) \/ Crash
  BY <1>2, <1>9 DEF Handler, StorageError, Crash, readVars, callVars, OthersServe
<1>10. CASE Progress
  <2>1. CASE \E x \in Calls : CallStep(x)
    BY <1>6, <2>1 DEF CallStep
  <2>2. CASE \E j \in SendJobs : SendStep(j)
    BY <1>7, <2>2
  <2>3. CASE \E j \in ReadJobs : ReadStep(j)
    BY <2>3 DEF ReadStep
  <2>4. CASE \E c \in Conns : Handler(c)
    BY <1>9, <2>4
  <2> QED BY <1>10, <2>1, <2>2, <2>3, <2>4 DEF Progress
<1> QED BY <1>4, <1>5, <1>7, <1>8, <1>9, <1>10 DEF Next

\* What becomes of a reading job in a step.
LEMMA ReadStates ==
  ASSUME ClientInv, ReadPool!QueueInv, [Next]_vars, NEW j \in ReadJobs, readState'[j] # readState[j]
  PROVE  \/ /\ readState[j] = "new" /\ UNCHANGED <<conn, dest>>
            /\ call[j[1]].pc = "wait" /\ j[2] \in DOMAIN call[j[1]].meta
            /\ readState'[j] \in {"queued", "refused"}
         \/ readState[j] = "queued" /\ readState'[j] = "running" /\ UNCHANGED <<conn, dest>>
         \/ /\ readState[j] = "running" /\ conn[j] = NoFile
            /\ readState'[j] \in {"cancelled", "lost"} /\ UNCHANGED <<conn, dest>>
         \/ readState'[j] = "success" /\ ReadChunkDone(j)
         \/ readState'[j] = "failed" /\ ReadChunkBreaks(j)
<1>1. readState \in [ReadJobs -> ReadPool!States] /\ readQueue \in Seq(ReadJobs)
      /\ Line(readState, readQueue)
  BY DEF ReadPool!QueueInv, Line
<1>2. readState' # readState
  OBVIOUS
<1>3. ASSUME NEW r \in Readers, SubmitRead(r)
      PROVE  /\ readState[j] = "new" /\ UNCHANGED <<conn, dest>>
             /\ call[j[1]].pc = "wait" /\ j[2] \in DOMAIN call[j[1]].meta
             /\ readState'[j] \in {"queued", "refused"}
  <2>1. PICK id \in DOMAIN call[r].meta : ReadPool!Submit(<<r, id>>) \/ ReadPool!Refuse(<<r, id>>)
    BY <1>3 DEF SubmitRead
  <2>2. PICK t \in {"queued", "refused"} :
          readState' = [readState EXCEPT ![<<r, id>>] = t] /\ readState[<<r, id>>] = "new"
    BY <2>1 DEF ReadPool!Submit, ReadPool!Refuse
  <2>3. j = <<r, id>>
    BY <1>1, <2>2
  <2> QED BY <1>1, <1>3, <2>2, <2>3 DEF SubmitRead
<1>4. ASSUME NEW i \in ReadJobs, ReadWorker(i)
      PROVE  /\ UNCHANGED <<conn, dest>>
             /\ \/ readState[j] = "queued" /\ readState'[j] = "running"
                \/ /\ readState[j] = "running" /\ conn[j] = NoFile
                   /\ readState'[j] \in {"cancelled", "lost"}
  <2>1. UNCHANGED <<conn, dest>>
    BY <1>4 DEF ReadWorker, callVars
  <2>2. CASE ReadPool!Start(i)
    <3>1. readQueue # << >> /\ i = Head(readQueue) /\ readState' = [readState EXCEPT ![i] = "running"]
      BY <2>2 DEF ReadPool!Start
    <3>2. readState[i] = "queued"
      BY <1>1, <3>1, LineShrinks
    <3>3. j = i
      BY <1>1, <3>1
    <3> QED BY <1>1, <2>1, <3>1, <3>2, <3>3
  <2>3. CASE conn[i] = NoFile /\ ReadPool!Abandon(i)
    BY <1>1, <2>1, <2>3 DEF ReadPool!Abandon, ReadPool!Ends
  <2> QED BY <1>4, <2>2, <2>3 DEF ReadWorker
<1>5. ASSUME NEW i \in ReadJobs, ReadChunkDone(i)
      PROVE  readState'[j] = "success" /\ ReadChunkDone(j)
  <2>1. readState' = [readState EXCEPT ![i] = "success"]
    BY <1>5 DEF ReadChunkDone, ReadPool!Succeed, ReadPool!Ends
  <2>2. j = i
    BY <1>1, <2>1
  <2> QED BY <1>1, <1>5, <2>1, <2>2
<1>6. ASSUME NEW i \in ReadJobs, ReadChunkBreaks(i)
      PROVE  readState'[j] = "failed" /\ ReadChunkBreaks(j)
  <2>1. readState' = readState \/ readState' = [readState EXCEPT ![i] = "failed"]
    BY <1>6 DEF ReadChunkBreaks, ReadAttemptFails, ReadPool!Retry, ReadPool!Fail, ReadPool!Ends
  <2>2. j = i /\ readState' = [readState EXCEPT ![i] = "failed"]
    BY <1>1, <2>1
  <2> QED BY <1>1, <1>6, <2>2
<1>7. \A r \in Readers, n \in Names : ~ ReadFile(r, n)
  BY <1>2 DEF ReadFile, readVars
<1>8. (\A r \in Readers : ~ CollectRead(r)) /\ (\A i \in ReadJobs : ~ ReadRequest(i)) /\ ~ Elsewhere
  BY <1>2 DEF CollectRead, ReadRequest, Elsewhere, readVars
<1> QED BY <1>3, <1>4, <1>5, <1>6, <1>7, <1>8, ReadSteps

\* A step of the reading jobs' queue: what has become of a job that is answered
\* or given up stays.
LEMMA ReadQueueKeeps ==
  ASSUME ReadPool!QueueInv, [ReadPool!Next]_readVars
  PROVE  /\ ReadPool!QueueInv'
         /\ \A j \in ReadJobs :
              readState'[j] # readState[j] => readState[j] \in {"new", "queued", "running"}
<1> DEFINE Good == /\ ReadPool!QueueInv'
                   /\ \A j \in ReadJobs :
                        readState'[j] # readState[j] => readState[j] \in {"new", "queued", "running"}
<1>1. /\ readState \in [ReadJobs -> ReadPool!States] /\ readQueue \in Seq(ReadJobs)
      /\ readTries \in [ReadJobs -> Nat] /\ readClosed \in BOOLEAN /\ readCancelled \in BOOLEAN
      /\ Line(readState, readQueue)
  BY DEF ReadPool!QueueInv, Line
<1>2. ASSUME /\ readState' \in [ReadJobs -> ReadPool!States] /\ readQueue' \in Seq(ReadJobs)
             /\ readTries' \in [ReadJobs -> Nat] /\ readClosed' \in BOOLEAN
             /\ readCancelled' \in BOOLEAN /\ Line(readState', readQueue')
      PROVE  ReadPool!QueueInv'
  BY <1>2 DEF ReadPool!QueueInv, Line
<1>3. {"queued", "running"} \subseteq ReadPool!States
  BY DEF ReadPool!States
<1>4. CASE UNCHANGED readVars
  BY <1>1, <1>2, <1>4 DEF readVars
<1>5. ASSUME NEW j \in ReadJobs, ReadPool!Submit(j)
      PROVE  Good
  <2>1. /\ readState[j] = "new" /\ readState' = [readState EXCEPT ![j] = "queued"]
        /\ readQueue' = Append(readQueue, j) /\ UNCHANGED <<readTries, readClosed, readCancelled>>
    BY <1>5 DEF ReadPool!Submit
  <2>2. readQueue' \in Seq(ReadJobs) /\ Line(readState', readQueue')
    BY <1>1, <2>1, LineGrows
  <2> QED BY <1>1, <1>2, <1>3, <2>1, <2>2
<1>6. ASSUME NEW j \in ReadJobs, ReadPool!Start(j)
      PROVE  Good
  <2>1. /\ readQueue # << >> /\ j = Head(readQueue)
        /\ readState' = [readState EXCEPT ![j] = "running"]
        /\ readQueue' = Tail(readQueue) /\ UNCHANGED <<readTries, readClosed, readCancelled>>
    BY <1>6 DEF ReadPool!Start
  <2>2. readQueue' \in Seq(ReadJobs) /\ readState[j] = "queued" /\ Line(readState', readQueue')
    BY <1>1, <2>1, LineShrinks
  <2> QED BY <1>1, <1>2, <1>3, <2>1, <2>2
<1>7. ASSUME NEW j \in ReadJobs,
             ReadPool!Refuse(j) \/ ReadPool!Succeed(j) \/ ReadPool!Fail(j) \/ ReadPool!Abandon(j)
      PROVE  Good
  <2>1. PICK t \in ReadPool!States : readState' = [readState EXCEPT ![j] = t]
    BY <1>7 DEF ReadPool!Refuse, ReadPool!Succeed, ReadPool!Fail, ReadPool!Abandon,
                ReadPool!Ends, ReadPool!States, ReadPool!Answers
  <2>2. /\ readState[j] \in {"new", "running"} /\ readTries' \in [ReadJobs -> Nat]
        /\ UNCHANGED <<readQueue, readClosed, readCancelled>>
    BY <1>1, <1>7 DEF ReadPool!Refuse, ReadPool!Succeed, ReadPool!Fail, ReadPool!Abandon, ReadPool!Ends
  <2>3. Line(readState', readQueue)
    BY <1>1, <2>1, <2>2, LineStays
  <2> QED BY <1>1, <1>2, <2>1, <2>2, <2>3
<1>8. ASSUME NEW j \in ReadJobs, ReadPool!Retry(j)
      PROVE  Good
  <2>1. readTries' \in [ReadJobs -> Nat]
    BY <1>1, <1>8 DEF ReadPool!Retry
  <2> QED BY <1>1, <1>2, <1>8, <2>1 DEF ReadPool!Retry
<1>9. CASE ReadPool!Close \/ ReadPool!Cancel
  BY <1>1, <1>2, <1>9 DEF ReadPool!Close, ReadPool!Cancel
<1> QED BY <1>4, <1>5, <1>6, <1>7, <1>8, <1>9 DEF ReadPool!Next

\* What is registered stays; no chunk whose uploads overlapped ceases to be one.
LEMMA HistoryGrows ==
  ASSUME [Next]_vars
  PROVE  registered \subseteq registered' /\ overlapped \subseteq overlapped'
<1>1. ASSUME NEW c \in Conns, HandlerStep(c) \/ IOError(c)
      PROVE  overlapped \subseteq overlapped'
  BY <1>1 DEF HandlerStep, IOError, DecodeMessage, HandlePing, DecodeEnds, ReadChunkMetadata, OpenTmp,
              CopyBlock, CopyBreaks, VerifyAndRename, OpenStored, StatStored, SendBlock, SendEnds
<1>2. ASSUME NEW t, NEW end, Dial(t, end)
      PROVE  overlapped' = overlapped
  BY <1>2 DEF Dial
<1>3. CASE UNCHANGED vars
  BY <1>3 DEF vars, callVars, serverVars
<1>4. CASE \E s \in Senders, n \in Names, f \in Files : SendFile(s, n, f)
  BY <1>4 DEF SendFile, RegisterFails, registerFileMetadata, serverVars
<1>5. CASE \E r \in Readers, n \in Names : ReadFile(r, n)
  BY <1>5 DEF ReadFile, serverVars
<1>6. CASE \E x \in Calls : CallStep(x)
  BY <1>6 DEF CallStep, SubmitSend, CollectSend, SubmitRead, CollectRead, serverVars
<1>7. CASE \E j \in SendJobs : SendStep(j) \/ SendDialFails(j) \/ SendChunkBreaks(j)
  BY <1>2, <1>7 DEF SendStep, SendWorker, SendChunk, SendDialFails, SendChunkBreaks, callVars, serverVars
<1>8. CASE \E j \in ReadJobs : ReadStep(j) \/ ReadDialFails(j)
  BY <1>2, <1>8 DEF ReadStep, ReadWorker, ReadRequest, ReadChunkDone, ReadChunkBreaks, ReadDialFails,
                    Hangup, callVars, serverVars
<1>9. CASE CloseSendPool \/ CloseReadPool \/ CloseConnPool
  BY <1>9 DEF CloseSendPool, CloseReadPool, CloseConnPool, serverVars
<1>10. CASE (\E c \in Conns : Handler(c) \/ StorageError(c)) \/ Crash
  BY <1>1, <1>10 DEF Handler, StorageError, Crash, ServerCrash, callVars
<1> QED BY <1>3, <1>4, <1>5, <1>6, <1>7, <1>8, <1>9, <1>10 DEF Next, Progress

\* What the metadata server keeps, and a reading call gets of it, is of a file
\* that was registered under the name.
LEMMA MetasPart ==
  ASSUME ClientInv, MetasOK, [Next]_vars
  PROVE  MetasOK'
<1>1. /\ call \in [Calls -> CallRec] /\ metas \in [Names -> Metas] /\ Readers \subseteq Calls
      /\ \A s \in Senders, r \in Readers : s # r
  BY ClientAssumption DEF ClientInv, ClientLink, CallsOK, Calls
<1>2. ASSUME NEW n, NEW m, OfRegistered(n, m)
      PROVE  OfRegistered(n, m)'
  BY <1>2, HistoryGrows DEF OfRegistered
<1>3. ASSUME NEW n \in Names
      PROVE  OfRegistered(n, metas[n])'
  <2>1. PICK m : m = metas'[n]
    OBVIOUS
  <2>2. CASE metas' = metas
    <3>1. OfRegistered(n, m)
      BY <2>1, <2>2 DEF MetasOK
    <3> QED BY <1>2, <2>1, <3>1 DEF OfRegistered
  <2>3. ASSUME NEW k \in Names, NEW f \in Files, registerFileMetadata(k, f)
        PROVE  OfRegistered(n, metas[n])'
    <3>1. CASE k = n
      <4>1. m = buildFileMetadata(f) /\ [name |-> n, file |-> f] \in registered'
        BY <1>1, <2>1, <2>3, <3>1 DEF registerFileMetadata
      <4> QED BY <2>1, <4>1 DEF OfRegistered
    <3>2. CASE k # n
      <4>1. OfRegistered(n, m)
        BY <1>1, <2>1, <2>3, <3>2 DEF MetasOK, registerFileMetadata
      <4> QED BY <1>2, <2>1, <4>1 DEF OfRegistered
    <3> QED BY <3>1, <3>2
  <2>4. metas' = metas \/ \E k \in Names, f \in Files : registerFileMetadata(k, f)
    <3>1. CASE \E s \in Senders, k \in Names, f \in Files : SendFile(s, k, f)
      BY <3>1 DEF SendFile, RegisterFails
    <3>2. CASE Progress
      BY <3>2 DEF Progress, CallStep, SubmitSend, CollectSend, SubmitRead, CollectRead,
                  SendStep, SendWorker, SendChunk, ReadStep, ReadWorker, ReadRequest,
                  ReadChunkDone, ReadChunkBreaks, Handler, callVars
    <3> QED BY <3>1, <3>2 DEF Next, vars, callVars, ReadFile, SendDialFails, SendChunkBreaks,
               ReadDialFails, CloseSendPool, CloseReadPool, CloseConnPool, StorageError, Crash
  <2> QED BY <2>2, <2>3, <2>4
<1>4. ASSUME NEW r \in Readers
      PROVE  OfRegistered(call[r].name, call[r].meta)'
  <2>1. PICK n, m : n = call'[r].name /\ m = call'[r].meta
    OBVIOUS
  <2>2. CASE call'[r].name = call[r].name /\ call'[r].meta = call[r].meta
    <3>1. OfRegistered(n, m)
      BY <2>1, <2>2 DEF MetasOK
    <3> QED BY <1>2, <2>1, <3>1 DEF OfRegistered
  <2>3. ASSUME NEW k \in Names, ReadFile(r, k)
        PROVE  OfRegistered(call[r].name, call[r].meta)'
    <3>1. CASE Returning(r, "failed")
      BY <1>1, <2>2, <3>1 DEF Returning, CallRec
    <3>2. CASE call' = [call EXCEPT ![r].pc = "wait", ![r].name = k, ![r].meta = fetchFileMetadata(k)]
      <4>1. n = k /\ m = metas[k]
        BY <1>1, <2>1, <3>2 DEF fetchFileMetadata, CallRec
      <4>2. OfRegistered(n, m)
        BY <4>1 DEF MetasOK
      <4> QED BY <1>2, <2>1, <4>2 DEF OfRegistered
    <3> QED BY <2>3, <3>1, <3>2 DEF ReadFile
  <2>4. ASSUME NEW x \in Readers, NEW k \in Names, ReadFile(x, k), x # r
        PROVE  call'[r] = call[r]
    BY <1>1, <2>4 DEF ReadFile, Returning
  <2>5. ASSUME NEW x \in Readers, SubmitRead(x) \/ CollectRead(x)
        PROVE  call'[r].name = call[r].name /\ call'[r].meta = call[r].meta
    <3>1. ASSUME NEW how, Returning(x, how)
          PROVE  call'[r].name = call[r].name /\ call'[r].meta = call[r].meta
      BY <1>1, <3>1 DEF Returning, CallRec
    <3> QED BY <2>5, <3>1 DEF SubmitRead, CollectRead
  <2>6. ASSUME NEW j \in ReadJobs,
               ReadWorker(j) \/ ReadRequest(j) \/ ReadChunkDone(j) \/ ReadChunkBreaks(j)
        PROVE  call'[r] = call[r]
    BY <2>6 DEF ReadWorker, ReadRequest, ReadChunkDone, ReadChunkBreaks, callVars
  <2>7. CASE Elsewhere
    BY <2>2, <2>7 DEF Elsewhere
  <2> QED BY <2>2, <2>3, <2>4, <2>5, <2>6, <2>7, ReadSteps
<1> QED BY <1>3, <1>4 DEF MetasOK

\* What becomes of a reading call in a step.
LEMMA ReadCalls ==
  ASSUME ClientInv, [Next]_vars, NEW r \in Readers, call'[r] # call[r]
  PROVE  \/ /\ call[r].pc = "idle" /\ call'[r].pc = "wait"
            /\ UNCHANGED <<readState, conn, dest>>
         \/ /\ call[r].pc \in {"idle", "wait"} /\ call'[r].pc = "failed" /\ call'[r].meta = call[r].meta
            /\ UNCHANGED <<conn, dest>>
         \/ /\ call[r].pc = "wait" /\ CollectRead(r) /\ call'[r].meta = call[r].meta
            /\ call'[r].pc \in Returned
<1>1. call \in [Calls -> CallRec] /\ Readers \subseteq Calls
  BY DEF ClientInv, ClientLink, CallsOK, Calls
<1>2. ASSUME NEW x \in Readers, NEW how, Returning(x, how)
      PROVE  x = r /\ call'[r].pc = how /\ call'[r].meta = call[r].meta
  <2>1. x = r
    BY <1>1, <1>2 DEF Returning
  <2> QED BY <1>1, <1>2, <2>1 DEF Returning, CallRec
<1>3. ASSUME NEW x \in Readers, NEW n \in Names, ReadFile(x, n)
      PROVE  /\ call[r].pc = "idle" /\ UNCHANGED <<readState, conn, dest>>
             /\ call'[r].pc = "wait" \/ (call'[r].pc = "failed" /\ call'[r].meta = call[r].meta)
  <2>1. x = r
    BY <1>1, <1>3 DEF ReadFile, Returning
  <2>2. call[r].pc = "idle" /\ UNCHANGED <<readState, conn, dest>>
    BY <1>3, <2>1 DEF ReadFile, readVars
  <2>3. CASE Returning(x, "failed")
    BY <1>2, <2>2, <2>3
  <2>4. CASE call' = [call EXCEPT ![x].pc = "wait", ![x].name = n, ![x].meta = fetchFileMetadata(n)]
    BY <1>1, <2>1, <2>2, <2>4 DEF CallRec
  <2> QED BY <1>3, <2>3, <2>4 DEF ReadFile
<1>4. ASSUME NEW x \in Readers, SubmitRead(x)
      PROVE  /\ call[r].pc = "wait" /\ call'[r].pc = "failed" /\ call'[r].meta = call[r].meta
             /\ UNCHANGED <<conn, dest>>
  <2>1. Returning(x, "failed") /\ call[x].pc = "wait" /\ UNCHANGED <<conn, dest>>
    BY <1>4 DEF SubmitRead
  <2> QED BY <1>2, <2>1
<1>5. ASSUME NEW x \in Readers, CollectRead(x)
      PROVE  /\ call[r].pc = "wait" /\ CollectRead(r) /\ call'[r].meta = call[r].meta
             /\ call'[r].pc \in Returned
  <2>1. PICK o \in Returned : Returning(x, o) /\ call[x].pc = "wait"
    BY <1>5 DEF CollectRead, Outcomes, Returned
  <2> QED BY <1>2, <1>5, <2>1
<1>6. \A j \in ReadJobs :
        ~ (ReadWorker(j) \/ ReadRequest(j) \/ ReadChunkDone(j) \/ ReadChunkBreaks(j))
  BY DEF ReadWorker, ReadRequest, ReadChunkDone, ReadChunkBreaks, callVars
<1>7. ~ Elsewhere
  BY DEF Elsewhere
<1> QED BY <1>3, <1>4, <1>5, <1>6, <1>7, ReadSteps

\* What becomes of the connection of a reading job in a step.
LEMMA ReadConns ==
  ASSUME ClientInv, ReadJobsOK, [Next]_vars
  PROVE  \/ UNCHANGED conn
         \/ \E j \in ReadJobs : ReadRequest(j) \/ ReadChunkDone(j) \/ ReadChunkBreaks(j)
<1>1. \A r \in Readers, n \in Names : ReadFile(r, n) => UNCHANGED conn
  BY DEF ReadFile
<1>2. \A r \in Readers : SubmitRead(r) \/ CollectRead(r) => UNCHANGED conn
  BY DEF SubmitRead, CollectRead
<1>3. \A j \in ReadJobs : ReadWorker(j) => UNCHANGED conn
  BY DEF ReadWorker, callVars
<1>4. Elsewhere => UNCHANGED conn
  BY DEF Elsewhere
<1> QED BY <1>1, <1>2, <1>3, <1>4, ReadSteps

\* A new connection is no other job's.
LEMMA DialsFree ==
  ASSUME NEW t, NEW end, Dial(t, end)
  PROVE  NewConn \in Conns /\ FreeConn(NewConn) /\ \A j \in ReadJobs : conn[j] # NewConn
<1>1. NewConn \in Conns /\ FreeConn(NewConn)
  BY DEF Dial, NewConn
<1> QED BY <1>1 DEF FreeConn

\* The reading jobs' part of a step.
LEMMA ReadJobsPart ==
  ASSUME ClientInv, ReadPool!QueueInv, ReadJobsOK, [Next]_vars
  PROVE  ReadJobsOK'
<1>1. /\ conn \in [ReadJobs -> Conns \cup {NoFile}]
      /\ readState \in [ReadJobs -> ReadPool!States]
      /\ \A j \in ReadJobs : conn[j] # NoFile => readState[j] = "running"
      /\ \A j, i \in ReadJobs : conn[j] # NoFile /\ conn[i] = conn[j] => i = j
      /\ \A j \in ReadJobs :
           readState[j] # "new" => call[j[1]].pc # "idle" /\ j[2] \in DOMAIN call[j[1]].meta
  BY DEF ReadJobsOK, ReadPool!QueueInv
<1>3. ASSUME NEW j \in ReadJobs, ReadRequest(j)
      PROVE  /\ conn' \in [ReadJobs -> Conns \cup {NoFile}]
             /\ \A k, i \in ReadJobs : conn'[k] # NoFile /\ conn'[i] = conn'[k] => i = k
             /\ \A k \in ReadJobs : conn'[k] # NoFile => k = j \/ conn'[k] = conn[k]
  <2>1. conn' = [conn EXCEPT ![j] = NewConn]
    BY <1>3 DEF ReadRequest
  <2>2. NewConn \in Conns /\ \A k \in ReadJobs : conn[k] # NewConn
    BY <1>3, DialsFree DEF ReadRequest
  <2>3. PICK c \in Conns : c = NewConn
    BY <2>2
  <2> QED BY <1>1, <2>1, <2>2, <2>3
<1>4. ASSUME NEW j \in ReadJobs, ReadChunkDone(j) \/ ReadChunkBreaks(j)
      PROVE  conn' = [conn EXCEPT ![j] = NoFile]
  BY <1>4 DEF ReadChunkDone, ReadChunkBreaks, Hangup
<1>5. /\ conn' \in [ReadJobs -> Conns \cup {NoFile}]
      /\ \A k, i \in ReadJobs : conn'[k] # NoFile /\ conn'[i] = conn'[k] => i = k
  <2>1. CASE UNCHANGED conn
    BY <1>1, <2>1
  <2>2. ASSUME NEW j \in ReadJobs, conn' = [conn EXCEPT ![j] = NoFile]
        PROVE  /\ conn' \in [ReadJobs -> Conns \cup {NoFile}]
               /\ \A k, i \in ReadJobs : conn'[k] # NoFile /\ conn'[i] = conn'[k] => i = k
    BY <1>1, <2>2
  <2> QED BY <1>3, <1>4, <2>1, <2>2, ReadConns
<1>6. ASSUME NEW k \in ReadJobs, conn'[k] # NoFile
      PROVE  readState'[k] = "running"
  <2>1. CASE conn[k] # NoFile
    <3>1. readState[k] = "running"
      BY <1>1, <2>1
    <3>2. ~ ReadChunkDone(k) /\ ~ ReadChunkBreaks(k)
      BY <1>1, <1>4, <1>6
    <3> QED BY <2>1, <3>1, <3>2, ReadStates
  <2>2. CASE conn[k] = NoFile
    <3>1. PICK j \in ReadJobs : ReadRequest(j)
      BY <1>1, <1>4, <1>6, <2>2, ReadConns
    <3>2. k = j
      BY <1>3, <1>6, <2>2, <3>1
    <3> QED BY <3>1, <3>2 DEF ReadRequest, readVars
  <2> QED BY <2>1, <2>2
<1>7. ASSUME NEW k \in ReadJobs, readState'[k] # "new"
      PROVE  call'[k[1]].pc # "idle" /\ k[2] \in DOMAIN call'[k[1]].meta
  <2>1. PICK r \in Readers : r = k[1]
    BY DEF ReadJobs
  <2>2. call[r].pc # "idle" /\ k[2] \in DOMAIN call[r].meta
    <3>1. CASE readState[k] # "new"
      BY <1>1, <2>1, <3>1
    <3>2. CASE readState[k] = "new"
      <4>1. call[k[1]].pc = "wait" /\ k[2] \in DOMAIN call[k[1]].meta
        BY <1>7, <3>2, ReadStates DEF ReadChunkDone, ReadChunkBreaks
      <4> QED BY <2>1, <4>1
    <3> QED BY <3>1, <3>2
  <2>3. call'[r].pc # "idle" /\ call'[r].meta = call[r].meta
    BY <2>2, ReadCalls DEF Returned
  <2> QED BY <2>1, <2>2, <2>3
<1>8. ASSUME NEW r \in Readers, call'[r].pc = "ok"
      PROVE  /\ DOMAIN call'[r].meta # {}
             /\ \A id \in DOMAIN call'[r].meta : readState'[<<r, id>>] = "success"
  <2>1. \A id \in DOMAIN call[r].meta : <<r, id>> \in ReadJobs
    <3>1. call[r].meta \in Metas
      BY DEF ClientInv, ClientLink, CallsOK, CallRec, Calls
    <3> QED BY <3>1, MetaParts DEF ReadJobs
  <2>2. CASE call'[r] = call[r]
    <3>1. \A id \in DOMAIN call[r].meta : readState[<<r, id>>] = "success"
      BY <1>8, <2>2 DEF ReadJobsOK
    <3>2. \A id \in DOMAIN call[r].meta : readState'[<<r, id>>] = "success"
      BY <2>1, <3>1, ReadPoolPart, ReadQueueKeeps
    <3> QED BY <1>8, <2>2, <3>2 DEF ReadJobsOK
  <2>3. CASE CollectRead(r) /\ call'[r].meta = call[r].meta
    <3>1. PICK states : /\ states = {readState[<<r, id>>] : id \in DOMAIN call[r].meta} /\ states # {}
                        /\ \E o \in Outcomes(states) : Returning(r, o)
      BY <2>3 DEF CollectRead
    <3>2. PICK o \in Outcomes(states) : Returning(r, o)
      BY <3>1
    <3>3. o = "ok"
      BY <1>8, <3>2 DEF Returning, ClientInv, ClientLink, CallsOK, CallRec, Calls
    <3>4. states = {"success"}
      BY <3>2, <3>3 DEF Outcomes
    <3>5. readState' = readState
      BY <2>3 DEF CollectRead, readVars
    <3> QED BY <2>3, <3>1, <3>4, <3>5
  <2> QED BY <1>8, <2>2, <2>3, ReadCalls
<1> QED BY <1>5, <1>6, <1>7, <1>8 DEF ReadJobsOK

----------------------------------------------------------------------------
(* The connections of the reading jobs *)

\* A handler works on its own connection.
LEMMA HandlersApart ==
  ASSUME ChunkInv, NEW d \in Conns, HandlerStep(d) \/ IOError(d), NEW c \in Conns, c # d
  PROVE  h'[c] = h[c] /\ in'[c] = in[c] /\ out'[c] = out[c]
<1>1. h \in [Conns -> HandlerRec] /\ in \in [Conns -> Seq(Tokens)] /\ out \in [Conns -> Seq(Tokens)]
  BY DEF ChunkInv, ServerTypeOK, HandlerRec
<1>2. ASSUME NEW how, Returns(d, how)
      PROVE  h'[c] = h[c] /\ in'[c] = in[c]
  BY <1>1, <1>2 DEF Returns
<1>3. ASSUME NEW n, Consume(d, n)
      PROVE  in'[c] = in[c]
  BY <1>1, <1>3 DEF Consume
<1>4. CASE DecodeMessage(d)
  BY <1>1, <1>2, <1>3, <1>4 DEF DecodeMessage
<1>5. CASE HandlePing(d)
  BY <1>1, <1>2, <1>3, <1>5 DEF HandlePing
<1>6. CASE DecodeEnds(d)
  BY <1>2, <1>6 DEF DecodeEnds
<1>7. CASE ReadChunkMetadata(d)
  BY <1>1, <1>2, <1>3, <1>7 DEF ReadChunkMetadata
<1>8. CASE OpenTmp(d)
  BY <1>1, <1>8 DEF OpenTmp, connVars
<1>9. CASE CopyBlock(d)
  BY <1>1, <1>3, <1>9 DEF CopyBlock
<1>10. CASE CopyBreaks(d) \/ IOError(d)
  BY <1>2, <1>10 DEF CopyBreaks, IOError
<1>11. CASE VerifyAndRename(d)
  BY <1>1, <1>2, <1>11 DEF VerifyAndRename
<1>12. CASE OpenStored(d)
  BY <1>1, <1>2, <1>3, <1>12 DEF OpenStored
<1>13. CASE StatStored(d) \/ SendEnds(d)
  BY <1>1, <1>13 DEF StatStored, SendEnds, connVars
<1>14. CASE SendBlock(d)
  BY <1>1, <1>2, <1>14 DEF SendBlock
<1> QED BY <1>4, <1>5, <1>6, <1>7, <1>8, <1>9, <1>10, <1>11, <1>12, <1>13, <1>14 DEF HandlerStep

\* The handler goes on with a request to read, and with nothing else.
LEMMA ServesRequest ==
  ASSUME ChunkInv, NEW c \in Conns, NEW id \in Ids, Asked(c, id), HandlerStep(c) \/ IOError(c)
  PROVE  Asked(c, id)' /\ (h'[c].pc = "send" \/ out'[c] = out[c])
<1>1. /\ h \in [Conns -> HandlerRec] /\ in \in [Conns -> Seq(Tokens)] /\ out \in [Conns -> Seq(Tokens)]
      /\ h[c].pc = "stat" => h[c].buf = << >>
  BY DEF ChunkInv, ServerTypeOK, HandlerRec, PointsOK
<1>2. ASSUME NEW how \in {"done", "failed"}, Returns(c, how), UNCHANGED out
      PROVE  Asked(c, id)' /\ out'[c] = out[c]
  <2>1. h'[c].pc = how /\ in'[c] = << >>
    BY <1>1, <1>2 DEF Returns, NoHandler
  <2> QED BY <1>2, <2>1 DEF Asked
<1>3. CASE h[c].pc = "decode"
  <2>1. DecodeMessage(c) \/ HandlePing(c) \/ DecodeEnds(c)
    BY <1>3 DEF HandlerStep, IOError, ReadChunkMetadata, OpenTmp, CopyBlock, CopyBreaks,
                VerifyAndRename, OpenStored, StatStored, SendBlock, SendEnds
  <2>2. CASE DecodeEnds(c)
    BY <1>2, <2>2 DEF DecodeEnds
  <2>3. CASE ~ DecodeEnds(c)
    <3>1. in[c] # << >>
      BY <2>1, <2>3 DEF DecodeMessage, HandlePing, Decodes
    <3>2. PICK t \in Seq(Tokens) :
            t = in[c] /\ Len(t) = 2 /\ t[1] = Header("read", 1) /\ t[2] = Key(id) /\ out[c] = << >>
      BY <1>1, <1>3, <3>1 DEF Asked
    <3>3. Head(t) = Header("read", 1)
      BY <3>2
    <3>4. Head(t).type = "read" /\ Head(t).len = 1
      BY <3>3 DEF Header
    <3>5. DecodeMessage(c)
      BY <2>1, <2>3, <3>2, <3>4 DEF HandlePing
    <3>6. Consume(c, 1) /\ h' = [h EXCEPT ![c].pc = "key", ![c].left = 1, ![c].buf = << >>] /\ UNCHANGED out
      <4>1. PICK m : m = Head(in[c]) /\ m.type = "read" /\ m.len = 1
        BY <3>2, <3>4
      <4>2. /\ Consume(c, 1) /\ UNCHANGED out
            /\ h' = [h EXCEPT ![c].pc = CASE m.type = "write" -> "metadata" [] m.type = "read" -> "key"
                                          [] OTHER -> "decode",
                              ![c].left = m.len, ![c].buf = << >>]
        BY <3>5, <4>1 DEF DecodeMessage
      <4>3. (CASE m.type = "write" -> "metadata" [] m.type = "read" -> "key" [] OTHER -> "decode") = "key"
        BY <4>1
      <4> QED BY <4>1, <4>2, <4>3
    <3>7. h'[c].pc = "key"
      BY <1>1, <3>6 DEF HandlerRec
    <3>8. PICK u \in Seq(Tokens) : u = SubSeq(t, 2, 2) /\ Len(u) = 1 /\ u[1] = t[2]
      <4>1. SubSeq(t, 2, 2) \in Seq(Tokens) /\ Len(SubSeq(t, 2, 2)) = 1 /\ SubSeq(t, 2, 2)[1] = t[2]
        BY <3>2
      <4> QED BY <4>1, Zenon
    <3>9. in'[c] = u
      <4>1. in'[c] = SubSeq(t, 1 + 1, Len(t))
        BY <1>1, <3>2, <3>6 DEF Consume
      <4>2. 1 + 1 = 2 /\ Len(t) = 2
        BY <3>2
      <4> QED BY <3>8, <4>1, <4>2
    <3> QED BY <3>2, <3>6, <3>7, <3>8, <3>9 DEF Asked
  <2> QED BY <2>2, <2>3
<1>4. CASE h[c].pc = "key"
  <2>1. OpenStored(c)
    BY <1>4 DEF HandlerStep, IOError, DecodeMessage, HandlePing, DecodeEnds, ReadChunkMetadata, OpenTmp,
                CopyBlock, CopyBreaks, VerifyAndRename, StatStored, SendBlock, SendEnds
  <2>2. PICK t \in Seq(Tokens) : t = in[c] /\ Len(t) = 1 /\ t[1] = Key(id) /\ out[c] = << >>
    BY <1>1, <1>4 DEF Asked
  <2>3. Head(t) = Key(id) /\ Head(t).id = id
    <3>1. Head(t) = Key(id)
      BY <2>2
    <3> QED BY <3>1 DEF Key
  <2>4. CASE Returns(c, "failed")
    BY <1>2, <2>1, <2>4 DEF OpenStored
  <2>5. CASE ~ Returns(c, "failed")
    <3>1. /\ Consume(c, 1) /\ UNCHANGED out
          /\ h' = [h EXCEPT ![c].pc = "stat", ![c].id = id, ![c].ino = stored[id], ![c].left = 0]
      BY <2>1, <2>2, <2>3, <2>5 DEF OpenStored
    <3>2. h'[c].pc = "stat" /\ h'[c].id = id
      BY <1>1, <3>1 DEF HandlerRec
    <3>3. SubSeq(t, 2, 1) = << >>
      BY <2>2
    <3>4. in'[c] = << >>
      <4>1. in'[c] = SubSeq(t, 1 + 1, Len(t))
        BY <1>1, <2>2, <3>1 DEF Consume
      <4>2. 1 + 1 = 2 /\ Len(t) = 1
        BY <2>2
      <4> QED BY <3>3, <4>1, <4>2
    <3> QED BY <2>2, <3>1, <3>2, <3>4 DEF Asked
  <2> QED BY <2>4, <2>5
<1>5. CASE h[c].pc = "stat"
  <2>1. StatStored(c) \/ IOError(c)
    BY <1>5 DEF HandlerStep, DecodeMessage, HandlePing, DecodeEnds, ReadChunkMetadata, OpenTmp,
                CopyBlock, CopyBreaks, VerifyAndRename, OpenStored, SendBlock, SendEnds
  <2>2. CASE IOError(c)
    BY <1>2, <2>2 DEF IOError
  <2>3. CASE StatStored(c)
    <3>1. h[c].id = id /\ in[c] = << >> /\ out[c] = << >> /\ h[c].buf = << >>
      BY <1>1, <1>5 DEF Asked
    <3>2. PICK len : /\ h' = [h EXCEPT ![c].pc = "send", ![c].left = len]
                     /\ out' = [out EXCEPT ![c] = Append(@, Header("response", len))] /\ in' = in
      BY <2>3 DEF StatStored
    <3>3. h'[c].pc = "send" /\ h'[c].id = id /\ h'[c].buf = << >> /\ in'[c] = << >>
      BY <1>1, <3>1, <3>2 DEF HandlerRec
    <3>4. out'[c] = <<Header("response", len)>>
      BY <1>1, <3>1, <3>2
    <3>5. Len(out'[c]) = 1 /\ Len(h'[c].buf) = 0
      BY <3>3, <3>4
    <3>6. Len(out'[c]) = Len(h'[c].buf) + 1 /\ \A k : k \notin 1 .. Len(out'[c]) - 1
      BY <3>5
    <3>7. Carried(c, h[c].buf)'
      BY <3>5, <3>6 DEF Carried
    <3> QED BY <3>3, <3>6, <3>7 DEF Asked
  <2> QED BY <2>1, <2>2, <2>3
<1>6. CASE h[c].pc = "send"
  <2>1. SendBlock(c) \/ SendEnds(c) \/ IOError(c)
    BY <1>6 DEF HandlerStep, DecodeMessage, HandlePing, DecodeEnds, ReadChunkMetadata, OpenTmp,
                CopyBlock, CopyBreaks, VerifyAndRename, OpenStored, StatStored
  <2>2. /\ h[c].id = id /\ in[c] = << >> /\ Len(out[c]) = Len(h[c].buf) + 1
        /\ \A k \in 1 .. Len(out[c]) - 1 : out[c][k + 1] = Data(h[c].buf[k])
    BY <1>6 DEF Asked, Carried
  <2>3. CASE Returns(c, "failed") /\ UNCHANGED out
    BY <1>2, <2>3
  <2>4. CASE SendEnds(c)
    <3>1. h'[c].pc = "decode" /\ in'[c] = << >> /\ out' = out
      BY <1>1, <2>2, <2>4 DEF SendEnds, NoHandler, connVars
    <3> QED BY <3>1 DEF Asked
  <2>5. ASSUME NEW b, h' = [h EXCEPT ![c].buf = Append(@, b), ![c].left = @ - 1],
               out' = [out EXCEPT ![c] = Append(@, Data(b))], in' = in
        PROVE  Asked(c, id)' /\ h'[c].pc = "send"
    <3>1. PICK s \in Seq(Blocks), o \in Seq(Tokens) : s = h[c].buf /\ o = out[c]
      BY <1>1 DEF HandlerRec
    <3>2. /\ h'[c].pc = "send" /\ h'[c].id = id /\ in'[c] = << >>
          /\ h'[c].buf = Append(s, b) /\ out'[c] = Append(o, Data(b))
      BY <1>1, <1>6, <2>2, <2>5, <3>1 DEF HandlerRec
    <3>3. Len(Append(s, b)) = Len(s) + 1 /\ Len(Append(o, Data(b))) = Len(o) + 1 /\ Len(o) = Len(s) + 1
      BY <2>2, <3>1
    <3>4. ASSUME NEW k \in 1 .. Len(o)
          PROVE  Append(o, Data(b))[k + 1] = Data(Append(s, b)[k])
      <4>1. CASE k = Len(o)
        <5>1. Append(o, Data(b))[k + 1] = Data(b)
          BY <4>1
        <5>2. Append(s, b)[k] = b
          BY <3>3, <4>1
        <5> QED BY <5>1, <5>2
      <4>2. CASE k # Len(o)
        <5>1. k \in 1 .. Len(s) /\ k \in 1 .. Len(o) - 1 /\ k + 1 \in 1 .. Len(o)
          BY <3>3, <4>2
        <5>2. o[k + 1] = Data(s[k])
          BY <2>2, <3>1, <5>1
        <5>3. Append(o, Data(b))[k + 1] = o[k + 1] /\ Append(s, b)[k] = s[k]
          BY <5>1
        <5> QED BY <5>2, <5>3
      <4> QED BY <4>1, <4>2
    <3>5. Len(out'[c]) = Len(h'[c].buf) + 1 /\ Len(out'[c]) - 1 = Len(o)
      BY <3>2, <3>3
    <3>6. Carried(c, h[c].buf)'
      <4>1. Len(out'[c]) <= Len(h'[c].buf) + 1
        BY <3>2, <3>3
      <4>2. \A k \in 1 .. Len(out'[c]) - 1 : out'[c][k + 1] = Data(h'[c].buf[k])
        BY <3>2, <3>4, <3>5
      <4> QED BY <4>1, <4>2 DEF Carried
    <3> QED BY <3>2, <3>5, <3>6 DEF Asked
  <2>6. CASE SendBlock(c)
    BY <2>3, <2>5, <2>6 DEF SendBlock
  <2>7. CASE IOError(c)
    BY <2>3, <2>7 DEF IOError
  <2> QED BY <2>1, <2>4, <2>6, <2>7
<1>7. h[c].pc \notin {"done", "failed"}
  BY DEF HandlerStep, IOError, DecodeMessage, HandlePing, DecodeEnds, ReadChunkMetadata, OpenTmp,
         CopyBlock, CopyBreaks, VerifyAndRename, OpenStored, StatStored, SendBlock, SendEnds
<1> QED BY <1>3, <1>4, <1>5, <1>6, <1>7 DEF Asked

\* What is sent for a request to read is the chunk, as long as its uploads do not overlap.
LEMMA SendsAnswer ==
  ChunkInv => \A e \in Conns, i \in Ids : Asked(e, i) /\ h[e].pc = "send" => AnswerOK(e, i)
<1> SUFFICES ASSUME ChunkInv, NEW c \in Conns, NEW id \in Ids, Asked(c, id), h[c].pc = "send"
             PROVE  AnswerOK(c, id)
  OBVIOUS
<1>1. PICK b \in Seq(Blocks), o \in Seq(Tokens) : b = h[c].buf /\ o = out[c]
  BY DEF ChunkInv, ServerTypeOK
<1>2. /\ h[c].id = id /\ Len(o) = Len(b) + 1
      /\ \A k \in 1 .. Len(o) - 1 : o[k + 1] = Data(b[k])
  BY <1>1 DEF Asked, Carried
<1>3. \A x : Data(x).tok = "data"
  BY DEF Data
<1>4. CASE id \notin overlapped
  <2>1. PICK s \in Contents : /\ Hash[s] = id /\ Len(s) = Len(b) + h[c].left
                              /\ b = SubSeq(s, 1, Len(b))
    BY <1>1, <1>2, <1>4, ReadsFromInv DEF ReadsIntact
  <2>2. PICK l \in Nat : l = h[c].left
    BY DEF ChunkInv, ServerTypeOK
  <2>3. s \in Seq(Blocks) /\ Len(b) <= Len(s)
    BY <2>1, <2>2, ContentsAssumption
  <2>4. \A k \in 1 .. Len(b) : SubSeq(s, 1, Len(b))[k] = s[k]
    BY <2>3
  <2>5. \A k \in 1 .. Len(b) : b[k] = s[k]
    BY <2>1, <2>4
  <2>6. Carried(c, s)
    <3>1. Len(o) <= Len(s) + 1
      BY <1>2, <2>3
    <3>2. \A k \in 1 .. Len(o) - 1 : o[k + 1] = Data(s[k])
      BY <1>2, <2>5
    <3> QED BY <1>1, <3>1, <3>2 DEF Carried
  <2> QED BY <1>1, <1>2, <1>3, <2>1, <2>6 DEF AnswerOK
<1> QED BY <1>1, <1>2, <1>3, <1>4 DEF AnswerOK

\* What has come in stays an answer.
LEMMA AnswerStays ==
  ASSUME NEW c \in Conns, NEW id \in Ids, AnswerOK(c, id), out'[c] = out[c],
         overlapped \subseteq overlapped'
  PROVE  AnswerOK(c, id)'
BY DEF AnswerOK, Carried

\* A step of somebody else changes nothing on a reading job's connection but what
\* the handler there does.
LEMMA ConnectionServed ==
  ASSUME ClientInv, [Next]_vars, OthersServe, NEW c \in Conns, NEW id \in Ids,
         Asked(c, id), AnswerOK(c, id), ~ FreeConn(c)
  PROVE  Asked(c, id)' /\ AnswerOK(c, id)'
<1>1. /\ h \in [Conns -> HandlerRec] /\ in \in [Conns -> Seq(Tokens)] /\ out \in [Conns -> Seq(Tokens)]
      /\ ChunkInv
  BY DEF ClientInv, ChunkInv, ServerTypeOK, HandlerRec
<1>2. overlapped \subseteq overlapped'
  BY HistoryGrows
<1>3. CASE h'[c] = h[c] /\ in'[c] = in[c] /\ out'[c] = out[c]
  <2>1. Asked(c, id)'
    BY <1>3 DEF Asked, Carried
  <2> QED BY <1>2, <1>3, <2>1, AnswerStays
<1>4. CASE UNCHANGED serverVars
  BY <1>3, <1>4 DEF serverVars
<1>5. ASSUME NEW t, NEW end, Dial(t, end)
      PROVE  h'[c] = h[c] /\ in'[c] = in[c] /\ out'[c] = out[c]
  <2>1. c # NewConn
    BY <1>5, DialsFree
  <2> QED BY <1>1, <1>5, <2>1 DEF Dial
<1>6. ASSUME NEW d \in Conns, HandlerStep(d) \/ IOError(d)
      PROVE  Asked(c, id)' /\ AnswerOK(c, id)'
  <2>1. CASE d # c
    BY <1>1, <1>3, <1>6, <2>1, HandlersApart
  <2>2. CASE d = c
    <3>1. Asked(c, id)' /\ (h'[c].pc = "send" \/ out'[c] = out[c])
      BY <1>1, <1>6, <2>2, ServesRequest
    <3>2. CASE h'[c].pc = "send"
      <4>1. ChunkInv'
        BY ServerPart
      <4>2. (\A e \in Conns, i \in Ids : Asked(e, i) /\ h[e].pc = "send" => AnswerOK(e, i))'
        BY <4>1, SendsAnswer, PTL
      <4> QED BY <3>1, <3>2, <4>2
    <3>3. CASE out'[c] = out[c]
      BY <1>2, <3>1, <3>3, AnswerStays
    <3> QED BY <3>1, <3>2, <3>3
  <2> QED BY <2>1, <2>2
<1>7. CASE ServerCrash
  <2>1. in'[c] = << >> /\ out' = out /\ h'[c].pc \in {"done", "failed"}
    <3>1. h[c].pc # "none"
      BY DEF Asked
    <3>2. h' = [d \in Conns |-> IF h[d].pc \in {"none", "done", "failed"} THEN h[d]
                                ELSE [NoHandler EXCEPT !.pc = "failed"]]
          /\ in' = [d \in Conns |-> << >>] /\ out' = out
      BY <1>7 DEF ServerCrash
    <3>3. [NoHandler EXCEPT !.pc = "failed"].pc = "failed"
      BY DEF NoHandler
    <3> QED BY <3>1, <3>2, <3>3
  <2>2. Asked(c, id)'
    BY <2>1 DEF Asked
  <2> QED BY <1>2, <2>1, <2>2, AnswerStays
<1> QED BY <1>3, <1>4, <1>5, <1>6, <1>7 DEF OthersServe

\* A new request.
LEMMA RequestAsked ==
  ASSUME ClientInv, NEW j \in ReadJobs, ReadRequest(j), NEW c \in Conns, c = NewConn
  PROVE  Asked(c, j[2])' /\ AnswerOK(c, j[2])'
<1>1. PICK id \in Ids : id = j[2]
  BY DEF ReadJobs
<1>2. /\ h \in [Conns -> HandlerRec] /\ in \in [Conns -> Seq(Tokens)] /\ out \in [Conns -> Seq(Tokens)]
  BY DEF ClientInv, ChunkInv, ServerTypeOK, HandlerRec
<1>3. PICK t : t = Encode("read", 1, <<Key(id)>>).out
  OBVIOUS
<1>4. t = << >> \/ (Len(t) = 2 /\ t[1] = Header("read", 1) /\ t[2] = Key(id))
  <2>1. PICK k : k = Key(id)
    OBVIOUS
  <2>2. PICK z : z = Header("read", 1)
    OBVIOUS
  <2>3. PICK a \in Seq({k}) : a = <<k>> /\ Len(a) = 1
    <3>1. <<k>> \in Seq({k}) /\ Len(<<k>>) = 1
      OBVIOUS
    <3> QED BY <3>1, Zenon
  <2>4. PICK u \in Seq({k}) : u = SubSeq(a, 1, 1) /\ Len(u) = 1 /\ u[1] = k
    <3>1. SubSeq(a, 1, 1) \in Seq({k}) /\ Len(SubSeq(a, 1, 1)) = 1 /\ SubSeq(a, 1, 1)[1] = k
      BY <2>3
    <3> QED BY <3>1, Zenon
  <2>5. Taken(1, a) = 1
    BY <2>3 DEF Taken
  <2>6. t = << >> \/ t = <<z>> \o u
    BY <1>3, <2>1, <2>2, <2>3, <2>4, <2>5 DEF Encode
  <2> QED BY <2>1, <2>2, <2>4, <2>6
<1>5. Dial(t, "open")
  BY <1>1, <1>3 DEF ReadRequest
<1>6. in'[c] = t /\ out'[c] = << >> /\ h'[c].pc = "decode"
  BY <1>2, <1>5 DEF Dial, NoHandler
<1>7. Asked(c, id)'
  BY <1>4, <1>6 DEF Asked
<1>8. \A k : k \notin 1 .. Len(out'[c]) - 1
  <2>1. Len(out'[c]) = 0
    BY <1>6
  <2> QED BY <2>1
<1>9. AnswerOK(c, id)'
  BY <1>6, <1>8 DEF AnswerOK
<1> QED BY <1>1, <1>7, <1>9

\* The connections' part of a step.
LEMMA ConnsPart ==
  ASSUME ClientInv, ReadPool!QueueInv, ReadJobsOK, ConnsOK, [Next]_vars
  PROVE  ConnsOK'
<1> SUFFICES ASSUME NEW j \in ReadJobs, conn'[j] # NoFile
             PROVE  Asked(conn[j], j[2])' /\ AnswerOK(conn[j], j[2])'
  BY DEF ConnsOK
<1>1. /\ conn \in [ReadJobs -> Conns \cup {NoFile}]
      /\ \A k, i \in ReadJobs : conn[k] # NoFile /\ conn[i] = conn[k] => i = k
  BY DEF ReadJobsOK
<1>2. PICK c \in Conns, id \in Ids : c = conn'[j] /\ id = j[2]
  <2>1. conn' \in [ReadJobs -> Conns \cup {NoFile}]
    BY ReadJobsPart DEF ReadJobsOK
  <2> QED BY <2>1 DEF ReadJobs
<1>3. SUFFICES Asked(c, id)' /\ AnswerOK(c, id)'
  BY <1>2 DEF Asked, AnswerOK, Carried
<1>4. ASSUME NEW i \in ReadJobs, ReadChunkDone(i) \/ ReadChunkBreaks(i)
      PROVE  Hangup(i) /\ conn[i] # NoFile /\ conn' = [conn EXCEPT ![i] = NoFile]
  BY <1>4 DEF ReadChunkDone, ReadChunkBreaks, Hangup, Answered
<1>5. CASE conn[j] = c /\ c # NoFile
  <2>1. Asked(c, id) /\ AnswerOK(c, id) /\ ~ FreeConn(c)
    BY <1>2, <1>5 DEF ConnsOK, FreeConn
  <2>2. CASE OthersServe
    BY <2>1, <2>2, ConnectionServed
  <2>3. ASSUME NEW i \in ReadJobs, ReadRequest(i)
        PROVE  OthersServe
    BY <2>3 DEF ReadRequest, OthersServe
  <2>4. ASSUME NEW i \in ReadJobs, ReadChunkDone(i) \/ ReadChunkBreaks(i)
        PROVE  Asked(c, id)' /\ AnswerOK(c, id)'
    <3>1. Hangup(i) /\ conn[i] # NoFile /\ conn' = [conn EXCEPT ![i] = NoFile]
      BY <1>4, <2>4
    <3>2. i # j
      BY <1>1, <1>2, <1>5, <3>1
    <3>3. conn[i] # c /\ conn[i] \in Conns
      BY <1>1, <1>5, <3>1, <3>2
    <3>4. h' = h /\ in' = in /\ out'[c] = out[c] /\ overlapped' = overlapped
      BY <3>1, <3>3 DEF Hangup, ClientInv, ChunkInv, ServerTypeOK
    <3>5. Asked(c, id)'
      BY <2>1, <3>4 DEF Asked, Carried
    <3> QED BY <2>1, <3>4, <3>5, AnswerStays
  <2>5. \A r \in Readers, n \in Names : ReadFile(r, n) => OthersServe
    BY DEF ReadFile, OthersServe
  <2>6. \A r \in Readers : SubmitRead(r) \/ CollectRead(r) => OthersServe
    BY DEF SubmitRead, CollectRead, OthersServe
  <2>7. \A i \in ReadJobs : ReadWorker(i) => OthersServe
    BY DEF ReadWorker, OthersServe
  <2>8. Elsewhere => OthersServe
    BY DEF Elsewhere
  <2> QED BY <2>2, <2>3, <2>4, <2>5, <2>6, <2>7, <2>8, ReadSteps
<1>6. CASE conn[j] # c
  <2>1. PICK i \in ReadJobs : ReadRequest(i)
    BY <1>1, <1>2, <1>4, <1>6, ReadConns
  <2>2. conn' = [conn EXCEPT ![i] = NewConn]
    BY <2>1 DEF ReadRequest
  <2>3. i = j /\ c = NewConn
    BY <1>1, <1>2, <1>6, <2>2
  <2> QED BY <1>2, <2>1, <2>3, RequestAsked
<1> QED BY <1>2, <1>5, <1>6

----------------------------------------------------------------------------
(* The file that is written *)

\* The file after a write: what was written is in it, and the rest as before.
LEMMA Written ==
  ASSUME NEW j \in ReadJobs, NEW s \in Seq(Blocks), NEW n \in Nat, Info(j).off \in Nat,
         \A k \in 1 .. n : out[conn[j]][k + 1].block \in Blocks
  PROVE  /\ WrittenTo(s, j, n) \in Seq(Blocks)
         /\ Len(WrittenTo(s, j, n)) = IF Len(s) > Info(j).off + n \/ n = 0 THEN Len(s) ELSE Info(j).off + n
         /\ \A p \in 1 .. Len(s) :
              p <= Info(j).off \/ p > Info(j).off + n => WrittenTo(s, j, n)[p] = s[p]
         /\ \A k \in 1 .. n : WrittenTo(s, j, n)[Info(j).off + k] = out[conn[j]][k + 1].block
<1>0. PICK t : t = out[conn[j]]
  OBVIOUS
<1>1. PICK o \in Nat : o = Info(j).off /\ t = out[conn[j]]
  BY <1>0
<1>2. PICK l \in Nat : l = IF Len(s) > o + n \/ n = 0 THEN Len(s) ELSE o + n
  <2>1. (IF Len(s) > o + n \/ n = 0 THEN Len(s) ELSE o + n) \in Nat
    OBVIOUS
  <2> QED BY <2>1
<1>3. PICK u : u = [k \in 1 .. l |-> IF k > o /\ k <= o + n THEN t[k - o + 1].block
                                   ELSE IF k <= Len(s) THEN s[k] ELSE Hole]
  OBVIOUS
<1>4. WrittenTo(s, j, n) = u
  BY <1>1, <1>2, <1>3 DEF WrittenTo
<1>5. ASSUME NEW k \in 1 .. l
      PROVE  u[k] \in Blocks
  <2>1. CASE k > o /\ k <= o + n
    <3>1. k - o \in 1 .. n
      BY <2>1
    <3>2. u[k] = t[k - o + 1].block
      BY <1>3, <2>1
    <3> QED BY <1>1, <3>1, <3>2
  <2>2. CASE ~ (k > o /\ k <= o + n)
    <3>1. u[k] = IF k <= Len(s) THEN s[k] ELSE Hole
      BY <1>3, <2>2
    <3>2. k <= Len(s) => s[k] \in Blocks
      OBVIOUS
    <3> QED BY <3>1, <3>2, FilesAssumption
  <2> QED BY <2>1, <2>2
<1>6. u \in Seq(Blocks) /\ Len(u) = l
  BY <1>3, <1>5
<1>7. ASSUME NEW p \in 1 .. Len(s), p <= o \/ p > o + n
      PROVE  u[p] = s[p]
  <2>1. p \in 1 .. l
    BY <1>2, <1>7
  <2> QED BY <1>3, <1>7, <2>1
<1>8. ASSUME NEW k \in 1 .. n
      PROVE  u[o + k] = t[k + 1].block
  <2>1. o + k \in 1 .. l /\ o + k > o /\ o + k <= o + n
    BY <1>2
  <2>2. u[o + k] = t[(o + k) - o + 1].block
    BY <1>3, <2>1
  <2>3. (o + k) - o + 1 = k + 1
    OBVIOUS
  <2> QED BY <2>2, <2>3
<1> QED BY <1>1, <1>2, <1>4, <1>6, <1>7, <1>8

\* What a running job knows of its chunk.
LEMMA RunningJob ==
  ASSUME ClientInv, ReadLink, NEW j \in ReadJobs, readState[j] # "new"
  PROVE  /\ j[1] \in Readers /\ call[j[1]].pc # "idle" /\ call[j[1]].meta \in Metas
         /\ j[2] \in DOMAIN call[j[1]].meta
         /\ Info(j) = call[j[1]].meta[j[2]]
         /\ Info(j).off \in Nat /\ Info(j).size \in Nat \ {0}
         /\ \A s \in Contents : Hash[s] = j[2] => Len(s) = Info(j).size
<1>1. j[1] \in Readers /\ j[1] \in Calls
  BY DEF ReadJobs, Calls
<1>2. call[j[1]].meta \in Metas
  BY <1>1 DEF ClientInv, ClientLink, CallsOK, CallRec
<1>3. call[j[1]].pc # "idle" /\ j[2] \in DOMAIN call[j[1]].meta
  BY DEF ReadLink, ReadJobsOK
<1>4. PICK m \in Metas : m = call[j[1]].meta
  BY <1>2
<1> DEFINE id == j[2]
<1>5. id \in DOMAIN m
  BY <1>3, <1>4
<1>6. /\ m[id].off \in Nat /\ m[id].size \in Nat \ {0}
      /\ \E s \in Contents : Hash[s] = id /\ Len(s) = m[id].size
  BY <1>5, MetaParts
<1> QED BY <1>1, <1>2, <1>3, <1>4, <1>6, HashAssumption DEF Info

\* An attempt writes no more of the answer than the metadata gives room for, and
\* the right blocks.
LEMMA Writing ==
  ASSUME ClientInv, ReadLink, NEW j \in ReadJobs, conn[j] # NoFile, NEW n \in 0 .. Copyable(j)
  PROVE  /\ n <= Info(j).size
         /\ \A k \in 1 .. n : out[conn[j]][k + 1].block \in Blocks
         /\ j[2] \notin overlapped /\ n # 0 =>
              \E s \in Contents : /\ Hash[s] = j[2]
                                  /\ \A k \in 1 .. n : out[conn[j]][k + 1].block = s[k]
<1>1. PICK c \in Conns : c = conn[j] /\ AnswerOK(c, j[2])
  BY DEF ReadLink, ReadJobsOK, ConnsOK
<1>2. PICK t \in Seq(Tokens) : t = out[c]
  BY DEF ClientInv, ChunkInv, ServerTypeOK
<1>3. PICK z \in Nat : z = Info(j).size
  BY RunningJob DEF ReadLink, ReadJobsOK
<1>4. PICK g \in Nat : g = Received(j) /\ (t = << >> => g = 0) /\ (t # << >> => g = Len(t) - 1)
  <2>1. CASE t = << >>
    BY <1>1, <1>2, <2>1 DEF Received, Answered
  <2>2. CASE t # << >>
    <3>1. Len(t) - 1 \in Nat
      BY <2>2
    <3> QED BY <1>1, <1>2, <2>2, <3>1 DEF Received, Answered
  <2> QED BY <2>1, <2>2
<1>5. Copyable(j) = IF g < z THEN g ELSE z
  BY <1>3, <1>4 DEF Copyable
<1>6. n \in Nat /\ n <= z /\ n <= g
  BY <1>5
<1>7. ASSUME NEW k \in 1 .. n
      PROVE  t # << >> /\ k \in 1 .. Len(t) - 1 /\ k + 1 \in 1 .. Len(t)
  BY <1>4, <1>6
<1>8. ASSUME NEW k \in 1 .. n
      PROVE  t[k + 1].block \in Blocks
  <2>1. t[k + 1] \in Tokens /\ t[k + 1].tok = "data"
    BY <1>1, <1>2, <1>7 DEF AnswerOK
  <2> QED BY <2>1, TokenParts DEF BlockOf
<1>9. ASSUME j[2] \notin overlapped, n # 0
      PROVE  \E s \in Contents : Hash[s] = j[2] /\ \A k \in 1 .. n : t[k + 1].block = s[k]
  <2>1. t # << >>
    BY <1>4, <1>6, <1>9
  <2>2. PICK s \in Contents : Hash[s] = j[2] /\ \A k \in 1 .. Len(t) - 1 : t[k + 1] = Data(s[k])
    BY <1>1, <1>2, <1>9, <2>1 DEF AnswerOK, Carried
  <2>3. ASSUME NEW k \in 1 .. n
        PROVE  t[k + 1].block = s[k]
    <3>1. t[k + 1] = Data(s[k])
      BY <1>7, <2>2
    <3> QED BY <3>1 DEF Data
  <2> QED BY <2>2, <2>3
<1> QED BY <1>1, <1>2, <1>3, <1>6, <1>8, <1>9

\* Where the chunks of a reading call are, seen from its jobs.
LEMMA ChunksOfCall ==
  ASSUME ClientInv, ReadLink, NEW j \in ReadJobs, NEW i \in ReadJobs, i[1] = j[1], i # j,
         readState[j] # "new", readState[i] # "new"
  PROVE  \/ Info(i).off + Info(i).size <= Info(j).off
         \/ Info(j).off + Info(j).size <= Info(i).off
<1>1. /\ call[j[1]].meta \in Metas /\ j[2] \in DOMAIN call[j[1]].meta
      /\ i[2] \in DOMAIN call[j[1]].meta
      /\ Info(j) = call[j[1]].meta[j[2]] /\ Info(i) = call[j[1]].meta[i[2]]
  BY RunningJob
<1>2. i[2] # j[2]
  BY DEF ReadJobs
<1>3. PICK m \in Metas : m = call[j[1]].meta
  BY <1>1
<1>4. PICK id \in DOMAIN m : id = j[2]
  BY <1>1, <1>3
<1>5. PICK d \in DOMAIN m : d = i[2]
  BY <1>1, <1>3
<1>6. \/ d = id
      \/ m[id].off + m[id].size <= m[d].off
      \/ m[d].off + m[d].size <= m[id].off
  BY MetaParts
<1> QED BY <1>1, <1>2, <1>3, <1>4, <1>5, <1>6

\* A write of an attempt, and what it leaves as it was.
LEMMA AttemptWrites ==
  ASSUME ClientInv, ReadLink, NEW j \in ReadJobs, conn[j] # NoFile, NEW n \in 0 .. Copyable(j),
         call' = call, dest' = [dest EXCEPT ![j[1]] = WrittenTo(@, j, n)],
         overlapped \subseteq overlapped'
  PROVE  /\ dest' \in [Readers -> Seq(Blocks)]
         /\ \A r \in Readers :
              \/ dest'[r] = << >>
              \/ /\ call'[r].pc # "idle"
                 /\ \E id \in DOMAIN call'[r].meta :
                      Len(dest'[r]) <= call'[r].meta[id].off + call'[r].meta[id].size
         /\ \A i \in ReadJobs :
              i # j /\ readState[i] # "new" /\ InPlace(i) => InPlace(i)'
         /\ n = Info(j).size /\ j[2] \notin overlapped => InPlace(j)'
<1>1. /\ readState[j] = "running" /\ dest \in [Readers -> Seq(Blocks)]
      /\ j[1] \in Readers
  BY DEF ReadLink, ReadJobsOK, DestOK, ReadJobs
<1>2. PICK s \in Seq(Blocks) : s = dest[j[1]]
  BY <1>1
<1>3. /\ call[j[1]].pc # "idle" /\ call[j[1]].meta \in Metas
      /\ j[2] \in DOMAIN call[j[1]].meta /\ Info(j) = call[j[1]].meta[j[2]]
      /\ Info(j).off \in Nat /\ Info(j).size \in Nat \ {0}
      /\ \A e \in Contents : Hash[e] = j[2] => Len(e) = Info(j).size
  BY <1>1, RunningJob
<1>4. /\ n <= Info(j).size
      /\ \A k \in 1 .. n : out[conn[j]][k + 1].block \in Blocks
      /\ j[2] \notin overlapped /\ n # 0 =>
           \E e \in Contents : /\ Hash[e] = j[2]
                               /\ \A k \in 1 .. n : out[conn[j]][k + 1].block = e[k]
  BY Writing
<1>5. PICK o \in Nat, z \in Nat \ {0} : o = Info(j).off /\ z = Info(j).size
  BY <1>3
<1>6. n \in Nat /\ n <= z
  <2>1. Copyable(j) \in Int => n \in Nat
    OBVIOUS
  <2>2. Copyable(j) = Info(j).size \/ Copyable(j) = Received(j)
    BY DEF Copyable
  <2> QED BY <1>4, <1>5, <2>1, <2>2
<1>7. PICK w : w = WrittenTo(s, j, n)
  OBVIOUS
<1>14. /\ WrittenTo(s, j, n) \in Seq(Blocks)
       /\ Len(WrittenTo(s, j, n)) =
            IF Len(s) > Info(j).off + n \/ n = 0 THEN Len(s) ELSE Info(j).off + n
       /\ \A p \in 1 .. Len(s) :
            p <= Info(j).off \/ p > Info(j).off + n => WrittenTo(s, j, n)[p] = s[p]
       /\ \A k \in 1 .. n : WrittenTo(s, j, n)[Info(j).off + k] = out[conn[j]][k + 1].block
  BY <1>3, <1>4, <1>6, Written, ZenonT(40)
<1>8. /\ w \in Seq(Blocks)
      /\ Len(w) = IF Len(s) > o + n \/ n = 0 THEN Len(s) ELSE o + n
      /\ \A p \in 1 .. Len(s) : p <= o \/ p > o + n => w[p] = s[p]
      /\ \A k \in 1 .. n : w[o + k] = out[conn[j]][k + 1].block
  BY <1>5, <1>7, <1>14
<1>9. dest' = [dest EXCEPT ![j[1]] = w]
  BY <1>1, <1>2, <1>7
<1>10. dest' \in [Readers -> Seq(Blocks)]
  BY <1>1, <1>8, <1>9
<1>11. ASSUME NEW r \in Readers, dest'[r] # << >>
       PROVE  /\ call'[r].pc # "idle"
              /\ \E id \in DOMAIN call'[r].meta :
                   Len(dest'[r]) <= call'[r].meta[id].off + call'[r].meta[id].size
  <2>1. CASE r # j[1]
    BY <1>1, <1>9, <1>11, <2>1 DEF ReadLink, DestOK
  <2>2. CASE r = j[1]
    <3>1. dest'[r] = w
      BY <1>1, <1>9, <2>2
    <3>2. CASE Len(w) = Len(s)
      <4>1. s # << >>
        BY <1>8, <1>11, <3>1, <3>2
      <4>2. PICK id \in DOMAIN call[r].meta : Len(s) <= call[r].meta[id].off + call[r].meta[id].size
        BY <1>2, <2>2, <4>1 DEF ReadLink, DestOK
      <4> QED BY <1>3, <2>2, <3>1, <3>2, <4>2
    <3>3. CASE Len(w) # Len(s)
      <4>1. Len(w) = o + n /\ o + n <= o + z
        BY <1>6, <1>8, <3>3
      <4> QED BY <1>3, <1>5, <2>2, <3>1, <4>1
    <3> QED BY <3>2, <3>3
  <2> QED BY <2>1, <2>2
<1>12. ASSUME NEW i \in ReadJobs, i # j, readState[i] # "new", InPlace(i)
       PROVE  InPlace(i)'
  <2>1. i[1] \in Readers
    BY DEF ReadJobs
  <2>2. Info(i)' = Info(i)
    BY DEF Info
  <2>3. CASE i[1] # j[1]
    <3>1. dest'[i[1]] = dest[i[1]]
      BY <1>1, <1>9, <2>1, <2>3
    <3> QED BY <1>12, <2>2, <3>1 DEF InPlace
  <2>4. CASE i[1] = j[1]
    <3>1. PICK e \in Contents :
            /\ Hash[e] = i[2]
            /\ Info(i).off + Len(e) <= Len(s)
            /\ \A k \in 1 .. Len(e) : s[Info(i).off + k] = e[k]
      BY <1>2, <1>12, <2>4 DEF InPlace
    <3>2. Info(i).off \in Nat /\ Info(i).size \in Nat /\ Len(e) = Info(i).size
      BY <1>12, <3>1, RunningJob
    <3>3. \/ Info(i).off + Info(i).size <= o
          \/ o + z <= Info(i).off
      BY <1>1, <1>5, <1>12, <2>4, ChunksOfCall
    <3>4. PICK p \in Nat, l \in Nat : p = Info(i).off /\ l = Len(e)
      BY <3>2
    <3>5. Len(w) >= Len(s) \/ (n # 0 /\ Len(w) = o + n /\ Len(s) <= o + n)
      BY <1>6, <1>8
    <3>6. p + l <= Len(w)
      BY <1>6, <1>8, <3>1, <3>4, <3>5
    <3>7. ASSUME NEW k \in 1 .. l
          PROVE  w[p + k] = e[k]
      <4>1. p + k \in 1 .. Len(s)
        BY <3>1, <3>4
      <4>2. p + k <= o \/ p + k > o + n
        BY <1>6, <3>2, <3>3, <3>4
      <4>3. w[p + k] = s[p + k]
        BY <1>8, <4>1, <4>2
      <4> QED BY <3>1, <3>4, <4>3
    <3>8. dest'[i[1]] = w
      BY <1>1, <1>9, <2>4
    <3> QED BY <2>2, <3>1, <3>4, <3>6, <3>7, <3>8 DEF InPlace
  <2> QED BY <2>3, <2>4
<1>13. ASSUME n = z, j[2] \notin overlapped
       PROVE  InPlace(j)'
  <2>1. PICK e \in Contents : /\ Hash[e] = j[2]
                              /\ \A k \in 1 .. n : out[conn[j]][k + 1].block = e[k]
    BY <1>4, <1>13
  <2>2. Len(e) = n
    BY <1>3, <1>5, <1>13, <2>1
  <2>3. o + Len(e) <= Len(w)
    <3>1. Len(s) \in Nat /\ Len(w) >= o + n
      BY <1>6, <1>8, <1>13
    <3> QED BY <2>2, <3>1
  <2>4. \A k \in 1 .. Len(e) : w[o + k] = e[k]
    BY <1>8, <2>1, <2>2
  <2>5. dest'[j[1]] = w /\ Info(j)' = Info(j)
    BY <1>1, <1>9 DEF Info
  <2> QED BY <1>5, <2>1, <2>3, <2>4, <2>5 DEF InPlace
<1> QED BY <1>5, <1>10, <1>11, <1>12, <1>13

\* The destinations' part of a step.
LEMMA DestPart ==
  ASSUME ClientInv, ReadLink, [Next]_vars
  PROVE  DestOK'
<1>1. /\ dest \in [Readers -> Seq(Blocks)] /\ call \in [Calls -> CallRec]
      /\ Readers \subseteq Calls
      /\ \A r \in Readers :
           \/ dest[r] = << >>
           \/ /\ call[r].pc # "idle"
              /\ \E id \in DOMAIN call[r].meta :
                   Len(dest[r]) <= call[r].meta[id].off + call[r].meta[id].size
  BY DEF ReadLink, DestOK, ClientInv, ClientLink, CallsOK, Calls
<1>2. ReadPool!QueueInv /\ ReadJobsOK
  BY DEF ReadLink
<1>3. overlapped \subseteq overlapped'
  BY HistoryGrows
<1>4. ASSUME NEW j \in ReadJobs, ReadChunkDone(j) \/ ReadChunkBreaks(j)
      PROVE  DestOK'
  <2>1. conn[j] # NoFile /\ readState[j] = "running" /\ call' = call
    BY <1>4 DEF ReadChunkDone, ReadChunkBreaks, Answered
  <2>2. Copyable(j) \in Nat
    <3>1. Info(j).size \in Nat
      BY <2>1, RunningJob
    <3>2. PICK c \in Conns : c = conn[j]
      BY <1>2, <2>1 DEF ReadJobsOK
    <3>3. PICK t \in Seq(Tokens) : t = out[c]
      BY DEF ClientInv, ChunkInv, ServerTypeOK
    <3>4. t = << >> \/ Len(t) - 1 \in Nat
      OBVIOUS
    <3>5. Received(j) \in Nat
      BY <3>2, <3>3, <3>4 DEF Received, Answered
    <3> QED BY <3>1, <3>5 DEF Copyable
  <2>3. \E n \in 0 .. Copyable(j) :
          /\ dest' = [dest EXCEPT ![j[1]] = WrittenTo(@, j, n)]
          /\ ReadChunkDone(j) => n = Info(j).size
    <3>1. CASE ReadChunkDone(j)
      <4>1. /\ dest' = [dest EXCEPT ![j[1]] = WrittenTo(@, j, Info(j).size)]
            /\ Copyable(j) = Info(j).size
        BY <3>1 DEF ReadChunkDone
      <4>2. Copyable(j) \in 0 .. Copyable(j)
        BY <2>2
      <4> QED BY <4>1, <4>2, Zenon
    <3>2. CASE ~ ReadChunkDone(j)
      BY <1>4, <2>2, <3>2 DEF ReadChunkBreaks
    <3> QED BY <3>1, <3>2
  <2>4. PICK n \in 0 .. Copyable(j) :
          /\ dest' = [dest EXCEPT ![j[1]] = WrittenTo(@, j, n)]
          /\ ReadChunkDone(j) => n = Info(j).size
    BY <2>3
  <2>5. /\ dest' \in [Readers -> Seq(Blocks)]
        /\ \A r \in Readers :
             \/ dest'[r] = << >>
             \/ /\ call'[r].pc # "idle"
                /\ \E id \in DOMAIN call'[r].meta :
                     Len(dest'[r]) <= call'[r].meta[id].off + call'[r].meta[id].size
        /\ \A i \in ReadJobs :
             i # j /\ readState[i] # "new" /\ InPlace(i) => InPlace(i)'
        /\ n = Info(j).size /\ j[2] \notin overlapped => InPlace(j)'
    BY <1>3, <2>1, <2>4, AttemptWrites
  <2>6. ASSUME NEW i \in ReadJobs, call'[i[1]].pc \in {"wait", "ok"}, readState'[i] = "success",
               i[2] \notin overlapped'
        PROVE  InPlace(i)'
    <3>1. i[2] \notin overlapped
      BY <1>3, <2>6
    <3>2. CASE readState[i] = "success"
      <4>1. InPlace(i)
        BY <2>1, <2>6, <3>1, <3>2 DEF ReadLink, DestOK
      <4> QED BY <2>1, <2>5, <3>2, <4>1
    <3>3. CASE readState[i] # "success"
      <4>1. ReadChunkDone(i)
        BY <1>2, <2>6, <3>3, ReadStates
      <4>2. conn' = [conn EXCEPT ![i] = NoFile] /\ conn' = [conn EXCEPT ![j] = NoFile] /\ conn[i] # NoFile
        BY <1>4, <4>1 DEF ReadChunkDone, ReadChunkBreaks, Hangup, Answered
      <4>3. i = j
        BY <1>2, <4>2 DEF ReadJobsOK
      <4> QED BY <2>4, <2>5, <3>1, <4>1, <4>3
    <3> QED BY <3>2, <3>3
  <2> QED BY <2>5, <2>6 DEF DestOK
<1>5. CASE \A j \in ReadJobs : ~ ReadChunkDone(j) /\ ~ ReadChunkBreaks(j)
  <2>1. \/ UNCHANGED dest
        \/ \E r \in Readers : CollectRead(r)
    BY <1>5, ReadSteps DEF ReadFile, SubmitRead, ReadWorker, ReadRequest, Elsewhere, callVars
  <2>2. ASSUME NEW r \in Readers
        PROVE  dest'[r] = dest[r] \/ (dest'[r] = << >> /\ call'[r].pc \notin {"wait", "ok"})
    <3>1. ASSUME NEW x \in Readers, CollectRead(x), dest'[r] # dest[r]
          PROVE  dest'[r] = << >> /\ call'[r].pc \notin {"wait", "ok"}
      <4>1. PICK states : \E o \in Outcomes(states) :
                            /\ Returning(x, o)
                            /\ dest' = [dest EXCEPT ![x] = IF o = "ok" THEN @ ELSE << >>]
        BY <3>1 DEF CollectRead
      <4>2. PICK o \in Outcomes(states) :
                            /\ Returning(x, o)
                            /\ dest' = [dest EXCEPT ![x] = IF o = "ok" THEN @ ELSE << >>]
        BY <4>1
      <4>3. x = r /\ o # "ok" /\ dest'[r] = << >>
        BY <1>1, <3>1, <4>2
      <4>4. o \in {"failed", "cancelled"}
        BY <4>2, <4>3 DEF Outcomes
      <4>5. call'[r].pc = o
        BY <1>1, <4>2, <4>3 DEF Returning, CallRec
      <4> QED BY <4>3, <4>4, <4>5
    <3> QED BY <2>1, <3>1
  <2>3. dest' \in [Readers -> Seq(Blocks)]
    <3>1. << >> \in Seq(Blocks)
      OBVIOUS
    <3>2. \A r \in Readers : dest'[r] \in Seq(Blocks)
      BY <1>1, <2>2, <3>1
    <3>3. CASE \E r \in Readers : CollectRead(r)
      <4>1. PICK d, r : dest' = [dest EXCEPT ![r] = d]
        BY <3>3 DEF CollectRead
      <4> QED BY <1>1, <3>2, <4>1
    <3> QED BY <1>1, <2>1, <3>3
  <2>4. ASSUME NEW r \in Readers, dest'[r] # << >>
        PROVE  /\ call'[r].pc # "idle"
               /\ \E id \in DOMAIN call'[r].meta :
                    Len(dest'[r]) <= call'[r].meta[id].off + call'[r].meta[id].size
    <3>1. dest'[r] = dest[r] /\ call[r].pc # "idle"
      BY <1>1, <2>2, <2>4
    <3>2. call'[r].pc # "idle" /\ call'[r].meta = call[r].meta
      BY <3>1, ReadCalls DEF Returned
    <3> QED BY <1>1, <2>4, <3>1, <3>2
  <2>5. ASSUME NEW i \in ReadJobs, call'[i[1]].pc \in {"wait", "ok"}, readState'[i] = "success",
               i[2] \notin overlapped'
        PROVE  InPlace(i)'
    <3>1. i[1] \in Readers /\ i[2] \notin overlapped
      BY <1>3, <2>5 DEF ReadJobs
    <3>2. readState[i] = "success"
      BY <1>2, <1>5, <2>5, ReadStates
    <3>3. call[i[1]].pc # "idle"
      BY <1>2, <3>2 DEF ReadJobsOK
    <3>4. call[i[1]].pc \in {"wait", "ok"} /\ call'[i[1]].meta = call[i[1]].meta
      BY <2>5, <3>1, <3>3, ReadCalls
    <3>5. dest'[i[1]] = dest[i[1]]
      BY <2>2, <2>5, <3>1
    <3>6. InPlace(i)
      BY <3>1, <3>2, <3>4 DEF ReadLink, DestOK
    <3> QED BY <3>4, <3>5, <3>6 DEF InPlace, Info
  <2> QED BY <2>3, <2>4, <2>5 DEF DestOK
<1> QED BY <1>4, <1>5

----------------------------------------------------------------------------
\* Nobody reads at first.
LEMMA InitReadLink ==
  ASSUME ClientInit
  PROVE  ReadLink
<1>1. ReadPool!QueueInv
  <2>1. readQueue = << >> /\ readQueue \in Seq(ReadJobs) /\ \A k : k \notin 1 .. Len(readQueue)
    <3>1. readQueue = << >>
      BY DEF ClientInit, ReadPool!Init
    <3>2. << >> \in Seq(ReadJobs) /\ Len(<< >>) = 0 /\ \A k : k \notin 1 .. 0
      OBVIOUS
    <3> QED BY <3>1, <3>2
  <2>2. /\ readState \in [ReadJobs -> ReadPool!States] /\ readTries \in [ReadJobs -> Nat]
        /\ readClosed \in BOOLEAN /\ readCancelled \in BOOLEAN
    BY DEF ClientInit, ReadPool!Init, ReadPool!States
  <2> QED BY <2>1, <2>2 DEF ReadPool!QueueInv
<1>2. MetasOK
  BY DEF ClientInit, MetasOK, OfRegistered, NoCall, Calls
<1>3. ReadJobsOK
  <2>1. NoCall.pc = "idle"
    BY DEF NoCall
  <2> QED BY <2>1 DEF ClientInit, ReadJobsOK, ReadPool!Init, Calls
<1>4. ConnsOK
  BY DEF ClientInit, ConnsOK
<1>5. DestOK
  <2>1. NoCall.pc = "idle" /\ << >> \in Seq(Blocks)
    BY DEF NoCall
  <2>2. ASSUME NEW j \in ReadJobs
        PROVE  call[j[1]].pc = "idle"
    BY <2>1 DEF ClientInit, Calls, ReadJobs
  <2> QED BY <2>1, <2>2 DEF ClientInit, DestOK
<1> QED BY <1>1, <1>2, <1>3, <1>4, <1>5 DEF ReadLink

\* The inductive invariant of reading: whatever breaks off, is repeated or
\* answered in another order, the handler of a reading job's connection is at the
\* request for its chunk, the answer so far is the beginning of that chunk, and a
\* job that has succeeded has the chunk in its place in the file, where no write
\* of another job reaches (read_file.go:75, client.go:120, handler.go:112).
THEOREM ReadInvariance == Spec => []ReadLink
<1>1. ClientInit => ClientInv /\ ReadLink
  BY InitClientInv, InitReadLink
<1>2. ClientInv /\ ReadLink /\ [Next]_vars => ReadLink'
  <2>1. SUFFICES ASSUME ClientInv, ReadLink, [Next]_vars
                 PROVE  ReadLink'
    OBVIOUS
  <2>2. ReadPool!QueueInv /\ MetasOK /\ ReadJobsOK /\ ConnsOK
    BY <2>1 DEF ReadLink
  <2>3. ReadPool!QueueInv'
    BY <2>1, <2>2, ReadPoolPart, ReadQueueKeeps
  <2>4. MetasOK' /\ ReadJobsOK' /\ ConnsOK'
    BY <2>1, <2>2, MetasPart, ReadJobsPart, ConnsPart
  <2>5. DestOK'
    BY <2>1, DestPart
  <2> QED BY <2>3, <2>4, <2>5 DEF ReadLink
<1> QED BY <1>1, <1>2, ClientInvariance, PTL DEF Spec

\* What a successful ReadFile leaves in the file.
LEMMA ExactFromInv ==
  ASSUME DistinctChunks, ClientInv, ReadLink
  PROVE  ReadExact
<1> SUFFICES ASSUME NEW r \in Readers, call[r].pc = "ok", DOMAIN call[r].meta \cap overlapped = {}
             PROVE  [name |-> call[r].name, file |-> dest[r]] \in registered
  BY DEF ReadExact
<1>1. /\ DOMAIN call[r].meta # {}
      /\ \A id \in DOMAIN call[r].meta : readState[<<r, id>>] = "success"
  BY DEF ReadLink, ReadJobsOK
<1>2. PICK f \in Files :
        [name |-> call[r].name, file |-> f] \in registered /\ call[r].meta = buildFileMetadata(f)
  BY <1>1 DEF ReadLink, MetasOK, OfRegistered, NoMeta
<1>3. PICK m \in Metas : m = call[r].meta
  BY <1>2 DEF Metas
<1>4. PICK d \in Seq(Blocks) : d = dest[r]
  BY DEF ReadLink, DestOK
<1>5. d = << >> \/ \E id \in DOMAIN m : Len(d) <= m[id].off + m[id].size
  BY <1>3, <1>4 DEF ReadLink, DestOK
<1>6. ASSUME NEW id \in DOMAIN m
      PROVE  \E s \in Contents :
               /\ Hash[s] = id
               /\ m[id].off + Len(s) <= Len(d)
               /\ \A k \in 1 .. Len(s) : d[m[id].off + k] = s[k]
  <2>1. id \in Ids
    BY MetaParts
  <2>2. PICK j \in ReadJobs : j = <<r, id>>
    BY <2>1 DEF ReadJobs
  <2>3. j[1] = r /\ j[2] = id
    BY <2>2
  <2>4. readState[j] = "success" /\ id \notin overlapped
    BY <1>1, <1>3, <2>2
  <2>5. InPlace(j)
    BY <2>3, <2>4 DEF ReadLink, DestOK
  <2>6. Info(j) = m[id] /\ dest[j[1]] = d
    BY <1>3, <1>4, <2>3 DEF Info
  <2> QED BY <2>3, <2>5, <2>6 DEF InPlace
<1>7. d = f
  <2>1. m = buildFileMetadata(f)
    BY <1>2, <1>3
  <2> QED BY <1>5, <1>6, <2>1, FileOfChunks
<1> QED BY <1>2, <1>4, <1>7

\* A ReadFile that returns without error has written exactly a file that was
\* registered under its name, after any number of attempts that broke off in the
\* middle of a chunk and in any order of the chunks, and with the name or the
\* chunks uploaded again meanwhile (read_file.go:75).  In a file with two equal
\* chunks the metadata keeps the place of the last one only, so that no file with
\* two equal chunks may be among the files.
THEOREM ReadsAreExact == DistinctChunks => (Spec => []ReadExact)
<1>1. DistinctChunks /\ ClientInv /\ ReadLink => ReadExact
  BY ExactFromInv
<1> SUFFICES ASSUME DistinctChunks
             PROVE  Spec => []ReadExact
  OBVIOUS
<1>2. ClientInv /\ ReadLink => ReadExact
  BY <1>1
<1> QED BY <1>2, ClientInvariance, ReadInvariance, PTL

=============================================================================
