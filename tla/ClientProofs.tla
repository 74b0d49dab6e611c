---------------------------- MODULE ClientProofs ----------------------------
(***************************************************************************)
(* The client with the chunk server: what the client sends is what the     *)
(* chunk server's invariant supposes of a client, so that the invariant    *)
(* holds of the two together, and the client uses its worker pools as job  *)
(* queues.                                                                 *)
(***************************************************************************)
EXTENDS Client, ChunkServerProofs

----------------------------------------------------------------------------
\* The quotient and the remainder of the length of a file by the chunk size.
LEMMA Divided ==
  ASSUME NEW n \in Nat, NEW k \in Nat \ {0}
  PROVE  /\ n \div k \in Nat /\ n % k \in 0 .. k - 1
         /\ n = k * (n \div k) + (n % k)
OBVIOUS

\* A piece of a sequence of blocks.
LEMMA Piece ==
  ASSUME NEW s \in Seq(Blocks), NEW o \in Nat, NEW l \in Nat, o + l <= Len(s)
  PROVE  /\ SubSeq(s, o + 1, o + l) \in Seq(Blocks) /\ Len(SubSeq(s, o + 1, o + l)) = l
         /\ \A e \in 1 .. l : SubSeq(s, o + 1, o + l)[e] = s[o + e]
<1>1. \A e \in 1 .. l : s[o + e] \in Blocks
  OBVIOUS
<1>2. SubSeq(s, o + 1, o + l) = [e \in 1 .. l |-> s[o + e]]
  OBVIOUS
<1> QED BY <1>1, <1>2

\* Where chunk i of a file is.
LEMMA ChunkParts ==
  ASSUME NEW f \in Files, NEW i \in 1 .. ChunkCount(f)
  PROVE  /\ Offset(i) \in Nat /\ ChunkLen(f, i) \in Nat \ {0}
         /\ Offset(i) + ChunkLen(f, i) <= Len(f)
         /\ Chunk(f, i) \in Seq(Blocks) /\ Len(Chunk(f, i)) = ChunkLen(f, i)
         /\ \A k \in 1 .. ChunkLen(f, i) : Chunk(f, i)[k] = f[Offset(i) + k]
         /\ i <= MaxChunks
<1>1. PICK n \in Nat, k \in Nat \ {0}, m \in Nat :
        /\ n = Len(f) /\ k = ChunkSize /\ m = MaxChunks /\ f \in Seq(Blocks) /\ n <= k * m
  BY ClientAssumption, ChunksAssumption
<1>2. PICK q \in Nat, r \in 0 .. k - 1 : q = n \div k /\ r = n % k /\ n = k * q + r
  BY Divided
<1>3. ChunkCount(f) = q + (IF r # 0 THEN 1 ELSE 0)
  BY <1>1, <1>2 DEF ChunkCount
<1>4. i \in Nat \ {0} /\ (i - 1 < q \/ (i - 1 = q /\ r # 0))
  BY <1>3
<1>5. PICK p \in Nat : i = p + 1
  <2>1. i - 1 \in Nat /\ i = (i - 1) + 1
    BY <1>4
  <2> QED BY <2>1
<1>6. k * p \in Nat /\ k * p < n
  <2>1. CASE p + 1 <= q
    <3>1. k * (p + 1) <= k * q /\ k * (p + 1) = k * p + k
      BY <2>1
    <3> QED BY <1>2, <3>1
  <2>2. CASE p = q /\ r # 0
    BY <1>2, <2>2
  <2> QED BY <1>4, <1>5, <2>1, <2>2
<1>7. Offset(i) = k * p
  BY <1>1, <1>5 DEF Offset
<1>8. ChunkLen(f, i) = IF n - k * p < k THEN n - k * p ELSE k
  BY <1>1, <1>7 DEF ChunkLen
<1>9. PICK o \in Nat, l \in Nat \ {0} : o = Offset(i) /\ l = ChunkLen(f, i) /\ o + l <= n
  <2>1. PICK o \in Nat : o = k * p /\ o < n
    BY <1>6
  <2>2. PICK l \in Nat \ {0} : l = (IF n - o < k THEN n - o ELSE k) /\ o + l <= n
    BY <2>1
  <2> QED BY <1>7, <1>8, <2>1, <2>2
<1>10. Chunk(f, i) = SubSeq(f, o + 1, o + l)
  BY <1>9 DEF Chunk
<1>11. /\ SubSeq(f, o + 1, o + l) \in Seq(Blocks) /\ Len(SubSeq(f, o + 1, o + l)) = l
       /\ \A e \in 1 .. l : SubSeq(f, o + 1, o + l)[e] = f[o + e]
  <2>1. PICK g \in Seq(Blocks), z \in Nat : g = f /\ z = l /\ o + z <= Len(g)
    BY <1>1, <1>9
  <2>2. /\ SubSeq(g, o + 1, o + z) \in Seq(Blocks) /\ Len(SubSeq(g, o + 1, o + z)) = z
        /\ \A e \in 1 .. z : SubSeq(g, o + 1, o + z)[e] = g[o + e]
    BY <2>1, Piece
  <2> QED BY <2>1, <2>2
<1>12. i <= m
  <2>1. k * p < k * m
    BY <1>1, <1>6
  <2> QED BY <1>5, <2>1
<1> QED BY <1>1, <1>9, <1>10, <1>11, <1>12

----------------------------------------------------------------------------
\* The beginning of something that can be uploaded.
LEMMA Beginning ==
  ASSUME NEW t \in Seq(Tokens), NEW n \in 0 .. Len(t), Uploads(t)
  PROVE  SubSeq(t, 1, n) \in Seq(Tokens) /\ Uploads(SubSeq(t, 1, n))
<1>1. PICK u : u = SubSeq(t, 1, n)
  OBVIOUS
<1>2. u \in Seq(Tokens) /\ Len(u) = n /\ \A k \in 1 .. n : u[k] = t[k]
  BY <1>1
<1>3. ASSUME NEW m \in 1 .. Len(u), u[m].tok = "metadata"
      PROVE  Continues(<< >>, SubSeq(u, m + 1, Len(u)))
  <2>1. m \in 0 .. Len(u) /\ m \in 0 .. Len(t) /\ m \in 1 .. Len(t) /\ t[m].tok = "metadata"
    BY <1>2, <1>3
  <2>2. PICK v \in Seq(Tokens) : v = SubSeq(u, m + 1, Len(u))
    BY <1>2, <2>1, Rest
  <2>3. PICK w \in Seq(Tokens) : w = SubSeq(t, m + 1, Len(t))
    BY <2>1, Rest
  <2>4. Len(v) = n - m /\ \A k \in 1 .. n - m : v[k] = u[m + k]
    BY <1>2, <2>1, <2>2, Rest
  <2>5. Len(w) = Len(t) - m /\ \A k \in 1 .. Len(t) - m : w[k] = t[m + k]
    BY <2>1, <2>3, Rest
  <2>6. Len(v) <= Len(w) /\ \A k \in 1 .. Len(v) : v[k] = w[k]
    <3>1. Len(v) <= Len(w)
      BY <1>2, <2>4, <2>5
    <3>2. ASSUME NEW k \in 1 .. Len(v)
          PROVE  v[k] = w[k]
      <4>1. m + k \in 1 .. n /\ k \in 1 .. n - m /\ k \in 1 .. Len(t) - m
        BY <1>2, <2>1, <2>4
      <4> QED BY <1>2, <2>4, <2>5, <4>1
    <3> QED BY <3>1, <3>2
  <2>7. Continues(<< >>, w)
    BY <2>1, <2>3 DEF Uploads
  <2>8. ASSUME NEW k \in 0 .. Len(v)
        PROVE  Joined(<< >>, v, k) \in Contents
    <3>1. k \in 0 .. Len(w)
      BY <2>6, <2>8
    <3>2. Joined(<< >>, v, k) = Joined(<< >>, w, k)
      <4>1. Len(<< >>) = 0
        OBVIOUS
      <4>2. \A e \in 1 .. 0 + k : v[e - 0] = w[e - 0]
        BY <2>6
      <4> QED BY <4>1, <4>2 DEF Joined
    <3> QED BY <2>7, <3>1, <3>2 DEF Continues
  <2> QED BY <2>2, <2>8 DEF Continues
<1> QED BY <1>1, <1>2, <1>3 DEF Uploads

\* A token in front that is no metadata.
LEMMA InFront ==
  ASSUME NEW x \in Tokens, x.tok # "metadata", NEW t \in Seq(Tokens), Uploads(t)
  PROVE  <<x>> \o t \in Seq(Tokens) /\ Uploads(<<x>> \o t)
<1>1. PICK u \in Seq(Tokens) : u = <<x>> \o t
  <2>1. <<x>> \o t \in Seq(Tokens)
    OBVIOUS
  <2> QED BY <2>1, Zenon
<1>2. Len(u) = Len(t) + 1 /\ u[1] = x /\ \A k \in 1 .. Len(t) : u[k + 1] = t[k]
  BY <1>1
<1>3. ASSUME NEW m \in 1 .. Len(u), u[m].tok = "metadata"
      PROVE  Continues(<< >>, SubSeq(u, m + 1, Len(u)))
  <2>1. m # 1
    BY <1>2, <1>3
  <2>2. PICK k \in 1 .. Len(t) : m = k + 1
    <3>1. m - 1 \in 1 .. Len(t) /\ m = (m - 1) + 1
      BY <1>2, <2>1
    <3> QED BY <3>1
  <2>3. t[k].tok = "metadata"
    BY <1>2, <1>3, <2>2
  <2>4. SubSeq(u, m + 1, Len(u)) = SubSeq(t, k + 1, Len(t))
    <3>1. SubSeq(u, m + 1, Len(u)) = [e \in 1 .. Len(t) - k |-> u[m + e]]
      BY <1>2, <2>2
    <3>2. SubSeq(t, k + 1, Len(t)) = [e \in 1 .. Len(t) - k |-> t[k + e]]
      BY <2>2
    <3>3. \A e \in 1 .. Len(t) - k : u[m + e] = t[k + e]
      <4>1. ASSUME NEW e \in 1 .. Len(t) - k
            PROVE  u[m + e] = t[k + e]
        <5>1. k + e \in 1 .. Len(t) /\ m + e = (k + e) + 1
          BY <2>2
        <5> QED BY <1>2, <5>1
      <4> QED BY <4>1
    <3> QED BY <3>1, <3>2, <3>3
  <2>5. Continues(<< >>, SubSeq(t, k + 1, Len(t)))
    BY <2>3 DEF Uploads
  <2> QED BY <2>4, <2>5
<1> QED BY <1>1, <1>3 DEF Uploads

\* The reader chunk.Data of a chunk.
LEMMA ChunkDataUploads ==
  ASSUME NEW f \in Files, NEW i \in 1 .. ChunkCount(f)
  PROVE  ChunkData(f, i) \in Seq(Tokens) /\ Uploads(ChunkData(f, i))
<1>1. PICK s \in Seq(Blocks) : s = Chunk(f, i) /\ s \in Contents
  BY ChunksAssumption, ChunkParts
<1>2. PICK id \in Ids : id = ChunkId(f, i)
  BY <1>1, HashAssumption DEF ChunkId
<1>3. PICK d \in Seq(Tokens) :
        /\ d = AsData(s) /\ Len(d) = Len(s)
        /\ \A k \in 1 .. Len(s) : d[k] = Data(s[k])
  <2>1. AsData(s) = [k \in 1 .. Len(s) |-> Data(s[k])]
    BY DEF AsData
  <2>2. \A k \in 1 .. Len(s) : Data(s[k]) \in Tokens
    <3>1. \A k \in 1 .. Len(s) : s[k] \in Blocks
      OBVIOUS
    <3> QED BY <3>1 DEF Data, Tokens
  <2>3. AsData(s) \in Seq(Tokens) /\ Len(AsData(s)) = Len(s)
    BY <2>1, <2>2
  <2>4. \A k \in 1 .. Len(s) : AsData(s)[k] = Data(s[k])
    BY <2>1
  <2> QED BY <2>3, <2>4, Zenon
<1>4. Metadata(id) \in Tokens /\ Metadata(id).tok = "metadata"
  BY DEF Metadata, Tokens
<1>5. PICK u \in Seq(Tokens) : u = ChunkData(f, i) /\ u = <<Metadata(id)>> \o d
  <2>1. <<Metadata(id)>> \o d \in Seq(Tokens)
    BY <1>4
  <2> QED BY <1>1, <1>2, <1>3, <2>1 DEF ChunkData
<1>6. Len(u) = Len(s) + 1 /\ \A k \in 1 .. Len(s) : u[k + 1] = d[k]
  BY <1>3, <1>4, <1>5
<1>7. \A k \in 1 .. Len(s) : d[k].tok = "data" /\ BlockOf(d[k]) = s[k]
  <2>1. \A b : Data(b).tok = "data" /\ BlockOf(Data(b)) = b
    BY DEF Data, BlockOf
  <2> QED BY <1>3, <2>1
<1>8. ASSUME NEW m \in 1 .. Len(u), u[m].tok = "metadata"
      PROVE  Continues(<< >>, SubSeq(u, m + 1, Len(u)))
  <2>1. m = 1
    <3>1. SUFFICES ASSUME m # 1 PROVE FALSE
      OBVIOUS
    <3>2. m - 1 \in 1 .. Len(s) /\ m = (m - 1) + 1
      BY <1>6, <3>1
    <3>3. u[m] = d[m - 1]
      BY <1>6, <3>2
    <3> QED BY <1>7, <1>8, <3>2, <3>3
  <2>2. PICK v \in Seq(Tokens) : v = SubSeq(u, m + 1, Len(u))
    <3>1. m \in 0 .. Len(u)
      OBVIOUS
    <3> QED BY <3>1, Rest
  <2>3. Len(v) = Len(s) /\ \A k \in 1 .. Len(s) : v[k] = d[k]
    <3>1. Len(v) = Len(u) - 1 /\ \A k \in 1 .. Len(u) - 1 : v[k] = u[1 + k]
      <4>1. m \in 0 .. Len(u)
        OBVIOUS
      <4>2. Len(v) = Len(u) - m /\ \A k \in 1 .. Len(u) - m : v[k] = u[m + k]
        BY <2>2, <4>1, Rest
      <4> QED BY <2>1, <4>2
    <3>2. \A k \in 1 .. Len(s) : 1 + k = k + 1
      OBVIOUS
    <3> QED BY <1>6, <3>1, <3>2
  <2>4. ASSUME NEW k \in 0 .. Len(v)
        PROVE  Joined(<< >>, v, k) \in Contents
    <3>1. k \in 0 .. Len(s) /\ SubSeq(s, 1, k) \in Contents
      BY <1>1, <2>3, ContentsAssumption
    <3>2. SubSeq(s, 1, k) = [e \in 1 .. k |-> s[e]]
      BY <3>1
    <3>3. Joined(<< >>, v, k) = [e \in 1 .. k |-> BlockOf(v[e])]
      <4>1. Len(<< >>) = 0 /\ \A e \in 1 .. k : e - 0 = e /\ ~ (e <= 0)
        OBVIOUS
      <4> QED BY <4>1 DEF Joined
    <3>4. \A e \in 1 .. k : BlockOf(v[e]) = s[e]
      BY <1>7, <2>3, <3>1
    <3> QED BY <3>1, <3>2, <3>3, <3>4
  <2> QED BY <2>1, <2>2, <2>4 DEF Continues
<1> QED BY <1>5, <1>8 DEF Uploads

----------------------------------------------------------------------------
(* The connections *)

\* The client sends on a new connection something that can be uploaded.
LEMMA DialKeeps ==
  ASSUME ChunkInv, NEW t \in Seq(Tokens), Uploads(t), NEW end \in {"open", "eof", "reset"},
         Dial(t, end)
  PROVE  ChunkInv'
<1>1. PICK c \in Conns : c = NewConn /\ FreeConn(c)
  BY DEF Dial, NewConn
<1>2. h[c].pc # "copy"
  BY <1>1 DEF FreeConn
<1>3. PICK r \in HandlerRec :
        /\ h' = [h EXCEPT ![c] = r] /\ r.pc = "decode" /\ r.id = NoFile /\ r.ino = NoFile
  BY <1>1, Empty DEF Dial, HandlerPoints
<1>4. /\ in' = [in EXCEPT ![c] = t]
      /\ UNCHANGED <<diskVars, crashes, overlapped, broken>>
  BY <1>1 DEF Dial
<1>5. out' \in [Conns -> Seq(Tokens)] /\ cut' \in [Conns -> {"open", "eof", "reset"}]
  <2>1. << >> \in Seq(Tokens)
    OBVIOUS
  <2> QED BY <1>1, <2>1 DEF Dial, ChunkInv, ServerTypeOK
<1> QED BY <1>2, <1>3, <1>4, <1>5, StepsAside

\* The client closes a connection.
LEMMA HangupKeeps ==
  ASSUME ChunkInv, NEW j \in ReadJobs, Hangup(j)
  PROVE  ChunkInv'
<1>1. UNCHANGED <<diskVars, in, h, crashes, overlapped, broken>>
  BY DEF Hangup
<1>2. out' \in [Conns -> Seq(Tokens)] /\ cut' \in [Conns -> {"open", "eof", "reset"}]
  <2>1. << >> \in Seq(Tokens)
    OBVIOUS
  <2> QED BY <2>1 DEF Hangup, ChunkInv, ServerTypeOK
<1>3. ServerTypeOK' /\ PointsOK' /\ Uploading'
  BY <1>1, <1>2 DEF diskVars, ChunkInv, ServerTypeOK, PointsOK, Uploading
<1>4. \A c \in Conns : h'[c] = h[c]
  BY <1>1
<1> QED BY <1>1, <1>3, <1>4, LetGo

\* What an attempt to send a chunk writes, and what it leaves in the reader.
LEMMA MessageUploads ==
  ASSUME ClientInv, NEW j \in SendJobs, sendState[j] = "running"
  PROVE  /\ SendMessage(j).out \in Seq(Tokens) /\ Uploads(SendMessage(j).out)
         /\ SendMessage(j).rest \in Seq(Tokens) /\ Uploads(SendMessage(j).rest)
         /\ Len(SendMessage(j).out) <= Len(rest[j]) + 1
<1>1. PICK t \in Seq(Tokens) : t = rest[j] /\ Uploads(t)
  BY DEF ClientInv, ClientLink, SendJobsOK
<1>2. PICK len \in Nat : len = ChunkLen(call[j[1]].file, j[2]) + 1
  <2>1. PICK f \in Files : f = call[j[1]].file
    BY DEF ClientInv, ClientLink, SendJobsOK
  <2>2. j[2] \in 1 .. MaxChunks /\ j[2] <= ChunkCount(f)
    BY <2>1 DEF ClientInv, ClientLink, SendJobsOK, SendJobs
  <2>3. PICK n \in Nat : n = Len(f)
    BY ChunksAssumption
  <2>4. ChunkCount(f) \in Nat
    <3>1. n \div ChunkSize \in Nat
      BY Divided, ClientAssumption
    <3> QED BY <2>3, <3>1 DEF ChunkCount
  <2>5. j[2] \in 1 .. ChunkCount(f)
    BY <2>2, <2>4, ClientAssumption
  <2>6. ChunkLen(f, j[2]) \in Nat
    BY <2>5, ChunkParts
  <2> QED BY <2>1, <2>6
<1>3. PICK n \in 0 .. Len(t) : n = Taken(len, t)
  BY DEF Taken
<1>4. Header("write", len) \in Tokens /\ Header("write", len).tok # "metadata"
  BY DEF Header, Tokens, Types
<1>5. PICK b \in Seq(Tokens) : b = SubSeq(t, 1, n) /\ Uploads(b) /\ Len(b) = n
  <2>1. SubSeq(t, 1, n) \in Seq(Tokens) /\ Uploads(SubSeq(t, 1, n))
    BY <1>1, Beginning
  <2>2. Len(SubSeq(t, 1, n)) = n
    OBVIOUS
  <2> QED BY <2>1, <2>2
<1>6. PICK u \in Seq(Tokens) : u = SubSeq(t, n + 1, Len(t)) /\ Uploads(u)
  BY <1>1, Rest
<1>7. PICK m \in Seq(Tokens) : m = <<Header("write", len)>> \o b /\ Uploads(m) /\ Len(m) = n + 1
  <2>1. <<Header("write", len)>> \o b \in Seq(Tokens) /\ Uploads(<<Header("write", len)>> \o b)
    BY <1>4, <1>5, InFront
  <2>2. Len(<<Header("write", len)>> \o b) = n + 1
    BY <1>5
  <2> QED BY <2>1, <2>2
<1>8. SendMessage(j) = IF len > MaxPayloadLen
                       THEN [out |-> << >>, rest |-> t, ok |-> FALSE]
                       ELSE [out |-> m, rest |-> u, ok |-> Len(t) >= len]
  BY <1>1, <1>2, <1>3, <1>5, <1>6, <1>7 DEF SendMessage, Encode
<1>9. CASE len > MaxPayloadLen
  <2>1. SendMessage(j).out = << >> /\ SendMessage(j).rest = t
    BY <1>8, <1>9
  <2>2. << >> \in Seq(Tokens) /\ Len(<< >>) = 0 /\ Len(t) \in Nat
    OBVIOUS
  <2> QED BY <1>1, <2>1, <2>2, NothingUploads
<1>10. CASE ~ (len > MaxPayloadLen)
  <2>1. SendMessage(j).out = m /\ SendMessage(j).rest = u
    BY <1>8, <1>10
  <2>2. n + 1 <= Len(t) + 1
    OBVIOUS
  <2> QED BY <1>1, <1>6, <1>7, <2>1, <2>2
<1> QED BY <1>9, <1>10

----------------------------------------------------------------------------
(* The steps *)

\* The chunk server's part of a step.
LEMMA ServerPart ==
  ASSUME ClientInv, [Next]_vars
  PROVE  ChunkInv'
<1>1. ChunkInv
  BY DEF ClientInv
<1>2. CASE UNCHANGED serverVars \/ ServerNext
  BY <1>1, <1>2, NextChunkInv
<1>3. ASSUME NEW j \in SendJobs, SendChunk(j)
      PROVE  ChunkInv'
  <2>1. PICK t \in Seq(Tokens) : t = SendMessage(j).out /\ Uploads(t)
    BY <1>3, MessageUploads DEF SendChunk
  <2>2. CASE Dial(t, "eof")
    BY <1>1, <2>1, <2>2, DialKeeps
  <2>3. ASSUME NEW n \in 0 .. Len(t) - 1, Dial(SubSeq(t, 1, n), "reset")
        PROVE  ChunkInv'
    <3>1. n \in 0 .. Len(t)
      OBVIOUS
    <3>2. SubSeq(t, 1, n) \in Seq(Tokens) /\ Uploads(SubSeq(t, 1, n))
      BY <2>1, <3>1, Beginning
    <3> QED BY <1>1, <2>3, <3>2, DialKeeps
  <2> QED BY <1>3, <2>1, <2>2, <2>3 DEF SendChunk
<1>4. ASSUME NEW j \in SendJobs, SendChunkBreaks(j)
      PROVE  ChunkInv'
  <2>1. PICK t \in Seq(Tokens) : t = SendMessage(j).out /\ Uploads(t)
    BY <1>4, MessageUploads DEF SendChunkBreaks
  <2>2. PICK n \in 0 .. Len(t) - 1, end \in {"eof", "reset"} :
          \E k \in 0 .. n : Dial(SubSeq(t, 1, k), end)
    BY <1>4, <2>1 DEF SendChunkBreaks
  <2>3. PICK k \in 0 .. n : Dial(SubSeq(t, 1, k), end)
    BY <2>2
  <2>4. k \in 0 .. Len(t)
    OBVIOUS
  <2>5. SubSeq(t, 1, k) \in Seq(Tokens) /\ Uploads(SubSeq(t, 1, k))
    BY <2>1, <2>4, Beginning
  <2> QED BY <1>1, <2>3, <2>5, DialKeeps
<1>5. ASSUME NEW j \in ReadJobs, ReadRequest(j)
      PROVE  ChunkInv'
  <2>1. PICK t : t = Encode("read", 1, <<Key(j[2])>>).out
    OBVIOUS
  <2>2. Key(j[2]) \in Tokens /\ Key(j[2]).tok = "key"
    BY DEF ReadJobs, Key, Tokens
  <2>3. PICK a \in Seq(Tokens) : a = <<Key(j[2])>> /\ Len(a) = 1 /\ a[1] = Key(j[2])
    <3>1. <<Key(j[2])>> \in Seq(Tokens) /\ Len(<<Key(j[2])>>) = 1
      BY <2>2
    <3> QED BY <3>1
  <2>4. Uploads(a)
    BY <2>2, <2>3 DEF Uploads
  <2>5. t = << >> \/ t = <<Header("read", 1)>> \o SubSeq(a, 1, 1)
    BY <2>1, <2>3 DEF Encode, Taken
  <2>6. SubSeq(a, 1, 1) \in Seq(Tokens) /\ Uploads(SubSeq(a, 1, 1))
    <3>1. 1 \in 0 .. Len(a)
      BY <2>3
    <3> QED BY <2>4, <3>1, Beginning
  <2>7. Header("read", 1) \in Tokens /\ Header("read", 1).tok # "metadata"
    BY DEF Header, Tokens, Types
  <2>8. t \in Seq(Tokens) /\ Uploads(t)
    <3>1. << >> \in Seq(Tokens)
      OBVIOUS
    <3> QED BY <2>5, <2>6, <2>7, <3>1, NothingUploads, InFront
  <2> QED BY <1>1, <1>5, <2>1, <2>8, DialKeeps DEF ReadRequest
<1>6. ASSUME NEW j \in ReadJobs, ReadChunkDone(j) \/ ReadChunkBreaks(j)
      PROVE  ChunkInv'
  BY <1>1, <1>6, HangupKeeps DEF ReadChunkDone, ReadChunkBreaks
<1>7. CASE UNCHANGED vars
  BY <1>2, <1>7 DEF vars
<1>8. CASE \E s \in Senders, n \in Names, f \in Files : SendFile(s, n, f)
  BY <1>2, <1>8 DEF SendFile
<1>9. CASE \E r \in Readers, n \in Names : ReadFile(r, n)
  BY <1>2, <1>9 DEF ReadFile
<1>10. CASE Progress
  <2>1. CASE \E x \in Calls : CallStep(x)
    BY <1>2, <2>1 DEF CallStep, SubmitSend, CollectSend, SubmitRead, CollectRead
  <2>2. CASE \E j \in SendJobs : SendStep(j)
    BY <1>2, <1>3, <2>2 DEF SendStep, SendWorker
  <2>3. CASE \E j \in ReadJobs : ReadStep(j)
    BY <1>2, <1>5, <1>6, <2>3 DEF ReadStep, ReadWorker
  <2>4. CASE \E c \in Conns : Handler(c)
    BY <1>2, <2>4 DEF Handler, ServerNext
  <2> QED BY <1>10, <2>1, <2>2, <2>3, <2>4 DEF Progress
<1>11. CASE \E j \in SendJobs : SendDialFails(j) \/ SendChunkBreaks(j)
  BY <1>2, <1>4, <1>11 DEF SendDialFails
<1>12. CASE \E j \in ReadJobs : ReadDialFails(j)
  BY <1>2, <1>12 DEF ReadDialFails
<1>13. CASE CloseSendPool \/ CloseReadPool \/ CloseConnPool
  BY <1>2, <1>13 DEF CloseSendPool, CloseReadPool, CloseConnPool
<1>14. CASE (\E c \in Conns : StorageError(c)) \/ Crash
  BY <1>2, <1>14 DEF StorageError, Crash, ServerNext
<1> QED BY <1>7, <1>8, <1>9, <1>10, <1>11, <1>12, <1>13, <1>14 DEF Next

\* The sending workers' part of a step is one of their job queue, and no job
\* is taken into it but by the call that it is for.
LEMMA SendPoolPart ==
  ASSUME ClientInv, [Next]_vars
  PROVE  [SendPool!Next]_sendVars
<1>1. CASE UNCHANGED sendVars
  BY <1>1
<1>2. ASSUME NEW s \in Senders, SubmitSend(s)
      PROVE  SendPool!Next
  <2>1. PICK i : i = call[s].next /\ i \in Nat \ {0} /\ i <= ChunkCount(call[s].file)
    BY <1>2 DEF SubmitSend, ClientInv, ClientLink, CallsOK, CallRec, Calls
  <2>2. PICK f \in Files : f = call[s].file
    BY <1>2 DEF SubmitSend, ClientInv, ClientLink, CallsOK
  <2>3. ChunkCount(f) \in Nat
    <3>1. PICK n \in Nat : n = Len(f)
      BY ChunksAssumption
    <3>2. n \div ChunkSize \in Nat
      BY Divided, ClientAssumption
    <3> QED BY <3>1, <3>2 DEF ChunkCount
  <2>4. i \in 1 .. ChunkCount(f)
    BY <2>1, <2>2, <2>3
  <2>5. i <= MaxChunks
    BY <2>4, ChunkParts
  <2>6. <<s, i>> \in SendJobs
    BY <2>1, <2>5, ClientAssumption DEF SendJobs
  <2> QED BY <1>2, <2>1, <2>6 DEF SubmitSend, SendPool!Next
<1>3. ASSUME NEW j \in SendJobs, SendStep(j) \/ SendChunkBreaks(j)
      PROVE  SendPool!Next
  BY <1>3 DEF SendStep, SendWorker, SendChunk, SendChunkBreaks, SendAttemptFails, SendPool!Next
<1>4. CASE CloseSendPool
  BY <1>4 DEF CloseSendPool, SendPool!Next
<1>5. CASE UNCHANGED vars
  BY <1>1, <1>5 DEF vars
<1>6. CASE \E s \in Senders, n \in Names, f \in Files : SendFile(s, n, f)
  BY <1>1, <1>6 DEF SendFile
<1>7. CASE \E r \in Readers, n \in Names : ReadFile(r, n)
  BY <1>1, <1>7 DEF ReadFile
<1>8. CASE Progress
  <2>1. CASE \E x \in Calls : CallStep(x)
    BY <1>1, <1>2, <2>1 DEF CallStep, CollectSend, SubmitRead, CollectRead
  <2>2. CASE \E j \in SendJobs : SendStep(j)
    BY <1>3, <2>2
  <2>3. CASE \E j \in ReadJobs : ReadStep(j)
    BY <1>1, <2>3 DEF ReadStep, ReadWorker, ReadRequest, ReadChunkDone, ReadChunkBreaks
  <2>4. CASE \E c \in Conns : Handler(c)
    BY <1>1, <2>4 DEF Handler
  <2> QED BY <1>8, <2>1, <2>2, <2>3, <2>4 DEF Progress
<1>9. CASE \E j \in SendJobs : SendDialFails(j) \/ SendChunkBreaks(j)
  BY <1>1, <1>3, <1>9 DEF SendDialFails
<1>10. CASE \E j \in ReadJobs : ReadDialFails(j)
  BY <1>1, <1>10 DEF ReadDialFails
<1>11. CASE CloseReadPool \/ CloseConnPool
  BY <1>1, <1>11 DEF CloseReadPool, CloseConnPool
<1>12. CASE (\E c \in Conns : StorageError(c)) \/ Crash
  BY <1>1, <1>12 DEF StorageError, Crash
<1> QED BY <1>4, <1>5, <1>6, <1>7, <1>8, <1>9, <1>10, <1>11, <1>12 DEF Next

\* The reading workers' part of a step is one of theirs.
LEMMA ReadPoolPart ==
  ASSUME ClientInv, [Next]_vars
  PROVE  [ReadPool!Next]_readVars
<1>1. CASE UNCHANGED readVars
  BY <1>1
<1>2. ASSUME NEW r \in Readers, SubmitRead(r)
      PROVE  ReadPool!Next
  <2>1. PICK id \in DOMAIN call[r].meta : ReadPool!Submit(<<r, id>>) \/ ReadPool!Refuse(<<r, id>>)
    BY <1>2 DEF SubmitRead
  <2>2. id \in Ids
    <3>1. call[r].meta \in Metas
      BY DEF ClientInv, ClientLink, CallsOK, CallRec, Calls
    <3>2. DOMAIN NoMeta = {}
      BY DEF NoMeta
    <3>3. \A f \in Files : DOMAIN buildFileMetadata(f) \subseteq Ids
      BY ChunksAssumption, HashAssumption DEF buildFileMetadata, ChunkId
    <3> QED BY <2>1, <3>1, <3>2, <3>3 DEF Metas
  <2>3. <<r, id>> \in ReadJobs
    BY <2>2 DEF ReadJobs
  <2> QED BY <2>1, <2>3 DEF ReadPool!Next
<1>3. ASSUME NEW j \in ReadJobs, ReadStep(j)
      PROVE  [ReadPool!Next]_readVars
  BY <1>3 DEF ReadStep, ReadWorker, ReadRequest, ReadChunkDone, ReadChunkBreaks,
              ReadAttemptFails, ReadPool!Next, readVars
<1>4. CASE CloseReadPool
  BY <1>4 DEF CloseReadPool, ReadPool!Next
<1>5. CASE UNCHANGED vars
  BY <1>1, <1>5 DEF vars
<1>6. CASE \E s \in Senders, n \in Names, f \in Files : SendFile(s, n, f)
  BY <1>1, <1>6 DEF SendFile
<1>7. CASE \E r \in Readers, n \in Names : ReadFile(r, n)
  BY <1>1, <1>7 DEF ReadFile
<1>8. CASE Progress
  <2>1. CASE \E x \in Calls : CallStep(x)
    BY <1>1, <1>2, <2>1 DEF CallStep, CollectSend, SubmitSend, CollectRead
  <2>2. CASE \E j \in SendJobs : SendStep(j)
    BY <1>1, <2>2 DEF SendStep, SendWorker, SendChunk
  <2>3. CASE \E j \in ReadJobs : ReadStep(j)
    BY <1>3, <2>3
  <2>4. CASE \E c \in Conns : Handler(c)
    BY <1>1, <2>4 DEF Handler
  <2> QED BY <1>8, <2>1, <2>2, <2>3, <2>4 DEF Progress
<1>9. CASE \E j \in SendJobs : SendDialFails(j) \/ SendChunkBreaks(j)
  BY <1>1, <1>9 DEF SendDialFails, SendChunkBreaks
<1>10. CASE \E j \in ReadJobs : ReadDialFails(j)
  BY <1>1, <1>10 DEF ReadDialFails
<1>11. CASE CloseSendPool \/ CloseConnPool
  BY <1>1, <1>11 DEF CloseSendPool, CloseConnPool
<1>12. CASE (\E c \in Conns : StorageError(c)) \/ Crash
  BY <1>1, <1>12 DEF StorageError, Crash
<1> QED BY <1>4, <1>5, <1>6, <1>7, <1>8, <1>9, <1>10, <1>11, <1>12 DEF Next

\* The jobs in line are queued, each once.
Line(st, q) ==
  /\ \A k \in 1 .. Len(q) : st[q[k]] = "queued"
  /\ \A k, l \in 1 .. Len(q) : q[k] = q[l] => k = l

\* A job gets in line.
LEMMA LineGrows ==
  ASSUME NEW J, NEW st, NEW T, st \in [J -> T], NEW q \in Seq(J), Line(st, q),
         NEW j \in J, st[j] # "queued"
  PROVE  /\ Append(q, j) \in Seq(J)
         /\ Line([st EXCEPT ![j] = "queued"], Append(q, j))
<1>1. PICK u \in Seq(J) : u = Append(q, j)
  <2>1. Append(q, j) \in Seq(J)
    OBVIOUS
  <2> QED BY <2>1, Zenon
<1>2. Len(u) = Len(q) + 1 /\ u[Len(q) + 1] = j /\ \A k \in 1 .. Len(q) : u[k] = q[k]
  BY <1>1
<1>3. \A k \in 1 .. Len(u) : k = Len(q) + 1 \/ k \in 1 .. Len(q)
  BY <1>2
<1>4. \A k \in 1 .. Len(q) : q[k] # j /\ q[k] \in J /\ st[q[k]] = "queued"
  BY DEF Line
<1>5. \A k \in 1 .. Len(u) : [st EXCEPT ![j] = "queued"][u[k]] = "queued"
  BY <1>2, <1>3, <1>4
<1>6. \A k, l \in 1 .. Len(u) : u[k] = u[l] => k = l
  <2>1. \A k, l \in 1 .. Len(q) : q[k] = q[l] => k = l
    BY DEF Line
  <2>2. \A k \in 1 .. Len(q) : u[k] = q[k] /\ u[k] # u[Len(q) + 1]
    BY <1>2, <1>4
  <2> QED BY <1>3, <2>1, <2>2
<1> QED BY <1>1, <1>5, <1>6 DEF Line

\* The first job in line is taken.
LEMMA LineShrinks ==
  ASSUME NEW J, NEW st, NEW T, st \in [J -> T], NEW q \in Seq(J), Line(st, q), q # << >>, NEW t
  PROVE  /\ Tail(q) \in Seq(J) /\ Head(q) \in J /\ st[Head(q)] = "queued"
         /\ Line([st EXCEPT ![Head(q)] = t], Tail(q))
<1>1. PICK j \in J : j = Head(q) /\ j = q[1] /\ 1 \in 1 .. Len(q)
  OBVIOUS
<1>2. PICK u \in Seq(J) : u = Tail(q)
  <2>1. Tail(q) \in Seq(J)
    OBVIOUS
  <2> QED BY <2>1, Zenon
<1>3. Len(u) = Len(q) - 1 /\ \A k \in 1 .. Len(u) : u[k] = q[k + 1]
  BY <1>2
<1>4. \A k \in 1 .. Len(u) : k + 1 \in 1 .. Len(q) /\ k + 1 # 1
  BY <1>3
<1>5. \A k \in 1 .. Len(q) : st[q[k]] = "queued" /\ q[k] \in J
  BY DEF Line
<1>6. \A k, l \in 1 .. Len(q) : q[k] = q[l] => k = l
  BY DEF Line
<1>7. \A k \in 1 .. Len(u) : u[k] # j /\ u[k] \in J /\ st[u[k]] = "queued"
  <2>1. ASSUME NEW k \in 1 .. Len(u)
        PROVE  u[k] # j /\ u[k] \in J /\ st[u[k]] = "queued"
    <3>1. u[k] = q[k + 1] /\ k + 1 \in 1 .. Len(q) /\ k + 1 # 1
      BY <1>3, <1>4
    <3> QED BY <1>1, <1>5, <1>6, <3>1
  <2> QED BY <2>1
<1>8. \A k \in 1 .. Len(u) : [st EXCEPT ![j] = t][u[k]] = "queued"
  BY <1>7
<1>9. \A k, l \in 1 .. Len(u) : u[k] = u[l] => k = l
  <2>1. ASSUME NEW k \in 1 .. Len(u), NEW l \in 1 .. Len(u), u[k] = u[l]
        PROVE  k = l
    <3>1. k + 1 = l + 1
      BY <1>3, <1>4, <1>6, <2>1
    <3> QED BY <3>1
  <2> QED BY <2>1
<1> QED BY <1>1, <1>2, <1>5, <1>8, <1>9 DEF Line

\* Something becomes of a job that is not in line.
LEMMA LineStays ==
  ASSUME NEW J, NEW st, NEW T, st \in [J -> T], NEW q \in Seq(J), Line(st, q),
         NEW j \in J, st[j] # "queued", NEW t
  PROVE  Line([st EXCEPT ![j] = t], q)
<1>1. \A k \in 1 .. Len(q) : q[k] # j /\ q[k] \in J /\ st[q[k]] = "queued"
  BY DEF Line
<1> QED BY <1>1 DEF Line

\* A step of the job queue leaves in the queue jobs that are waiting, and makes
\* only a job that is not new anything but new, unless it is submitted or refused.
LEMMA QueueKeeps ==
  ASSUME SendPool!QueueInv, [SendPool!Next]_sendVars
  PROVE  /\ SendPool!QueueInv'
         /\ \A j \in SendJobs :
              sendState'[j] = "new" \/ sendState[j] # "new"
                \/ SendPool!Submit(j) \/ SendPool!Refuse(j)
<1> DEFINE Good == /\ SendPool!QueueInv'
                   /\ \A j \in SendJobs :
                        sendState'[j] = "new" \/ sendState[j] # "new"
                          \/ SendPool!Submit(j) \/ SendPool!Refuse(j)
<1>1. /\ sendState \in [SendJobs -> SendPool!States] /\ sendQueue \in Seq(SendJobs)
      /\ sendTries \in [SendJobs -> Nat] /\ sendClosed \in BOOLEAN /\ sendCancelled \in BOOLEAN
      /\ Line(sendState, sendQueue)
  BY DEF SendPool!QueueInv, Line
<1>2. ASSUME /\ sendState' \in [SendJobs -> SendPool!States] /\ sendQueue' \in Seq(SendJobs)
             /\ sendTries' \in [SendJobs -> Nat] /\ sendClosed' \in BOOLEAN
             /\ sendCancelled' \in BOOLEAN /\ Line(sendState', sendQueue')
      PROVE  SendPool!QueueInv'
  BY <1>2 DEF SendPool!QueueInv, Line
<1>3. {"queued", "running"} \subseteq SendPool!States
  BY DEF SendPool!States
<1>4. CASE UNCHANGED sendVars
  BY <1>1, <1>2, <1>4 DEF sendVars
<1>5. ASSUME NEW j \in SendJobs, SendPool!Submit(j)
      PROVE  Good
  <2>1. /\ sendState[j] = "new" /\ sendState' = [sendState EXCEPT ![j] = "queued"]
        /\ sendQueue' = Append(sendQueue, j) /\ UNCHANGED <<sendTries, sendClosed, sendCancelled>>
    BY <1>5 DEF SendPool!Submit
  <2>2. sendQueue' \in Seq(SendJobs) /\ Line(sendState', sendQueue')
    BY <1>1, <2>1, LineGrows
  <2>3. \A i \in SendJobs : i # j => sendState'[i] = sendState[i]
    BY <1>1, <2>1
  <2>4. SendPool!QueueInv'
    BY <1>1, <1>2, <1>3, <2>1, <2>2
  <2> QED BY <1>5, <2>3, <2>4
<1>6. ASSUME NEW j \in SendJobs, SendPool!Start(j)
      PROVE  Good
  <2>1. /\ sendQueue # << >> /\ j = Head(sendQueue)
        /\ sendState' = [sendState EXCEPT ![j] = "running"]
        /\ sendQueue' = Tail(sendQueue) /\ UNCHANGED <<sendTries, sendClosed, sendCancelled>>
    BY <1>6 DEF SendPool!Start
  <2>2. sendQueue' \in Seq(SendJobs) /\ sendState[j] = "queued" /\ Line(sendState', sendQueue')
    BY <1>1, <2>1, LineShrinks
  <2> QED BY <1>1, <1>2, <1>3, <2>1, <2>2
<1>7. ASSUME NEW j \in SendJobs,
             SendPool!Refuse(j) \/ SendPool!Succeed(j) \/ SendPool!Fail(j) \/ SendPool!Abandon(j)
      PROVE  Good
  <2>1. PICK t \in SendPool!States : sendState' = [sendState EXCEPT ![j] = t]
    BY <1>7 DEF SendPool!Refuse, SendPool!Succeed, SendPool!Fail, SendPool!Abandon,
                SendPool!Ends, SendPool!States, SendPool!Answers
  <2>2. /\ sendState[j] \in {"new", "running"} /\ sendTries' \in [SendJobs -> Nat]
        /\ UNCHANGED <<sendQueue, sendClosed, sendCancelled>>
        /\ SendPool!Refuse(j) \/ sendState[j] # "new"
    BY <1>1, <1>7 DEF SendPool!Refuse, SendPool!Succeed, SendPool!Fail, SendPool!Abandon, SendPool!Ends
  <2>3. Line(sendState', sendQueue)
    BY <1>1, <2>1, <2>2, LineStays
  <2> QED BY <1>1, <1>2, <2>1, <2>2, <2>3
<1>8. ASSUME NEW j \in SendJobs, SendPool!Retry(j)
      PROVE  Good
  <2>1. sendTries' \in [SendJobs -> Nat]
    BY <1>1, <1>8 DEF SendPool!Retry
  <2> QED BY <1>1, <1>2, <1>8, <2>1 DEF SendPool!Retry
<1>9. CASE SendPool!Close \/ SendPool!Cancel
  BY <1>1, <1>2, <1>9 DEF SendPool!Close, SendPool!Cancel
<1> QED BY <1>4, <1>5, <1>6, <1>7, <1>8, <1>9 DEF SendPool!Next

\* What a call can become in a step: it keeps its file once it has one to send.
LEMMA CallChanges ==
  ASSUME ClientInv, NEW x \in Calls, NEW e \in CallRec,
         call' = [call EXCEPT ![x] = e], metas' \in [Names -> Metas],
         x \in Senders /\ e.pc = "wait" => e.file \in Files,
         x \in Senders /\ call[x].pc # "idle" => e.pc # "idle" /\ e.file = call[x].file
  PROVE  /\ CallsOK'
         /\ \A s \in Senders :
              call[s].pc # "idle" => call'[s].pc # "idle" /\ call'[s].file = call[s].file
<1>1. call \in [Calls -> CallRec] /\ \A s \in Senders : call[s].pc = "wait" => call[s].file \in Files
  BY DEF ClientInv, ClientLink, CallsOK
<1>2. call' \in [Calls -> CallRec]
  BY <1>1
<1>3. \A s \in Senders : s \in Calls /\ call'[s] = IF s = x THEN e ELSE call[s]
  BY <1>1 DEF Calls
<1>4. \A s \in Senders : call'[s].pc = "wait" => call'[s].file \in Files
  BY <1>1, <1>3
<1>5. CallsOK'
  BY <1>2, <1>4 DEF CallsOK
<1> QED BY <1>3, <1>5

\* A call that returns.
LEMMA CallReturns ==
  ASSUME ClientInv, NEW x \in Calls, NEW how \in Returned, Returning(x, how),
         metas' \in [Names -> Metas]
  PROVE  /\ CallsOK'
         /\ \A s \in Senders :
              call[s].pc # "idle" => call'[s].pc # "idle" /\ call'[s].file = call[s].file
<1>1. call[x] \in CallRec
  BY DEF ClientInv, ClientLink, CallsOK
<1>2. PICK e \in CallRec : e = [call[x] EXCEPT !.pc = how]
  <2>1. [call[x] EXCEPT !.pc = how] \in CallRec
    BY <1>1 DEF CallRec
  <2> QED BY <2>1, Zenon
<1>3. e.pc = how /\ e.file = call[x].file
  BY <1>1, <1>2 DEF CallRec
<1>4. how # "wait" /\ how # "idle"
  BY DEF Returned
<1>5. call' = [call EXCEPT ![x] = e]
  BY <1>2 DEF Returning
<1> QED BY <1>3, <1>4, <1>5, CallChanges

\* The calls' part of a step: a call that has a file to send keeps it.
LEMMA CallsPart ==
  ASSUME ClientInv, [Next]_vars
  PROVE  /\ CallsOK'
         /\ \A s \in Senders :
              call[s].pc # "idle" => call'[s].pc # "idle" /\ call'[s].file = call[s].file
<1> DEFINE Kept == \A s \in Senders :
              call[s].pc # "idle" => call'[s].pc # "idle" /\ call'[s].file = call[s].file
<1>1. /\ call \in [Calls -> CallRec] /\ metas \in [Names -> Metas]
      /\ \A f \in Files : buildFileMetadata(f) \in Metas
      /\ Senders \subseteq Calls /\ Readers \subseteq Calls /\ Senders \cap Readers = {}
  BY ClientAssumption DEF ClientInv, ClientLink, CallsOK, Metas, Calls
<1>2. CASE UNCHANGED <<call, metas>>
  BY <1>2 DEF ClientInv, ClientLink, CallsOK
<1>3. ASSUME NEW s \in Senders, NEW n \in Names, NEW f \in Files, SendFile(s, n, f)
      PROVE  CallsOK' /\ Kept
  <2>1. metas' \in [Names -> Metas]
    BY <1>1, <1>3 DEF SendFile, RegisterFails, registerFileMetadata
  <2>2. CASE call' = [call EXCEPT ![s] = [pc |-> "wait", name |-> n, file |-> f,
                                          meta |-> buildFileMetadata(f), next |-> 1]]
    <3>1. PICK e \in CallRec : e = [pc |-> "wait", name |-> n, file |-> f,
                                   meta |-> buildFileMetadata(f), next |-> 1]
      <4>1. [pc |-> "wait", name |-> n, file |-> f, meta |-> buildFileMetadata(f), next |-> 1] \in CallRec
        BY <1>1 DEF CallRec
      <4> QED BY <4>1, Zenon
    <3>2. e.file \in Files
      BY <3>1
    <3>3. call[s].pc = "idle"
      BY <1>3 DEF SendFile
    <3>4. call' = [call EXCEPT ![s] = e]
      BY <2>2, <3>1
    <3> QED BY <1>1, <2>1, <3>2, <3>3, <3>4, CallChanges
  <2>3. CASE Returning(s, "failed")
    BY <1>1, <2>1, <2>3, CallReturns DEF Returned
  <2> QED BY <1>3, <2>2, <2>3 DEF SendFile
<1>4. ASSUME NEW s \in Senders, SubmitSend(s)
      PROVE  CallsOK' /\ Kept
  <2>1. metas' = metas /\ call[s].pc = "wait"
    BY <1>4 DEF SubmitSend
  <2>2. CASE call' = [call EXCEPT ![s].next = call[s].next + 1]
    <3>1. PICK e \in CallRec : e = [call[s] EXCEPT !.next = call[s].next + 1]
      <4>1. call[s] \in CallRec /\ call[s].next + 1 \in Nat \ {0}
        BY <1>1 DEF CallRec
      <4>2. [call[s] EXCEPT !.next = call[s].next + 1] \in CallRec
        BY <4>1 DEF CallRec
      <4> QED BY <4>2, Zenon
    <3>2. e.file = call[s].file /\ e.pc = "wait" /\ e.file \in Files
      BY <1>1, <2>1, <3>1 DEF CallRec, ClientInv, ClientLink, CallsOK
    <3>3. call' = [call EXCEPT ![s] = e]
      BY <2>2, <3>1
    <3> QED BY <1>1, <2>1, <3>2, <3>3, CallChanges
  <2>3. CASE Returning(s, "failed")
    BY <1>1, <2>1, <2>3, CallReturns DEF Returned
  <2> QED BY <1>4, <2>2, <2>3 DEF SubmitSend
<1>5. ASSUME NEW r \in Readers, NEW n \in Names, ReadFile(r, n)
      PROVE  CallsOK' /\ Kept
  <2>1. metas' = metas /\ metas[n] \in Metas
    BY <1>1, <1>5 DEF ReadFile
  <2>2. CASE call' = [call EXCEPT ![r].pc = "wait", ![r].name = n, ![r].meta = fetchFileMetadata(n)]
    <3>1. PICK e \in CallRec : e = [call[r] EXCEPT !.pc = "wait", !.name = n, !.meta = metas[n]]
      <4>1. [call[r] EXCEPT !.pc = "wait", !.name = n, !.meta = metas[n]] \in CallRec
        BY <1>1, <2>1 DEF CallRec
      <4> QED BY <4>1, Zenon
    <3>2. call' = [call EXCEPT ![r] = e]
      BY <1>1, <2>2, <3>1 DEF fetchFileMetadata, CallRec
    <3> QED BY <1>1, <2>1, <3>2, CallChanges
  <2>3. CASE Returning(r, "failed")
    BY <1>1, <2>1, <2>3, CallReturns DEF Returned
  <2> QED BY <1>5, <2>2, <2>3 DEF ReadFile
<1>6. ASSUME NEW x \in Calls, CallStep(x)
      PROVE  CallsOK' /\ Kept
  <2>1. CASE UNCHANGED call /\ UNCHANGED metas
    BY <1>2, <2>1
  <2>2. ASSUME NEW how \in Returned, Returning(x, how), UNCHANGED metas
        PROVE  CallsOK' /\ Kept
    BY <1>1, <2>2, CallReturns
  <2>3. \A states : Outcomes(states) \subseteq Returned
    BY DEF Outcomes, Returned
  <2>4. CASE x \in Senders /\ CollectSend(x)
    BY <2>2, <2>3, <2>4 DEF CollectSend
  <2>5. CASE x \in Readers /\ SubmitRead(x)
    BY <2>1, <2>2, <2>5 DEF SubmitRead, Returned
  <2>6. CASE x \in Readers /\ CollectRead(x)
    BY <2>2, <2>3, <2>6 DEF CollectRead
  <2> QED BY <1>4, <1>6, <2>4, <2>5, <2>6 DEF CallStep
<1>7. CASE Progress
  <2>1. CASE \E j \in SendJobs : SendStep(j)
    BY <1>2, <2>1 DEF SendStep, SendWorker, SendChunk, callVars
  <2>2. CASE \E j \in ReadJobs : ReadStep(j)
    BY <1>2, <2>2 DEF ReadStep, ReadWorker, ReadRequest, ReadChunkDone, ReadChunkBreaks, callVars
  <2>3. CASE \E c \in Conns : Handler(c)
    BY <1>2, <2>3 DEF Handler, callVars
  <2> QED BY <1>6, <1>7, <2>1, <2>2, <2>3 DEF Progress
<1>8. CASE \E j \in SendJobs : SendDialFails(j) \/ SendChunkBreaks(j)
  BY <1>2, <1>8 DEF SendDialFails, SendChunkBreaks
<1>9. CASE \E j \in ReadJobs : ReadDialFails(j)
  BY <1>2, <1>9 DEF ReadDialFails
<1>10. CASE CloseSendPool \/ CloseReadPool \/ CloseConnPool
  BY <1>2, <1>10 DEF CloseSendPool, CloseReadPool, CloseConnPool
<1>11. CASE (\E c \in Conns : StorageError(c)) \/ Crash
  BY <1>2, <1>11 DEF StorageError, Crash
<1>12. CASE UNCHANGED vars
  BY <1>2, <1>12 DEF vars, callVars
<1> QED BY <1>3, <1>5, <1>7, <1>8, <1>9, <1>10, <1>11, <1>12 DEF Next

\* Only its own call has a job taken, and only for a chunk of the call's file.
LEMMA TakenByCall ==
  ASSUME ClientInv, [Next]_vars, NEW j \in SendJobs, sendState[j] = "new", sendState'[j] # "new"
  PROVE  call[j[1]].pc = "wait" /\ j[2] <= ChunkCount(call[j[1]].file)
<1>1. /\ sendState \in [SendJobs -> SendPool!States]
      /\ sendQueue \in Seq(SendJobs)
      /\ \A k \in 1 .. Len(sendQueue) : sendState[sendQueue[k]] = "queued"
  BY DEF ClientInv, ClientLink, SendPool!QueueInv
<1>2. CASE UNCHANGED sendState
  BY <1>2
<1>3. ASSUME NEW s \in Senders, SubmitSend(s)
      PROVE  call[j[1]].pc = "wait" /\ j[2] <= ChunkCount(call[j[1]].file)
  <2>1. PICK i : i = call[s].next /\ i <= ChunkCount(call[s].file) /\ call[s].pc = "wait"
    BY <1>3 DEF SubmitSend
  <2>2. sendState' = [sendState EXCEPT ![<<s, i>>] = "queued"]
          \/ sendState' = [sendState EXCEPT ![<<s, i>>] = "refused"]
    BY <1>3, <2>1 DEF SubmitSend, SendPool!Submit, SendPool!Refuse
  <2>3. j = <<s, i>>
    BY <1>1, <2>2
  <2> QED BY <2>1, <2>3
<1>4. ASSUME NEW k \in SendJobs, SendPool!Start(k)
      PROVE  FALSE
  <2>1. /\ sendQueue # << >> /\ k = Head(sendQueue)
        /\ sendState' = [sendState EXCEPT ![k] = "running"]
    BY <1>4 DEF SendPool!Start
  <2>2. k = sendQueue[1] /\ 1 \in 1 .. Len(sendQueue)
    <3>1. PICK q \in Seq(SendJobs) : q = sendQueue
      BY <1>1
    <3>2. Head(q) = q[1] /\ 1 \in 1 .. Len(q)
      BY <2>1, <3>1
    <3> QED BY <2>1, <3>1, <3>2
  <2>3. sendState[k] = "queued"
    BY <1>1, <2>2
  <2>4. k # j
    BY <2>3
  <2> QED BY <1>1, <2>1, <2>4
<1>5. ASSUME NEW k \in SendJobs,
             SendPool!Retry(k) \/ SendPool!Succeed(k) \/ SendPool!Fail(k) \/ SendPool!Abandon(k)
      PROVE  FALSE
  <2>1. sendState[k] = "running" /\ \A i \in SendJobs \ {k} : sendState'[i] = sendState[i]
    BY <1>1, <1>5 DEF SendPool!Retry, SendPool!Succeed, SendPool!Fail, SendPool!Abandon, SendPool!Ends
  <2> QED BY <2>1
<1>6. CASE \E k \in SendJobs : SendStep(k) \/ SendDialFails(k) \/ SendChunkBreaks(k)
  <2>1. PICK k \in SendJobs : SendStep(k) \/ SendDialFails(k) \/ SendChunkBreaks(k)
    BY <1>6
  <2>2. SendPool!Start(k) \/ UNCHANGED sendState
          \/ SendPool!Retry(k) \/ SendPool!Succeed(k) \/ SendPool!Fail(k) \/ SendPool!Abandon(k)
    BY <2>1 DEF SendStep, SendWorker, SendChunk, SendDialFails, SendChunkBreaks, SendAttemptFails,
                sendVars
  <2> QED BY <1>2, <1>4, <1>5, <2>2
<1>7. CASE \E s \in Senders, n \in Names, f \in Files : SendFile(s, n, f)
  BY <1>2, <1>7 DEF SendFile, sendVars
<1>8. CASE \E r \in Readers, n \in Names : ReadFile(r, n)
  BY <1>2, <1>8 DEF ReadFile, sendVars
<1>9. CASE Progress
  <2>1. CASE \E x \in Calls : CallStep(x)
    BY <1>2, <1>3, <2>1 DEF CallStep, CollectSend, SubmitRead, CollectRead, sendVars
  <2>2. CASE \E k \in ReadJobs : ReadStep(k)
    BY <1>2, <2>2 DEF ReadStep, ReadWorker, ReadRequest, ReadChunkDone, ReadChunkBreaks, sendVars
  <2>3. CASE \E c \in Conns : Handler(c)
    BY <1>2, <2>3 DEF Handler, sendVars
  <2> QED BY <1>6, <1>9, <2>1, <2>2, <2>3 DEF Progress
<1>10. CASE \E k \in ReadJobs : ReadDialFails(k)
  BY <1>2, <1>10 DEF ReadDialFails, sendVars
<1>11. CASE CloseSendPool \/ CloseReadPool \/ CloseConnPool
  BY <1>2, <1>11 DEF CloseSendPool, CloseReadPool, CloseConnPool, SendPool!Close, SendPool!Cancel, sendVars
<1>12. CASE (\E c \in Conns : StorageError(c)) \/ Crash
  BY <1>2, <1>12 DEF StorageError, Crash, sendVars
<1>13. CASE UNCHANGED vars
  BY <1>2, <1>13 DEF vars, sendVars
<1> QED BY <1>6, <1>7, <1>8, <1>9, <1>10, <1>11, <1>12, <1>13 DEF Next

\* What is left in a chunk reader can still be uploaded, after part of it was read too.
LEMMA ReadersPart ==
  ASSUME ClientInv, [Next]_vars
  PROVE  rest' \in [SendJobs -> Seq(Tokens)] /\ \A j \in SendJobs : Uploads(rest'[j])
<1> DEFINE Good == rest' \in [SendJobs -> Seq(Tokens)] /\ \A j \in SendJobs : Uploads(rest'[j])
<1>1. rest \in [SendJobs -> Seq(Tokens)] /\ \A j \in SendJobs : Uploads(rest[j])
  BY DEF ClientInv, ClientLink, SendJobsOK
<1>2. CASE UNCHANGED rest
  BY <1>1, <1>2
<1>3. ASSUME NEW j \in SendJobs, NEW u \in Seq(Tokens), Uploads(u), rest' = [rest EXCEPT ![j] = u]
      PROVE  Good
  BY <1>1, <1>3
<1>4. ASSUME NEW s \in Senders, NEW n \in Names, NEW f \in Files, SendFile(s, n, f)
      PROVE  Good
  <2>1. CASE rest' = [j \in SendJobs |->
                      IF j[1] = s /\ j[2] <= ChunkCount(f) THEN ChunkData(f, j[2]) ELSE rest[j]]
    <3>1. ASSUME NEW j \in SendJobs, j[2] <= ChunkCount(f)
          PROVE  ChunkData(f, j[2]) \in Seq(Tokens) /\ Uploads(ChunkData(f, j[2]))
      <4>1. ChunkCount(f) \in Nat
        <5>1. PICK m \in Nat : m = Len(f)
          BY ChunksAssumption
        <5>2. m \div ChunkSize \in Nat
          BY Divided, ClientAssumption
        <5> QED BY <5>1, <5>2 DEF ChunkCount
      <4>2. j[2] \in 1 .. MaxChunks
        BY DEF SendJobs
      <4>3. j[2] \in 1 .. ChunkCount(f)
        BY <3>1, <4>1, <4>2, ClientAssumption
      <4> QED BY <4>3, ChunkDataUploads
    <3> QED BY <1>1, <2>1, <3>1
  <2> QED BY <1>2, <1>4, <2>1 DEF SendFile
<1>5. ASSUME NEW j \in SendJobs, SendChunk(j)
      PROVE  Good
  <2>1. sendState[j] = "running" /\ rest' = [rest EXCEPT ![j] = SendMessage(j).rest]
    BY <1>5 DEF SendChunk
  <2>2. PICK u \in Seq(Tokens) : u = SendMessage(j).rest /\ Uploads(u)
    BY <2>1, MessageUploads
  <2> QED BY <1>3, <2>1, <2>2
<1>6. ASSUME NEW j \in SendJobs, SendChunkBreaks(j)
      PROVE  Good
  <2>1. PICK m \in Seq(Tokens) : m = SendMessage(j).out /\ Len(m) <= Len(rest[j]) + 1
    BY <1>6, MessageUploads DEF SendChunkBreaks
  <2>2. PICK n \in 0 .. Len(m) - 1 : rest' = [rest EXCEPT ![j] = SubSeq(rest[j], n + 1, Len(rest[j]))]
    BY <1>6, <2>1 DEF SendChunkBreaks
  <2>3. PICK t \in Seq(Tokens) : t = rest[j] /\ Uploads(t)
    BY <1>1
  <2>4. n \in 0 .. Len(t)
    BY <2>1, <2>3
  <2>5. SubSeq(t, n + 1, Len(t)) \in Seq(Tokens) /\ Uploads(SubSeq(t, n + 1, Len(t)))
    BY <2>3, <2>4, Rest
  <2> QED BY <1>3, <2>2, <2>3, <2>5
<1>7. CASE \E r \in Readers, n \in Names : ReadFile(r, n)
  BY <1>2, <1>7 DEF ReadFile
<1>8. CASE Progress
  <2>1. CASE \E x \in Calls : CallStep(x)
    <3>1. ASSUME NEW s \in Senders, SubmitSend(s)
          PROVE  Good
      <4>1. CASE FileClosed(s)
        <5>1. PICK n \in [SendJobs -> 0 .. ChunkSize + 1] :
                /\ \A j \in SendJobs : n[j] \in StillRead(s, j)
                /\ rest' = [j \in SendJobs |-> SubSeq(rest[j], 1, n[j])]
          BY <4>1 DEF FileClosed
        <5>2. ASSUME NEW j \in SendJobs
              PROVE  SubSeq(rest[j], 1, n[j]) \in Seq(Tokens) /\ Uploads(SubSeq(rest[j], 1, n[j]))
          <6>1. PICK t \in Seq(Tokens) : t = rest[j] /\ Uploads(t)
            BY <1>1
          <6>2. n[j] \in StillRead(s, j)
            BY <5>1
          <6>3. n[j] \in 0 .. Len(t)
            BY <6>1, <6>2 DEF StillRead
          <6>4. PICK m \in 0 .. Len(t) : m = n[j]
            BY <6>3
          <6>5. SubSeq(t, 1, m) \in Seq(Tokens) /\ Uploads(SubSeq(t, 1, m))
            BY <6>1, Beginning
          <6> QED BY <6>1, <6>4, <6>5
        <5> QED BY <5>1, <5>2
      <4> QED BY <1>2, <3>1, <4>1 DEF SubmitSend
    <3>2. CASE \E s \in Senders : CollectSend(s)
      BY <1>2, <3>2 DEF CollectSend
    <3>3. CASE \E r \in Readers : SubmitRead(r) \/ CollectRead(r)
      BY <1>2, <3>3 DEF SubmitRead, CollectRead
    <3> QED BY <2>1, <3>1, <3>2, <3>3 DEF CallStep
  <2>2. CASE \E j \in SendJobs : SendStep(j)
    BY <1>2, <1>5, <2>2 DEF SendStep, SendWorker, callVars
  <2>3. CASE \E j \in ReadJobs : ReadStep(j)
    BY <1>2, <2>3 DEF ReadStep, ReadWorker, ReadRequest, ReadChunkDone, ReadChunkBreaks, callVars
  <2>4. CASE \E c \in Conns : Handler(c)
    BY <1>2, <2>4 DEF Handler, callVars
  <2> QED BY <1>8, <2>1, <2>2, <2>3, <2>4 DEF Progress
<1>9. CASE \E j \in SendJobs : SendDialFails(j) \/ SendChunkBreaks(j)
  BY <1>2, <1>6, <1>9 DEF SendDialFails
<1>10. CASE \E j \in ReadJobs : ReadDialFails(j)
  BY <1>2, <1>10 DEF ReadDialFails
<1>11. CASE CloseSendPool \/ CloseReadPool \/ CloseConnPool
  BY <1>2, <1>11 DEF CloseSendPool, CloseReadPool, CloseConnPool
<1>12. CASE (\E c \in Conns : StorageError(c)) \/ Crash
  BY <1>2, <1>12 DEF StorageError, Crash
<1>13. CASE UNCHANGED vars
  BY <1>2, <1>13 DEF vars, callVars
<1> QED BY <1>4, <1>7, <1>8, <1>9, <1>10, <1>11, <1>12, <1>13 DEF Next

\* The sending jobs' part of a step.
LEMMA SendJobsPart ==
  ASSUME ClientInv, [Next]_vars
  PROVE  SendJobsOK'
<1>1. SUFFICES ASSUME NEW j \in SendJobs, sendState'[j] # "new"
               PROVE  /\ call'[j[1]].pc # "idle" /\ call'[j[1]].file \in Files
                      /\ j[2] <= ChunkCount(call'[j[1]].file)
  BY ReadersPart DEF SendJobsOK
<1>2. PICK s \in Senders : s = j[1]
  BY DEF SendJobs
<1>3. call[s].pc # "idle" /\ call[s].file \in Files /\ j[2] <= ChunkCount(call[s].file)
  <2>1. CASE sendState[j] # "new"
    BY <1>2, <2>1 DEF ClientInv, ClientLink, SendJobsOK
  <2>2. CASE sendState[j] = "new"
    <3>1. call[s].pc = "wait" /\ j[2] <= ChunkCount(call[s].file)
      BY <1>1, <1>2, <2>2, TakenByCall
    <3> QED BY <3>1 DEF ClientInv, ClientLink, CallsOK
  <2> QED BY <2>1, <2>2
<1>4. call'[s].pc # "idle" /\ call'[s].file = call[s].file
  BY <1>3, CallsPart
<1> QED BY <1>2, <1>3, <1>4

\* The initial state.
LEMMA InitClientInv ==
  ASSUME ClientInit
  PROVE  ClientInv
<1>1. ChunkInv
  BY InitChunkInv DEF ClientInit
<1>2. << >> \in Seq(Tokens) /\ << >> \in Seq(SendJobs) /\ Len(<< >>) = 0
  OBVIOUS
<1>3. SendPool!QueueInv
  <2>1. sendQueue = << >> /\ \A k : k \notin 1 .. Len(sendQueue)
    <3>1. sendQueue = << >>
      BY DEF ClientInit, SendPool!Init
    <3>2. \A k : k \notin 1 .. 0
      OBVIOUS
    <3> QED BY <1>2, <3>1, <3>2
  <2>2. sendState \in [SendJobs -> SendPool!States] /\ sendTries \in [SendJobs -> Nat]
    BY DEF ClientInit, SendPool!Init, SendPool!States
  <2>3. sendClosed \in BOOLEAN /\ sendCancelled \in BOOLEAN
    BY DEF ClientInit, SendPool!Init
  <2> QED BY <1>2, <2>1, <2>2, <2>3 DEF SendPool!QueueInv
<1>4. NoCall \in CallRec
  BY DEF NoCall, CallRec, Metas
<1>5. CallsOK
  <2>1. NoMeta \in Metas /\ NoCall.pc = "idle"
    BY DEF Metas, NoCall
  <2> QED BY <1>4, <2>1 DEF ClientInit, CallsOK, Calls
<1>6. SendJobsOK
  BY <1>2, NothingUploads DEF ClientInit, SendJobsOK, SendPool!Init
<1> QED BY <1>1, <1>3, <1>5, <1>6 DEF ClientInv, ClientLink

----------------------------------------------------------------------------
\* The inductive invariant of the composition: whatever the client's jobs, the
\* faults and the server's handlers do, what a chunk reader still holds and what
\* is on a connection is an upload as the chunk server supposes it
\* (write_file.go:96, handler.go:59).
THEOREM ClientInvariance == Spec => []ClientInv
<1>1. ClientInit => ClientInv
  BY InitClientInv
<1>2. ClientInv /\ [Next]_vars => ClientInv'
  <2>1. SUFFICES ASSUME ClientInv, [Next]_vars
                 PROVE  ClientInv'
    OBVIOUS
  <2>2. SendPool!QueueInv'
    BY <2>1, SendPoolPart, QueueKeeps DEF ClientInv, ClientLink
  <2> QED BY <2>1, <2>2, ServerPart, CallsPart, SendJobsPart DEF ClientInv, ClientLink
<1> QED BY <1>1, <1>2, PTL DEF Spec

\* The client's own part of it: a call keeps its file while its jobs run, a job
\* is taken for a chunk of it, and a chunk reader holds what can be uploaded,
\* after any number of attempts that broke off (write_file.go:90, client.go:288).
THEOREM ClientKeepsLink == Spec => []ClientLink
<1>1. ClientInv => ClientLink
  BY DEF ClientInv
<1> QED BY <1>1, ClientInvariance, PTL

\* With the client's retries in place of arbitrary uploads, a stored chunk is
\* still what its name says: an attempt that sends what an earlier one has left
\* of the chunk reader never gets published (write_file.go:117, handler.go:81).
THEOREM ClientChunksStored == Spec => []StoredIntact
<1>1. ClientInv => StoredIntact
  BY StoredFromInv DEF ClientInv
<1> QED BY <1>1, ClientInvariance, PTL

\* Nor does a reading job ever get anything but the chunk that it asked for,
\* while other calls upload it again (read_file.go:75, storage.go:97).
THEOREM ClientReadsIntact == Spec => []ReadsIntact
<1>1. ClientInv => ReadsIntact
  BY ReadsFromInv DEF ClientInv
<1> QED BY <1>1, ClientInvariance, PTL

\* The client uses its two worker pools as the job queues that RetriableWorkerPool
\* is shown to implement: no call, retry or Close asks for what they do not offer
\* (client.go:107, write_file.go:90, read_file.go:120).
THEOREM ClientUsesQueues == Spec => SendPool!Spec /\ ReadPool!Spec
<1>1. ClientInit => SendPool!Init /\ ReadPool!Init
  BY DEF ClientInit
<1>2. ClientInv /\ [Next]_vars => [SendPool!Next]_sendVars /\ [ReadPool!Next]_readVars
  BY SendPoolPart, ReadPoolPart
<1> QED BY <1>1, <1>2, ClientInvariance, PTL DEF Spec, SendPool!Spec, ReadPool!Spec, sendVars, readVars,
           SendPool!queueVars, ReadPool!queueVars

=============================================================================
