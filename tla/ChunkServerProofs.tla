-------------------------- MODULE ChunkServerProofs --------------------------
(***************************************************************************)
(* ChunkInv of module ChunkServer is an inductive invariant, hence a chunk *)
(* that the server keeps or sends is the one its id stands for as long as  *)
(* the uploads of it do not overlap or are all whole.                      *)
(***************************************************************************)
EXTENDS ChunkServer, TLAPS

HandlerRec == [pc : HandlerPoints, id : Ids \cup {NoFile}, ino : Inodes \cup {NoFile},
            left : Nat, buf : Seq(Blocks)]

\* The fields of the tokens.
LEMMA TokenParts ==
  ASSUME NEW t \in Tokens
  PROVE  /\ t.tok = "header" => t.type \in Types /\ t.len \in Nat
         /\ t.tok \in {"metadata", "key"} => t.id \in Ids
         /\ BlockOf(t) \in Blocks
<1>1. Foreign \in Blocks
  BY FilesAssumption
<1> QED BY <1>1 DEF Tokens, Text, BlockOf

----------------------------------------------------------------------------
\* Two sequences with the same blocks are the same.
LEMMA SameBlocks ==
  ASSUME NEW s \in Seq(Blocks), NEW t \in Seq(Blocks), Len(s) = Len(t),
         \A k \in 1 .. Len(s) : s[k] = t[k]
  PROVE  s = t
<1>1. s = [k \in 1 .. Len(s) |-> s[k]] /\ t = [k \in 1 .. Len(t) |-> t[k]]
  OBVIOUS
<1> QED BY <1>1

\* What is left of a stream after the first n tokens are read.
LEMMA Rest ==
  ASSUME NEW t \in Seq(Tokens), NEW n \in 0 .. Len(t)
  PROVE  /\ SubSeq(t, n + 1, Len(t)) \in Seq(Tokens)
         /\ Len(SubSeq(t, n + 1, Len(t))) = Len(t) - n
         /\ \A k \in 1 .. Len(t) - n : SubSeq(t, n + 1, Len(t))[k] = t[n + k]
         /\ Uploads(t) => Uploads(SubSeq(t, n + 1, Len(t)))
<1>1. PICK u : u = SubSeq(t, n + 1, Len(t))
  OBVIOUS
<1>2. u \in Seq(Tokens) /\ Len(u) = Len(t) - n /\ \A k \in 1 .. Len(u) : u[k] = t[n + k]
  BY <1>1
<1>3. ASSUME Uploads(t), NEW m \in 1 .. Len(u), u[m].tok = "metadata"
      PROVE  Continues(<< >>, SubSeq(u, m + 1, Len(u)))
  <2>1. n + m \in 1 .. Len(t) /\ t[n + m].tok = "metadata"
    BY <1>2, <1>3
  <2>2. SubSeq(u, m + 1, Len(u)) = SubSeq(t, n + m + 1, Len(t))
    BY <1>1, <1>2
  <2>3. Continues(<< >>, SubSeq(t, n + m + 1, Len(t)))
    BY <1>3, <2>1 DEF Uploads
  <2> QED BY <2>2, <2>3
<1>4. Uploads(t) => Uploads(u)
  BY <1>3 DEF Uploads
<1> QED BY <1>1, <1>2, <1>4

\* A sequence with nothing joined is itself.
LEMMA JoinedNone ==
  ASSUME NEW s \in Seq(Blocks), NEW t
  PROVE  Joined(s, t, 0) = s
BY DEF Joined

\* A writer that takes the next block has the same continuations.
LEMMA ContinuesOn ==
  ASSUME NEW s \in Seq(Blocks), NEW t \in Seq(Tokens), t # << >>,
         NEW u \in Seq(Tokens), Len(u) = Len(t) - 1,
         \A k \in 1 .. Len(u) : u[k] = t[k + 1],
         Continues(s, t)
  PROVE  Continues(Append(s, BlockOf(t[1])), u)
<1> SUFFICES ASSUME NEW n \in 0 .. Len(u)
             PROVE  Joined(Append(s, BlockOf(t[1])), u, n) \in Contents
  BY DEF Continues
<1>1. n + 1 \in 0 .. Len(t)
  OBVIOUS
<1>2. Joined(s, t, n + 1) \in Contents
  BY <1>1 DEF Continues
<1>3. Joined(Append(s, BlockOf(t[1])), u, n) = Joined(s, t, n + 1)
  <2> DEFINE a == Append(s, BlockOf(t[1]))
  <2>1. /\ Len(a) = Len(s) + 1 /\ a[Len(s) + 1] = BlockOf(t[1])
        /\ \A k \in 1 .. Len(s) : a[k] = s[k]
        /\ Len(s) \in Nat
    OBVIOUS
  <2>2. ASSUME NEW k \in 1 .. Len(s) + (n + 1)
        PROVE  (IF k <= Len(a) THEN a[k] ELSE BlockOf(u[k - Len(a)]))
               = (IF k <= Len(s) THEN s[k] ELSE BlockOf(t[k - Len(s)]))
    <3>1. CASE k <= Len(s)
      BY <2>1, <3>1
    <3>2. CASE k = Len(s) + 1
      BY <2>1, <3>2
    <3>3. CASE k > Len(s) + 1
      <4>1. k - Len(a) \in 1 .. Len(u) /\ (k - Len(a)) + 1 = k - Len(s)
        BY <2>1, <3>3
      <4>2. u[k - Len(a)] = t[k - Len(s)]
        BY <4>1
      <4>3. ~ (k <= Len(a)) /\ ~ (k <= Len(s))
        BY <2>1, <3>3
      <4> QED BY <4>2, <4>3, Zenon
    <3> QED BY <2>1, <3>1, <3>2, <3>3
  <2>3. Len(a) + n = Len(s) + (n + 1)
    BY <2>1
  <2> HIDE DEF a
  <2>4. Joined(a, u, n) = Joined(s, t, n + 1)
    BY <2>2, <2>3 DEF Joined
  <2> QED BY <2>4 DEF a
<1> QED BY <1>2, <1>3

\* What a writer has hashed is one of Contents; if the checksum is right it is
\* the chunk.
LEMMA Hashed ==
  ASSUME ChunkInv, NEW c \in Conns, h[c].pc = "copy"
  PROVE  /\ h[c].buf \in Contents
         /\ \A s \in Contents : Hash[h[c].buf] = h[c].id /\ Hash[s] = h[c].id => h[c].buf = s
<1>1. h[c].buf \in Seq(Blocks) /\ Len(in[c]) \in Nat
  BY DEF ChunkInv, ServerTypeOK
<1>2. Joined(h[c].buf, in[c], 0) \in Contents
  BY <1>1 DEF ChunkInv, Uploading, Continues
<1>3. h[c].buf \in Contents
  BY <1>1, <1>2, JoinedNone
<1> QED BY <1>3, HashAssumption

----------------------------------------------------------------------------
\* A handler that refers to a file does so for one chunk.
LEMMA HandlerRefers ==
  ASSUME ChunkInv, NEW c \in Conns, h[c].pc \in {"copy", "stat", "send"}
  PROVE  /\ h[c].id \in Ids /\ h[c].ino \in Inodes
         /\ Refers(h[c].id, h[c].ino)
         /\ \A id \in Ids : Refers(id, h[c].ino) => id = h[c].id
<1>1. h[c].id \in Ids /\ h[c].ino \in Inodes
  BY DEF ChunkInv, ServerTypeOK, PointsOK
<1>2. Refers(h[c].id, h[c].ino)
  BY DEF Refers
<1> QED BY <1>1, <1>2 DEF ChunkInv, OneChunk

\* Handlers let go of their files, one or all of them: a writer with the whole
\* chunk behind it, or its chunk counts as broken.
LEMMA LetGo ==
  ASSUME ChunkInv, ServerTypeOK', PointsOK', Uploading', UNCHANGED <<diskVars, overlapped>>,
         broken \subseteq broken',
         \A c \in Conns :
           \/ h'[c] = h[c]
           \/ /\ h'[c].pc \notin {"copy", "stat", "send"}
              /\ h[c].pc = "copy" => Hash[h[c].buf] = h[c].id \/ h[c].id \in broken'
  PROVE  ChunkInv'
<1>1. tmp' = tmp /\ stored' = stored /\ data' = data /\ overlapped' = overlapped
  BY DEF diskVars
<1>2. ASSUME NEW c \in Conns, h'[c].pc \in {"copy", "stat", "send"}
      PROVE  h'[c] = h[c]
  BY <1>2
<1>3. \A c \in Conns : h'[c].ino \in Inodes => h'[c].pc \in {"copy", "stat", "send"}
  BY FilesAssumption DEF PointsOK
<1>4. OneChunk'
  <2>1. \A id \in Ids : \A i \in Inodes : Refers(id, i)' => Refers(id, i)
    BY <1>1, <1>2, <1>3 DEF Refers
  <2> QED BY <2>1 DEF ChunkInv, OneChunk
<1>5. \A id \in Ids : Writers(id)' = {c \in Writers(id) : h'[c] = h[c]}
  BY <1>2 DEF Writers
<1>6. ASSUME NEW id \in Ids \ overlapped
      PROVE  Alone(id)'
  <2>1. Alone(id)
    BY DEF ChunkInv
  <2>2. \A i \in Inodes : Published(id, i)' => Published(id, i)
    BY <1>1, <1>2 DEF Published, Reading
  <2>3. \A i \in Inodes : Published(id, i)' => i # tmp'[id] /\ data'[i] \in Contents /\ Hash[data'[i]] = id
    BY <1>1, <2>1, <2>2 DEF Alone
  <2>4. /\ \A c, d \in Writers(id)' : c = d
        /\ \A c \in Writers(id)' : h'[c].ino = tmp'[id] /\ data'[h'[c].ino] = h'[c].buf
    BY <1>1, <1>5, <2>1 DEF Alone
  <2>5. \A c \in Conns :
          h'[c].pc = "send" /\ h'[c].id = id =>
            /\ Len(data'[h'[c].ino]) = Len(h'[c].buf) + h'[c].left
            /\ h'[c].buf = SubSeq(data'[h'[c].ino], 1, Len(h'[c].buf))
    BY <1>1, <1>2, <2>1 DEF Alone
  <2> QED BY <2>3, <2>4, <2>5 DEF Alone
<1>7. ASSUME NEW id \in Ids \ broken'
      PROVE  Whole(id)'
  <2> SUFFICES ASSUME NEW i \in Inodes, NEW s \in Contents, Hash[s] = id,
                      tmp[id] = i \/ stored[id] = i \/ WritersOf(id, i)' # {}
               PROVE  InOrder(id, i, s)'
    BY <1>1 DEF Whole
  <2>1. WritersOf(id, i)' = {c \in WritersOf(id, i) : h'[c] = h[c]}
    BY <1>5 DEF WritersOf
  <2>2. InOrder(id, i, s)
    BY <2>1 DEF ChunkInv, Whole
  <2>3. ASSUME NEW c \in WritersOf(id, i), h'[c] # h[c]
        PROVE  Prefix(h[c].buf, s) /\ \A p \in 1 .. Len(s) : ~ (Len(h[c].buf) < p)
    <3>1. c \in Conns /\ h[c].pc = "copy" /\ h[c].id = id
      BY DEF WritersOf, Writers
    <3>2. h[c].buf = s
      BY <2>3, <3>1, Hashed
    <3>3. Len(s) \in Nat
      BY ContentsAssumption
    <3> QED BY <3>2, <3>3 DEF Prefix
  <2> QED BY <1>1, <2>1, <2>2, <2>3 DEF InOrder
<1> QED BY <1>1, <1>4, <1>6, <1>7 DEF ChunkInv

\* A handler opens, measures or sends a published file.
LEMMA ReaderKeeps ==
  ASSUME ChunkInv, ServerTypeOK', PointsOK', Uploading',
         UNCHANGED <<diskVars, overlapped, broken>>,
         NEW c \in Conns, h[c].pc # "copy", h'[c].pc \in {"stat", "send"},
         \A d \in Conns \ {c} : h'[d] = h[d],
         \/ stored[h'[c].id] = h'[c].ino
         \/ Reading(c) /\ h'[c].id = h[c].id /\ h'[c].ino = h[c].ino,
         h'[c].pc = "send" /\ h'[c].id \notin overlapped =>
           /\ Len(data[h'[c].ino]) = Len(h'[c].buf) + h'[c].left
           /\ h'[c].buf = SubSeq(data[h'[c].ino], 1, Len(h'[c].buf))
  PROVE  ChunkInv'
<1>1. /\ tmp' = tmp /\ stored' = stored /\ data' = data /\ overlapped' = overlapped
      /\ broken' = broken
  BY DEF diskVars
<1>2. OneChunk'
  <2>1. \A id \in Ids : \A i \in Inodes : Refers(id, i)' => Refers(id, i)
    BY <1>1 DEF Refers
  <2> QED BY <2>1 DEF ChunkInv, OneChunk
<1>3. \A id \in Ids : Writers(id)' = Writers(id) /\ \A d \in Writers(id) : h'[d] = h[d]
  BY DEF Writers
<1>4. ASSUME NEW id \in Ids \ overlapped
      PROVE  Alone(id)'
  <2>1. Alone(id)
    BY DEF ChunkInv
  <2>2. \A i \in Inodes : Published(id, i)' => Published(id, i)
    BY <1>1 DEF Published, Reading
  <2>3. \A i \in Inodes : Published(id, i)' => i # tmp'[id] /\ data'[i] \in Contents /\ Hash[data'[i]] = id
    BY <1>1, <2>1, <2>2 DEF Alone
  <2>4. /\ \A d, e \in Writers(id)' : d = e
        /\ \A d \in Writers(id)' : h'[d].ino = tmp'[id] /\ data'[h'[d].ino] = h'[d].buf
    BY <1>1, <1>3, <2>1 DEF Alone
  <2>5. \A d \in Conns :
          h'[d].pc = "send" /\ h'[d].id = id =>
            /\ Len(data'[h'[d].ino]) = Len(h'[d].buf) + h'[d].left
            /\ h'[d].buf = SubSeq(data'[h'[d].ino], 1, Len(h'[d].buf))
    BY <1>1, <2>1 DEF Alone
  <2> QED BY <2>3, <2>4, <2>5 DEF Alone
<1>5. ASSUME NEW id \in Ids \ broken
      PROVE  Whole(id)'
  <2>1. \A i \in Inodes : WritersOf(id, i)' = WritersOf(id, i)
    BY <1>3 DEF WritersOf
  <2>2. \A i \in Inodes : \A s \in Contents : InOrder(id, i, s) => InOrder(id, i, s)'
    <3> SUFFICES ASSUME NEW i \in Inodes, NEW s \in Contents, InOrder(id, i, s)
                 PROVE  InOrder(id, i, s)'
      OBVIOUS
    <3>1. \A d \in WritersOf(id, i) : h'[d] = h[d]
      BY <1>3 DEF WritersOf
    <3> QED BY <1>1, <2>1, <3>1 DEF InOrder
  <2> QED BY <1>1, <2>1, <2>2 DEF ChunkInv, Whole
<1> QED BY <1>1, <1>2, <1>4, <1>5 DEF ChunkInv

----------------------------------------------------------------------------
\* The .tmp file of a chunk is opened, and truncated if it is there.
LEMMA OpenTmpKeeps ==
  ASSUME ChunkInv, NEW c \in Conns, OpenTmp(c)
  PROVE  ChunkInv'
<1>1. PICK id \in Ids : id = h[c].id
  BY DEF OpenTmp, ChunkInv, ServerTypeOK, PointsOK
<1>2. PICK i \in Inodes : i = OpenedInode(id) /\ (tmp[id] = i \/ Free(i))
  <2>1. CASE tmp[id] # NoFile
    BY <2>1 DEF OpenedInode, ChunkInv, ServerTypeOK
  <2>2. CASE tmp[id] = NoFile
    BY <1>1, <2>2 DEF OpenTmp, OpenedInode
  <2> QED BY <2>1, <2>2
<1>3. /\ h[c].pc = "open" /\ h[c].buf = << >> /\ h[c].ino = NoFile
      /\ data' = [data EXCEPT ![i] = << >>] /\ tmp' = [tmp EXCEPT ![id] = i]
      /\ h' = [h EXCEPT ![c].pc = "copy", ![c].ino = i]
      /\ overlapped' = IF Writers(id) = {} THEN overlapped ELSE overlapped \cup {id}
      /\ UNCHANGED <<stored, in, cut, out, crashes, broken>>
  BY <1>1, <1>2 DEF OpenTmp, connVars, ChunkInv, PointsOK
<1>4. /\ tmp \in [Ids -> Inodes \cup {NoFile}] /\ data \in [Inodes -> Seq(Blocks)]
      /\ h \in [Conns -> HandlerRec]
  BY DEF ChunkInv, ServerTypeOK, HandlerRec
<1>5. /\ h'[c].pc = "copy" /\ h'[c].id = id /\ h'[c].ino = i /\ h'[c].buf = << >>
      /\ h'[c].left = h[c].left
      /\ \A d \in Conns \ {c} : h'[d] = h[d]
      /\ tmp'[id] = i /\ \A id2 \in Ids \ {id} : tmp'[id2] = tmp[id2]
      /\ data'[i] = << >> /\ \A j \in Inodes \ {i} : data'[j] = data[j]
  BY <1>1, <1>3, <1>4 DEF HandlerRec
<1>6. ServerTypeOK'
  <2>1. h' \in [Conns -> HandlerRec]
    <3>1. [h[c] EXCEPT !.pc = "copy", !.ino = i] \in HandlerRec
      BY <1>4 DEF HandlerRec, HandlerPoints
    <3> QED BY <1>3, <1>4, <3>1
  <2>2. data' \in [Inodes -> Seq(Blocks)]
    BY <1>3, <1>4
  <2>3. tmp' \in [Ids -> Inodes \cup {NoFile}] /\ overlapped' \subseteq Ids
    BY <1>3, <1>4 DEF ChunkInv, ServerTypeOK
  <2> QED BY <1>3, <2>1, <2>2, <2>3 DEF ChunkInv, ServerTypeOK, HandlerRec
<1>7. PointsOK'
  BY <1>5, FilesAssumption DEF ChunkInv, PointsOK
<1>8. Uploading'
  BY <1>3, <1>5 DEF ChunkInv, Uploading
<1>9. \A id2 \in Ids : \A j \in Inodes : Refers(id2, j)' => Refers(id2, j) \/ (id2 = id /\ j = i)
  <2> SUFFICES ASSUME NEW id2 \in Ids, NEW j \in Inodes, Refers(id2, j)'
               PROVE  Refers(id2, j) \/ (id2 = id /\ j = i)
    OBVIOUS
  <2>1. CASE tmp'[id2] = j \/ stored'[id2] = j
    BY <1>3, <1>5, <2>1 DEF Refers
  <2>2. CASE \E d \in Conns : h'[d].id = id2 /\ h'[d].ino = j
    BY <1>5, <2>2 DEF Refers
  <2> QED BY <2>1, <2>2 DEF Refers
<1>10. \A id2 \in Ids : Refers(id2, i) => id2 = id
  <2>1. CASE tmp[id] = i
    BY <2>1 DEF Refers, ChunkInv, OneChunk
  <2>2. CASE Free(i)
    BY <2>2 DEF Refers, Free
  <2> QED BY <1>2, <2>1, <2>2
<1>11. OneChunk'
  <2>1. ASSUME NEW j \in Inodes, NEW id1 \in Ids, NEW id2 \in Ids, Refers(id1, j)', Refers(id2, j)'
        PROVE  id1 = id2
    BY <1>9, <1>10, <2>1 DEF ChunkInv, OneChunk
  <2> QED BY <2>1 DEF OneChunk
<1>12. Writers(id)' = Writers(id) \cup {c} /\ \A id2 \in Ids \ {id} : Writers(id2)' = Writers(id2)
  <2>1. \A id2 \in Ids : \A d \in Conns \ {c} : d \in Writers(id2)' <=> d \in Writers(id2)
    BY <1>5 DEF Writers
  <2>2. \A id2 \in Ids : c \notin Writers(id2) /\ (c \in Writers(id2)' <=> id2 = id)
    BY <1>3, <1>5 DEF Writers
  <2>3. \A id2 \in Ids : Writers(id2) \subseteq Conns /\ Writers(id2)' \subseteq Conns
    BY DEF Writers
  <2>4. \A id2 \in Ids \ {id} : \A d : d \in Writers(id2)' <=> d \in Writers(id2)
    BY <2>1, <2>2, <2>3
  <2>5. \A d : d \in Writers(id)' <=> d \in Writers(id) \/ d = c
    BY <1>1, <2>1, <2>2, <2>3
  <2> QED BY <2>4, <2>5, Zenon
<1>13. \A id2 \in Ids : c \notin Writers(id2)
  BY <1>3 DEF Writers
<1>14. \A id2 \in Ids \ overlapped : \A j \in Inodes :
         (Published(id2, j)' => Published(id2, j)) /\ (Published(id2, j) => j # i)
  <2> TAKE id2 \in Ids \ overlapped
  <2> TAKE j \in Inodes
  <2>1. Published(id2, j)' => Published(id2, j)
    <3>1. ASSUME NEW d \in Conns, Reading(d)', h'[d].id = id2, h'[d].ino = j
          PROVE  Reading(d) /\ h[d].id = id2 /\ h[d].ino = j
      <4>1. d # c
        BY <1>5, <3>1 DEF Reading
      <4> QED BY <1>5, <3>1, <4>1 DEF Reading
    <3>2. stored' = stored
      BY <1>3
    <3> QED BY <3>1, <3>2 DEF Published
  <2>2. ASSUME Published(id2, i)
        PROVE  FALSE
    <3>1. Refers(id2, i)
      BY <2>2 DEF Published, Refers
    <3>2. id2 = id /\ tmp[id] = i
      BY <1>2, <1>10, <3>1 DEF Refers, Free
    <3> QED BY <2>2, <3>2 DEF ChunkInv, Alone
  <2> QED BY <2>1, <2>2
<1>15. ASSUME NEW id2 \in Ids \ overlapped'
       PROVE  Alone(id2)'
  <2>1. Alone(id2) /\ id2 \notin overlapped
    BY <1>3 DEF ChunkInv
  <2>2. \A j \in Inodes : Published(id2, j)' => j # tmp'[id2] /\ data'[j] \in Contents /\ Hash[data'[j]] = id2
    BY <1>5, <1>14, <2>1 DEF Alone
  <2>3. /\ \A d, e \in Writers(id2)' : d = e
        /\ \A d \in Writers(id2)' : h'[d].ino = tmp'[id2] /\ data'[h'[d].ino] = h'[d].buf
    <3>1. CASE id2 = id
      <4>1. Writers(id) = {}
        BY <1>3, <3>1
      <4> QED BY <1>5, <1>12, <3>1, <4>1
    <3>2. CASE id2 # id
      <4>1. \A d \in Writers(id2) : h[d].ino # i /\ h[d].ino \in Inodes /\ h'[d] = h[d] /\ d \in Conns
        BY <1>5, <1>10, <1>13, <3>2, HandlerRefers DEF Writers
      <4> QED BY <1>5, <1>12, <2>1, <3>2, <4>1 DEF Alone
    <3> QED BY <3>1, <3>2
  <2>4. \A d \in Conns :
          h'[d].pc = "send" /\ h'[d].id = id2 =>
            /\ Len(data'[h'[d].ino]) = Len(h'[d].buf) + h'[d].left
            /\ h'[d].buf = SubSeq(data'[h'[d].ino], 1, Len(h'[d].buf))
    <3>1. ASSUME NEW d \in Conns, h'[d].pc = "send", h'[d].id = id2
          PROVE  h'[d] = h[d] /\ data'[h[d].ino] = data[h[d].ino]
      <4>1. h'[d] = h[d]
        BY <1>5, <3>1
      <4>2. h[d].ino \in Inodes /\ Published(id2, h[d].ino)
        BY <3>1, <4>1, HandlerRefers DEF Published, Reading
      <4> QED BY <1>5, <1>14, <2>1, <4>1, <4>2
    <3> QED BY <2>1, <3>1 DEF Alone
  <2> QED BY <2>2, <2>3, <2>4 DEF Alone
<1>16. ASSUME NEW id2 \in Ids \ broken'
       PROVE  Whole(id2)'
  <2> SUFFICES ASSUME NEW j \in Inodes, NEW s \in Contents, Hash[s] = id2,
                      tmp'[id2] = j \/ stored'[id2] = j \/ WritersOf(id2, j)' # {}
               PROVE  InOrder(id2, j, s)'
    BY DEF Whole
  <2>1. CASE j = i
    <3>1. Refers(id2, j)'
      BY DEF Refers, WritersOf, Writers
    <3>2. id2 = id
      BY <1>9, <1>10, <2>1, <3>1
    <3>3. c \in WritersOf(id, i)' /\ Len(h'[c].buf) = 0 /\ Len(data'[i]) = 0
      BY <1>5, <1>12 DEF WritersOf
    <3>4. Len(s) \in Nat
      BY ContentsAssumption
    <3> QED BY <2>1, <3>2, <3>3, <3>4 DEF InOrder
  <2>2. CASE j # i
    <3>1. WritersOf(id2, j)' = WritersOf(id2, j) /\ \A d \in WritersOf(id2, j) : h'[d] = h[d]
      BY <1>5, <1>12, <1>13, <2>2 DEF WritersOf, Writers
    <3>2. tmp[id2] = j \/ stored[id2] = j \/ WritersOf(id2, j) # {}
      BY <1>3, <1>5, <2>2, <3>1
    <3>3. InOrder(id2, j, s)
      BY <1>3, <3>2 DEF ChunkInv, Whole
    <3> QED BY <1>5, <2>2, <3>1, <3>3 DEF InOrder
  <2> QED BY <2>1, <2>2
<1> QED BY <1>3, <1>6, <1>7, <1>8, <1>11, <1>15, <1>16 DEF ChunkInv

----------------------------------------------------------------------------
\* Writing a block at a position changes that position, and may leave a hole
\* before it.
LEMMA Writes ==
  ASSUME NEW s \in Seq(Blocks), NEW pos \in Nat, NEW b \in Blocks
  PROVE  /\ WrittenAt(s, pos, b) \in Seq(Blocks)
         /\ Len(WrittenAt(s, pos, b)) = (IF Len(s) > pos THEN Len(s) ELSE pos + 1)
         /\ WrittenAt(s, pos, b)[pos + 1] = b
         /\ \A p \in 1 .. Len(s) : p # pos + 1 => WrittenAt(s, pos, b)[p] = s[p]
         /\ Len(s) = pos => WrittenAt(s, pos, b) = Append(s, b)
<1>1. PICK n \in Nat : n = IF Len(s) > pos THEN Len(s) ELSE pos + 1
  OBVIOUS
<1>2. PICK w : w = WrittenAt(s, pos, b)
  OBVIOUS
<1>3. w = [p \in 1 .. n |-> IF p = pos + 1 THEN b ELSE IF p <= Len(s) THEN s[p] ELSE Hole]
  BY <1>1, <1>2 DEF WrittenAt
<1>4. /\ \A p \in 1 .. n : w[p] \in Blocks
      /\ w[pos + 1] = b
      /\ \A p \in 1 .. Len(s) : p # pos + 1 => w[p] = s[p]
  BY <1>1, <1>3, FilesAssumption
<1>5. w \in Seq(Blocks) /\ Len(w) = n
  BY <1>3, <1>4
<1>6. ASSUME Len(s) = pos
      PROVE  w = Append(s, b)
  <2>1. n = Len(s) + 1 /\ Append(s, b) \in Seq(Blocks) /\ Len(Append(s, b)) = Len(s) + 1
        /\ Append(s, b)[Len(s) + 1] = b /\ \A p \in 1 .. Len(s) : Append(s, b)[p] = s[p]
    BY <1>1, <1>6
  <2>2. \A p \in 1 .. n : w[p] = Append(s, b)[p]
    BY <1>4, <1>6, <2>1
  <2> QED BY <1>5, <2>1, <2>2
<1> QED BY <1>1, <1>2, <1>4, <1>5, <1>6

\* A writer writes the next block to its file and hashes it.
LEMMA CopyBlockKeeps ==
  ASSUME ChunkInv, NEW c \in Conns, CopyBlock(c)
  PROVE  ChunkInv'
<1>1. PICK id \in Ids, i \in Inodes : id = h[c].id /\ i = h[c].ino
  BY HandlerRefers DEF CopyBlock
<1>2. PICK t \in Seq(Tokens) : t = in[c]
  BY DEF ChunkInv, ServerTypeOK
<1>3. /\ h[c].pc = "copy" /\ t # << >> /\ Len(t) \in Nat \ {0} /\ t[1] \in Tokens
      /\ Head(t) = t[1] /\ h[c].left > 0
  BY <1>2 DEF CopyBlock, Readable
<1>4. PICK b \in Blocks : b = BlockOf(t[1])
  BY <1>3, TokenParts
<1>5. /\ tmp \in [Ids -> Inodes \cup {NoFile}] /\ data \in [Inodes -> Seq(Blocks)]
      /\ h \in [Conns -> HandlerRec] /\ in \in [Conns -> Seq(Tokens)]
  BY DEF ChunkInv, ServerTypeOK, HandlerRec
<1>6. PICK s0 \in Seq(Blocks) : s0 = h[c].buf
  BY <1>5 DEF HandlerRec
<1>7. /\ data' = [data EXCEPT ![i] = WrittenAt(data[i], Len(s0), b)]
      /\ h' = [h EXCEPT ![c] = [h[c] EXCEPT !.buf = Append(s0, b), !.left = @ - 1]]
      /\ in' = [in EXCEPT ![c] = SubSeq(t, 2, Len(t))]
      /\ UNCHANGED <<tmp, stored, cut, out, crashes, overlapped, broken>>
  <2>1. in' = [in EXCEPT ![c] = SubSeq(t, 2, Len(t))]
    <3>1. in' = [in EXCEPT ![c] = SubSeq(in[c], 1 + 1, Len(in[c]))]
      BY <1>5 DEF CopyBlock, Consume
    <3> QED BY <1>2, <3>1
  <2>2. /\ data' = [data EXCEPT ![h[c].ino] = WrittenAt(@, Len(h[c].buf), BlockOf(Head(in[c])))]
        /\ h' = [h EXCEPT ![c].buf = Append(@, BlockOf(Head(in[c]))), ![c].left = @ - 1]
        /\ UNCHANGED <<tmp, stored, cut, out, crashes, overlapped, broken>>
    BY DEF CopyBlock
  <2>3. BlockOf(Head(in[c])) = b
    BY <1>2, <1>3, <1>4
  <2>4. data' = [data EXCEPT ![i] = WrittenAt(data[i], Len(s0), b)]
    BY <1>1, <1>5, <1>6, <2>2, <2>3
  <2>5. h' = [h EXCEPT ![c] = [h[c] EXCEPT !.buf = Append(s0, b), !.left = @ - 1]]
    BY <1>5, <1>6, <2>2, <2>3
  <2> QED BY <2>1, <2>2, <2>4, <2>5
<1>8. /\ h'[c].pc = "copy" /\ h'[c].id = id /\ h'[c].ino = i /\ h'[c].buf = Append(s0, b)
      /\ \A d \in Conns \ {c} : h'[d] = h[d]
      /\ \A d \in Conns : h'[d].pc = h[d].pc /\ h'[d].id = h[d].id /\ h'[d].ino = h[d].ino
      /\ \A d \in Conns : h'[d].pc # "copy" => h'[d] = h[d]
      /\ \A j \in Inodes \ {i} : data'[j] = data[j]
  BY <1>1, <1>3, <1>5, <1>7 DEF HandlerRec
<1>9. PICK w \in Seq(Blocks) : w = data'[i] /\ w = WrittenAt(data[i], Len(s0), b)
  <2>1. data[i] \in Seq(Blocks) /\ Len(s0) \in Nat
    BY <1>5
  <2>2. data'[i] = WrittenAt(data[i], Len(s0), b)
    BY <1>5, <1>7
  <2> QED BY <2>1, <2>2, Writes
<1>10. /\ Len(w) = IF Len(data[i]) > Len(s0) THEN Len(data[i]) ELSE Len(s0) + 1
       /\ w[Len(s0) + 1] = b
       /\ \A p \in 1 .. Len(data[i]) : p # Len(s0) + 1 => w[p] = data[i][p]
       /\ Len(data[i]) = Len(s0) => w = Append(data[i], b)
       /\ Len(s0) \in Nat /\ Len(data[i]) \in Nat
       /\ Append(s0, b) \in Seq(Blocks) /\ Len(Append(s0, b)) = Len(s0) + 1
       /\ Append(s0, b)[Len(s0) + 1] = b /\ \A p \in 1 .. Len(s0) : Append(s0, b)[p] = s0[p]
  <2>1. data[i] \in Seq(Blocks) /\ Len(s0) \in Nat /\ Len(data[i]) \in Nat
    BY <1>5
  <2>2. /\ Append(s0, b) \in Seq(Blocks) /\ Len(Append(s0, b)) = Len(s0) + 1
        /\ Append(s0, b)[Len(s0) + 1] = b /\ \A p \in 1 .. Len(s0) : Append(s0, b)[p] = s0[p]
    OBVIOUS
  <2>3. /\ Len(w) = IF Len(data[i]) > Len(s0) THEN Len(data[i]) ELSE Len(s0) + 1
        /\ w[Len(s0) + 1] = b
        /\ \A p \in 1 .. Len(data[i]) : p # Len(s0) + 1 => w[p] = data[i][p]
        /\ Len(data[i]) = Len(s0) => w = Append(data[i], b)
    <3>1. PICK d0 \in Seq(Blocks), pos \in Nat : d0 = data[i] /\ pos = Len(s0)
      BY <2>1
    <3>2. w = WrittenAt(d0, pos, b)
      BY <1>9, <3>1
    <3>3. /\ Len(w) = (IF Len(d0) > pos THEN Len(d0) ELSE pos + 1)
          /\ w[pos + 1] = b
          /\ \A p \in 1 .. Len(d0) : p # pos + 1 => w[p] = d0[p]
          /\ Len(d0) = pos => w = Append(d0, b)
      BY <3>2, Writes, ZenonT(40)
    <3> QED BY <3>1, <3>3
  <2> QED BY <2>1, <2>2, <2>3
<1>11. /\ in'[c] \in Seq(Tokens) /\ Len(in'[c]) = Len(t) - 1
       /\ \A k \in 1 .. Len(in'[c]) : in'[c][k] = t[k + 1]
       /\ Uploads(in'[c])
       /\ \A d \in Conns \ {c} : in'[d] = in[d]
  <2>1. in'[c] = SubSeq(t, 1 + 1, Len(t)) /\ 1 \in 0 .. Len(t)
    BY <1>3, <1>5, <1>7
  <2>2. Uploads(t)
    BY <1>2 DEF ChunkInv, Uploading
  <2>3. \A k \in 1 .. Len(in'[c]) : in'[c][k] = t[1 + k] /\ 1 + k = k + 1
    BY <2>1, Rest
  <2> QED BY <1>5, <1>7, <2>1, <2>2, <2>3, Rest
<1>12. ServerTypeOK'
  <2>1. [h[c] EXCEPT !.buf = Append(s0, b), !.left = @ - 1] \in HandlerRec
    <3>1. h[c] \in HandlerRec /\ h[c].left - 1 \in Nat
      BY <1>3, <1>5 DEF HandlerRec
    <3> QED BY <1>10, <3>1 DEF HandlerRec
  <2>2. h' \in [Conns -> HandlerRec]
    BY <1>5, <1>7, <2>1
  <2>3. data' \in [Inodes -> Seq(Blocks)] /\ in' \in [Conns -> Seq(Tokens)]
    BY <1>5, <1>7, <1>9, <1>11
  <2> QED BY <1>7, <2>2, <2>3 DEF ChunkInv, ServerTypeOK, HandlerRec
<1>13. PointsOK'
  BY <1>8 DEF ChunkInv, PointsOK
<1>14. Uploading'
  <2>1. Continues(s0, t)
    BY <1>2, <1>3, <1>6 DEF ChunkInv, Uploading
  <2>2. Continues(Append(s0, b), in'[c])
    BY <1>3, <1>4, <1>11, <2>1, ContinuesOn
  <2>3. ASSUME NEW d \in Conns
        PROVE  Uploads(in'[d]) /\ (h'[d].pc \in {"open", "copy"} => Continues(h'[d].buf, in'[d]))
    <3>1. CASE d = c
      BY <1>8, <1>11, <2>2, <3>1
    <3>2. CASE d # c
      BY <1>8, <1>11, <3>2 DEF ChunkInv, Uploading
    <3> QED BY <3>1, <3>2
  <2> QED BY <2>3 DEF Uploading
<1>15. OneChunk'
  <2>1. \A id2 \in Ids : \A j \in Inodes : Refers(id2, j)' <=> Refers(id2, j)
    BY <1>7, <1>8 DEF Refers
  <2> QED BY <2>1 DEF ChunkInv, OneChunk
<1>16. \A id2 \in Ids : Writers(id2)' = Writers(id2)
  BY <1>8 DEF Writers
<1>17. c \in Writers(id) /\ \A id2 \in Ids : Refers(id2, i) => id2 = id
  BY <1>1, <1>3, HandlerRefers DEF Writers
<1>18. ASSUME NEW id2 \in Ids \ overlapped'
       PROVE  Alone(id2)'
  <2>1. Alone(id2) /\ id2 \notin overlapped
    BY <1>7 DEF ChunkInv
  <2>2. ASSUME NEW j \in Inodes, Published(id2, j)
        PROVE  j # i
    <3>1. Refers(id2, j)
      BY <2>2 DEF Published, Refers
    <3>2. CASE id2 = id
      BY <1>1, <1>17, <2>1, <2>2, <3>2 DEF Alone
    <3>3. CASE id2 # id
      BY <1>17, <3>1, <3>3
    <3> QED BY <3>2, <3>3
  <2>3. \A j \in Inodes : Published(id2, j)' => j # tmp'[id2] /\ data'[j] \in Contents /\ Hash[data'[j]] = id2
    <3>1. \A j \in Inodes : Published(id2, j)' => Published(id2, j)
      BY <1>7, <1>8 DEF Published, Reading
    <3> QED BY <1>7, <1>8, <2>1, <2>2, <3>1 DEF Alone
  <2>4. /\ \A d, e \in Writers(id2)' : d = e
        /\ \A d \in Writers(id2)' : h'[d].ino = tmp'[id2] /\ data'[h'[d].ino] = h'[d].buf
    <3>1. CASE id2 = id
      <4>1. data[i] = s0 /\ i = tmp[id] /\ \A d \in Writers(id) : d = c
        BY <1>1, <1>6, <1>17, <2>1, <3>1 DEF Alone
      <4>2. data'[i] = Append(s0, b) /\ tmp'[id] = i
        BY <1>7, <1>9, <1>10, <4>1
      <4>3. \A d \in Writers(id2)' : d = c
        BY <1>16, <3>1, <4>1
      <4>4. h'[c].ino = tmp'[id2] /\ data'[h'[c].ino] = h'[c].buf
        BY <1>8, <3>1, <4>2
      <4> QED BY <4>3, <4>4
    <3>2. CASE id2 # id
      <4>1. \A d \in Writers(id2) : h[d].ino # i /\ h[d].ino \in Inodes /\ h'[d] = h[d] /\ d \in Conns
        BY <1>8, <1>17, <3>2, HandlerRefers, <1>1 DEF Writers
      <4> QED BY <1>7, <1>8, <1>16, <2>1, <4>1 DEF Alone
    <3> QED BY <3>1, <3>2
  <2>5. \A d \in Conns :
          h'[d].pc = "send" /\ h'[d].id = id2 =>
            /\ Len(data'[h'[d].ino]) = Len(h'[d].buf) + h'[d].left
            /\ h'[d].buf = SubSeq(data'[h'[d].ino], 1, Len(h'[d].buf))
    <3>1. ASSUME NEW d \in Conns, h'[d].pc = "send", h'[d].id = id2
          PROVE  h'[d] = h[d] /\ data'[h[d].ino] = data[h[d].ino]
      <4>1. h'[d] = h[d]
        BY <1>8, <3>1
      <4>2. h[d].ino \in Inodes /\ Published(id2, h[d].ino)
        BY <3>1, <4>1, HandlerRefers DEF Published, Reading
      <4> QED BY <1>8, <2>2, <4>1, <4>2
    <3>2. \A d \in Conns :
            h[d].pc = "send" /\ h[d].id = id2 =>
              /\ Len(data[h[d].ino]) = Len(h[d].buf) + h[d].left
              /\ h[d].buf = SubSeq(data[h[d].ino], 1, Len(h[d].buf))
      BY <2>1 DEF Alone
    <3>3. ASSUME NEW d \in Conns, h'[d].pc = "send", h'[d].id = id2
          PROVE  /\ Len(data'[h'[d].ino]) = Len(h'[d].buf) + h'[d].left
                 /\ h'[d].buf = SubSeq(data'[h'[d].ino], 1, Len(h'[d].buf))
      <4>1. h'[d] = h[d] /\ data'[h'[d].ino] = data[h[d].ino]
        BY <3>1, <3>3
      <4>2. h[d].pc = "send" /\ h[d].id = id2
        BY <3>3, <4>1
      <4> QED BY <3>2, <4>1, <4>2
    <3> QED BY <3>3
  <2> QED BY <2>3, <2>4, <2>5 DEF Alone
<1>19. ASSUME NEW id2 \in Ids \ broken'
       PROVE  Whole(id2)'
  <2> SUFFICES ASSUME NEW j \in Inodes, NEW s \in Contents, Hash[s] = id2,
                      tmp'[id2] = j \/ stored'[id2] = j \/ WritersOf(id2, j)' # {}
               PROVE  InOrder(id2, j, s)'
    BY DEF Whole
  <2>1. WritersOf(id2, j)' = WritersOf(id2, j)
    BY <1>8, <1>16 DEF WritersOf, Writers
  <2>2. InOrder(id2, j, s) /\ Len(s) \in Nat
    BY <1>7, <2>1, ContentsAssumption DEF ChunkInv, Whole
  <2>3. CASE j # i
    <3>1. \A d \in WritersOf(id2, j) : h'[d] = h[d]
      BY <1>1, <1>8, <2>3 DEF WritersOf, Writers
    <3> QED BY <1>8, <2>1, <2>2, <2>3, <3>1 DEF InOrder
  <2>4. CASE j = i
    <3>1. id2 = id
      <4>1. Refers(id2, j)
        BY <1>7, <2>1 DEF Refers, WritersOf, Writers
      <4> QED BY <1>17, <2>4, <4>1
    <3>2. c \in WritersOf(id2, j)
      BY <1>1, <1>17, <2>4, <3>1 DEF WritersOf
    <3>3. CASE ~ Prefix(h'[c].buf, s)
      BY <2>1, <3>2, <3>3 DEF InOrder
    <3>4. CASE Prefix(h'[c].buf, s)
      <4>1. Len(s0) + 1 \in 1 .. Len(s) /\ b = s[Len(s0) + 1] /\ Prefix(s0, s)
        <5>1. Len(s0) + 1 <= Len(s) /\ \A p \in 1 .. Len(s0) + 1 : Append(s0, b)[p] = s[p]
          BY <1>8, <1>10, <3>4 DEF Prefix
        <5>2. Len(s0) + 1 \in 1 .. Len(s0) + 1 /\ \A p \in 1 .. Len(s0) : p \in 1 .. Len(s0) + 1
          BY <1>10
        <5> QED BY <1>10, <2>2, <5>1, <5>2 DEF Prefix
      <4>2. CASE \E d \in WritersOf(id2, j) : ~ Prefix(h[d].buf, s)
        <5>1. \A d \in WritersOf(id2, j) : d = c \/ h'[d] = h[d]
          BY <1>8 DEF WritersOf, Writers
        <5> QED BY <1>6, <2>1, <4>1, <4>2, <5>1 DEF InOrder
      <4>3. CASE /\ Len(data[i]) <= Len(s)
                 /\ \A p \in 1 .. Len(s) :
                      \/ p <= Len(data[i]) /\ data[i][p] = s[p]
                      \/ \E d \in WritersOf(id2, j) : Len(h[d].buf) < p
        <5>1. Len(data'[i]) <= Len(s)
          BY <1>9, <1>10, <4>1, <4>3
        <5>2. ASSUME NEW p \in 1 .. Len(s)
              PROVE  \/ p <= Len(data'[i]) /\ data'[i][p] = s[p]
                     \/ \E d \in WritersOf(id2, j)' : Len(h'[d].buf) < p
          <6>1. CASE p = Len(s0) + 1
            BY <1>9, <1>10, <4>1, <6>1
          <6>2. CASE p # Len(s0) + 1 /\ p <= Len(data[i]) /\ data[i][p] = s[p]
            BY <1>9, <1>10, <6>2
          <6>3. ASSUME NEW d \in WritersOf(id2, j), Len(h[d].buf) < p, p # Len(s0) + 1
                PROVE  Len(h'[d].buf) < p
            <7>1. CASE d = c
              <8>1. Len(s0) < p
                BY <1>6, <6>3, <7>1
              <8>2. Len(h'[d].buf) = Len(s0) + 1
                BY <1>8, <1>10, <7>1
              <8> QED BY <1>10, <6>3, <8>1, <8>2
            <7>2. CASE d # c
              BY <1>8, <6>3, <7>2 DEF WritersOf, Writers
            <7> QED BY <7>1, <7>2
          <6> QED BY <2>1, <4>3, <6>1, <6>2, <6>3
        <5> QED BY <2>4, <5>1, <5>2 DEF InOrder
      <4> QED BY <2>2, <2>4, <4>2, <4>3 DEF InOrder
    <3> QED BY <3>3, <3>4
  <2> QED BY <2>3, <2>4
<1> QED BY <1>7, <1>12, <1>13, <1>14, <1>15, <1>18, <1>19 DEF ChunkInv

----------------------------------------------------------------------------
\* A handler with nothing open.
LEMMA Empty ==
  ASSUME NEW how \in HandlerPoints, NEW r, r = [NoHandler EXCEPT !.pc = how]
  PROVE  /\ r \in HandlerRec
         /\ r.pc = how /\ r.id = NoFile /\ r.ino = NoFile
<1>1. PICK e \in Seq(Blocks), z \in Nat : e = << >> /\ z = 0
  <2>1. << >> \in Seq(Blocks) /\ 0 \in Nat
    OBVIOUS
  <2> QED BY <2>1, Zenon
<1>2. r = [pc |-> how, id |-> NoFile, ino |-> NoFile, left |-> z, buf |-> e]
  BY <1>1 DEF NoHandler
<1>3. r \in HandlerRec
  <2>1. NoFile \in Ids \cup {NoFile} /\ NoFile \in Inodes \cup {NoFile}
    OBVIOUS
  <2>2. [pc |-> how, id |-> NoFile, ino |-> NoFile, left |-> z, buf |-> e] \in HandlerRec
    BY <2>1 DEF HandlerRec
  <2> QED BY <1>2, <2>2
<1>4. r.pc = how /\ r.id = NoFile /\ r.ino = NoFile
  BY <1>2
<1> QED BY <1>3, <1>4

\* The checksum is right and the .tmp file gets the final name.
LEMMA RenameKeeps ==
  ASSUME ChunkInv, NEW c \in Conns, VerifyAndRename(c), verifyCheckSum(c), tmp[h[c].id] # NoFile
  PROVE  ChunkInv'
<1>1. PICK id \in Ids : id = h[c].id
  BY HandlerRefers DEF VerifyAndRename
<1>2. PICK j \in Inodes : j = tmp[id]
  BY <1>1 DEF ChunkInv, ServerTypeOK
<1>3. /\ stored' = [stored EXCEPT ![id] = j] /\ tmp' = [tmp EXCEPT ![id] = NoFile]
      /\ h' = [h EXCEPT ![c] = [NoHandler EXCEPT !.pc = "decode"]]
      /\ UNCHANGED <<data, in, cut, out, crashes, overlapped, broken>>
      /\ h[c].pc = "copy" /\ Hash[h[c].buf] = id
  BY <1>1, <1>2 DEF VerifyAndRename, verifyCheckSum
<1>4. /\ tmp \in [Ids -> Inodes \cup {NoFile}] /\ stored \in [Ids -> Inodes \cup {NoFile}]
      /\ h \in [Conns -> HandlerRec]
  BY DEF ChunkInv, ServerTypeOK, HandlerRec
<1>5. /\ h'[c] \in HandlerRec
      /\ h'[c].pc = "decode" /\ h'[c].id = NoFile /\ h'[c].ino = NoFile
      /\ \A d \in Conns \ {c} : h'[d] = h[d]
      /\ stored'[id] = j /\ \A id2 \in Ids \ {id} : stored'[id2] = stored[id2]
      /\ tmp'[id] = NoFile /\ \A id2 \in Ids \ {id} : tmp'[id2] = tmp[id2]
      /\ NoFile \notin Inodes
  <2>1. h'[c] = [NoHandler EXCEPT !.pc = "decode"] /\ "decode" \in HandlerPoints
    BY <1>3, <1>4 DEF HandlerPoints
  <2>2. h'[c] \in HandlerRec /\ h'[c].pc = "decode" /\ h'[c].id = NoFile /\ h'[c].ino = NoFile
    BY <2>1, Empty
  <2>3. \A d \in Conns \ {c} : h'[d] = h[d]
    BY <1>3, <1>4
  <2>4. stored'[id] = j /\ \A id2 \in Ids \ {id} : stored'[id2] = stored[id2]
    BY <1>3, <1>4
  <2>5. tmp'[id] = NoFile /\ \A id2 \in Ids \ {id} : tmp'[id2] = tmp[id2]
    BY <1>3, <1>4
  <2> QED BY <2>2, <2>3, <2>4, <2>5, FilesAssumption
<1>6. ServerTypeOK'
  <2>2. h' \in [Conns -> HandlerRec]
    BY <1>3, <1>4, <1>5
  <2>3. tmp' \in [Ids -> Inodes \cup {NoFile}] /\ stored' \in [Ids -> Inodes \cup {NoFile}]
    BY <1>3, <1>4
  <2> QED BY <1>3, <2>2, <2>3 DEF ChunkInv, ServerTypeOK, HandlerRec
<1>7. PointsOK'
  BY <1>5 DEF ChunkInv, PointsOK
<1>8. Uploading'
  BY <1>3, <1>5 DEF ChunkInv, Uploading
<1>9. OneChunk'
  <2>1. \A id2 \in Ids : \A k \in Inodes : Refers(id2, k)' => Refers(id2, k)
    BY <1>2, <1>5 DEF Refers
  <2> QED BY <2>1 DEF ChunkInv, OneChunk
<1>10. h[c].buf \in Contents /\ \A s \in Contents : Hash[s] = id => h[c].buf = s
  BY <1>1, <1>3, Hashed
<1>11. \A id2 \in Ids : stored'[id2] # NoFile => \E s \in Contents : Hash[s] = id2
  <2> SUFFICES ASSUME NEW id2 \in Ids, stored'[id2] # NoFile
               PROVE  \E s \in Contents : Hash[s] = id2
    OBVIOUS
  <2>1. CASE id2 = id
    BY <1>3, <1>10, <2>1
  <2>2. CASE id2 # id
    BY <1>5, <2>2 DEF ChunkInv
  <2> QED BY <2>1, <2>2
<1>12. \A id2 \in Ids : Writers(id2)' = Writers(id2) \ {c} /\ \A d \in Writers(id2)' : h'[d] = h[d]
  BY <1>5 DEF Writers
<1>13. c \in Writers(id) /\ \A id2 \in Ids \ {id} : c \notin Writers(id2)
  BY <1>1, <1>3 DEF Writers
<1>14. ASSUME NEW id2 \in Ids \ overlapped'
       PROVE  Alone(id2)'
  <2>1. Alone(id2)
    BY <1>3 DEF ChunkInv
  <2>2. ASSUME NEW k \in Inodes, Published(id2, k)'
        PROVE  k # tmp'[id2] /\ data'[k] \in Contents /\ Hash[data'[k]] = id2
    <3>1. CASE Published(id2, k)
      <4>1. k # tmp[id2] /\ data[k] \in Contents /\ Hash[data[k]] = id2
        BY <2>1, <3>1 DEF Alone
      <4> QED BY <1>3, <1>5, <4>1
    <3>2. CASE ~ Published(id2, k)
      <4>1. id2 = id /\ k = j
        BY <1>5, <2>2, <3>2 DEF Published, Reading
      <4>2. data[j] = h[c].buf
        BY <1>2, <1>13, <2>1, <4>1 DEF Alone
      <4> QED BY <1>3, <1>5, <1>10, <4>1, <4>2
    <3> QED BY <3>1, <3>2
  <2>3. /\ \A d, e \in Writers(id2)' : d = e
        /\ \A d \in Writers(id2)' : h'[d].ino = tmp'[id2] /\ data'[h'[d].ino] = h'[d].buf
    <3>1. CASE id2 = id
      <4>1. Writers(id2)' = {}
        BY <1>12, <1>13, <2>1, <3>1 DEF Alone
      <4> QED BY <4>1
    <3>2. CASE id2 # id
      BY <1>3, <1>5, <1>12, <2>1, <3>2 DEF Alone
    <3> QED BY <3>1, <3>2
  <2>4. \A d \in Conns :
          h'[d].pc = "send" /\ h'[d].id = id2 =>
            /\ Len(data'[h'[d].ino]) = Len(h'[d].buf) + h'[d].left
            /\ h'[d].buf = SubSeq(data'[h'[d].ino], 1, Len(h'[d].buf))
    BY <1>3, <1>5, <2>1 DEF Alone
  <2> QED BY <2>2, <2>3, <2>4 DEF Alone
<1>15. ASSUME NEW id2 \in Ids \ broken'
       PROVE  Whole(id2)'
  <2> SUFFICES ASSUME NEW i \in Inodes, NEW s \in Contents, Hash[s] = id2,
                      tmp'[id2] = i \/ stored'[id2] = i \/ WritersOf(id2, i)' # {}
               PROVE  InOrder(id2, i, s)'
    BY DEF Whole
  <2>1. WritersOf(id2, i)' = WritersOf(id2, i) \ {c} /\ \A d \in WritersOf(id2, i)' : h'[d] = h[d]
    BY <1>12 DEF WritersOf
  <2>2. tmp[id2] = i \/ stored[id2] = i \/ WritersOf(id2, i) # {}
    BY <1>2, <1>5, <2>1
  <2>3. InOrder(id2, i, s)
    BY <1>3, <2>2 DEF ChunkInv, Whole
  <2>4. ASSUME c \in WritersOf(id2, i)
        PROVE  Prefix(h[c].buf, s) /\ \A p \in 1 .. Len(s) : ~ (Len(h[c].buf) < p)
    <3>1. id2 = id
      BY <1>1, <2>4 DEF WritersOf, Writers
    <3>2. h[c].buf = s /\ Len(s) \in Nat
      BY <1>10, <3>1, ContentsAssumption
    <3> QED BY <3>2 DEF Prefix
  <2> QED BY <1>3, <2>1, <2>3, <2>4 DEF InOrder
<1> QED BY <1>3, <1>6, <1>7, <1>8, <1>9, <1>11, <1>14, <1>15 DEF ChunkInv

----------------------------------------------------------------------------
\* Nothing is an upload.
LEMMA NothingUploads == Uploads(<< >>)
BY DEF Uploads

\* A handler that has no file goes on without one.
LEMMA StepsAside ==
  ASSUME ChunkInv, NEW c \in Conns, h[c].pc # "copy",
         NEW r \in HandlerRec, h' = [h EXCEPT ![c] = r],
         r.pc \in {"none", "decode", "metadata", "key", "open", "done", "failed"}, r.ino = NoFile,
         r.id # NoFile <=> r.pc = "open",
         r.pc \in {"metadata", "key", "open"} => r.buf = << >>,
         NEW u \in Seq(Tokens), in' = [in EXCEPT ![c] = u],
         Uploads(u), r.pc = "open" => Continues(r.buf, u),
         out' \in [Conns -> Seq(Tokens)], cut' \in [Conns -> {"open", "eof", "reset"}],
         UNCHANGED <<diskVars, crashes, overlapped, broken>>
  PROVE  ChunkInv'
<1>1. h \in [Conns -> HandlerRec] /\ in \in [Conns -> Seq(Tokens)]
  BY DEF ChunkInv, ServerTypeOK, HandlerRec
<1>2. h'[c] = r /\ in'[c] = u /\ \A d \in Conns \ {c} : h'[d] = h[d] /\ in'[d] = in[d]
  BY <1>1
<1>3. ServerTypeOK'
  <2>1. h' \in [Conns -> HandlerRec] /\ in' \in [Conns -> Seq(Tokens)]
    BY <1>1
  <2> QED BY <2>1 DEF ChunkInv, ServerTypeOK, HandlerRec, diskVars
<1>4. PointsOK'
  BY <1>2 DEF ChunkInv, PointsOK
<1>5. Uploading'
  BY <1>2 DEF ChunkInv, Uploading
<1>6. \A d \in Conns :
        \/ h'[d] = h[d]
        \/ /\ h'[d].pc \notin {"copy", "stat", "send"}
           /\ h[d].pc = "copy" => Hash[h[d].buf] = h[d].id \/ h[d].id \in broken'
  BY <1>2
<1> QED BY <1>3, <1>4, <1>5, <1>6, LetGo

\* A handler returns.
LEMMA ReturnsKeeps ==
  ASSUME ChunkInv, NEW c \in Conns, NEW how \in {"done", "failed"}, Returns(c, how),
         out' \in [Conns -> Seq(Tokens)],
         UNCHANGED <<diskVars, crashes, overlapped>>
  PROVE  ChunkInv'
<1>1. h \in [Conns -> HandlerRec] /\ in \in [Conns -> Seq(Tokens)]
  BY DEF ChunkInv, ServerTypeOK, HandlerRec
<1>2. in'[c] = << >> /\ \A d \in Conns \ {c} : h'[d] = h[d] /\ in'[d] = in[d]
  BY <1>1 DEF Returns
<1>3. h'[c] \in HandlerRec /\ h'[c].pc = how /\ h'[c].id = NoFile /\ h'[c].ino = NoFile
  <2>1. h'[c] = [NoHandler EXCEPT !.pc = how] /\ how \in HandlerPoints
    BY <1>1 DEF Returns, HandlerPoints
  <2> QED BY <2>1, Empty
<1>4. ServerTypeOK'
  <2>2. h' \in [Conns -> HandlerRec] /\ in' \in [Conns -> Seq(Tokens)]
    BY <1>1, <1>3 DEF Returns
  <2>3. broken' \subseteq Ids
    BY HandlerRefers DEF Returns, PartlyWritten, ChunkInv, ServerTypeOK
  <2>4. cut' \in [Conns -> {"open", "eof", "reset"}]
    BY DEF Returns, ChunkInv, ServerTypeOK
  <2> QED BY <2>2, <2>3, <2>4 DEF ChunkInv, ServerTypeOK, HandlerRec, diskVars
<1>5. PointsOK'
  BY <1>2, <1>3 DEF ChunkInv, PointsOK
<1>6. Uploading'
  BY <1>2, <1>3, NothingUploads DEF ChunkInv, Uploading
<1>7. \A d \in Conns :
        \/ h'[d] = h[d]
        \/ /\ h'[d].pc \notin {"copy", "stat", "send"}
           /\ h[d].pc = "copy" => Hash[h[d].buf] = h[d].id \/ h[d].id \in broken'
  BY <1>2, <1>3 DEF Returns, PartlyWritten
<1> QED BY <1>4, <1>5, <1>6, <1>7, LetGo DEF Returns

\* All handlers end in a crash.
LEMMA CrashKeeps ==
  ASSUME ChunkInv, ServerCrash
  PROVE  ChunkInv'
<1>1. h \in [Conns -> HandlerRec] /\ in \in [Conns -> Seq(Tokens)]
  BY DEF ChunkInv, ServerTypeOK, HandlerRec
<1>2. PICK r \in HandlerRec : r = [NoHandler EXCEPT !.pc = "failed"]
  BY Empty DEF HandlerPoints
<1>3. r.pc = "failed" /\ r.id = NoFile /\ r.ino = NoFile
  BY <1>2, Empty DEF HandlerPoints
<1>4. /\ \A d \in Conns : in'[d] = << >>
      /\ \A d \in Conns : h'[d] = IF h[d].pc \in {"none", "done", "failed"} THEN h[d] ELSE r
      /\ h' = [d \in Conns |-> IF h[d].pc \in {"none", "done", "failed"} THEN h[d] ELSE r]
  BY <1>2 DEF ServerCrash
<1>5. ServerTypeOK'
  <2>1. h' \in [Conns -> HandlerRec] /\ in' \in [Conns -> Seq(Tokens)]
    <3>1. << >> \in Seq(Tokens)
      OBVIOUS
    <3> QED BY <1>1, <1>4, <3>1 DEF ServerCrash
  <2>2. broken' \subseteq Ids
    BY HandlerRefers DEF ServerCrash, PartlyWritten, ChunkInv, ServerTypeOK
  <2>3. cut' \in [Conns -> {"open", "eof", "reset"}]
    BY DEF ServerCrash, ChunkInv, ServerTypeOK
  <2>4. crashes' \in 0 .. MaxCrashes
    BY CrashesAssumption DEF ServerCrash, ChunkInv, ServerTypeOK
  <2> QED BY <2>1, <2>2, <2>3, <2>4 DEF ServerCrash, ChunkInv, ServerTypeOK, HandlerRec, diskVars
<1>6. PointsOK'
  BY <1>3, <1>4 DEF ChunkInv, PointsOK
<1>7. Uploading'
  BY <1>3, <1>4, NothingUploads DEF Uploading
<1>8. \A d \in Conns :
        \/ h'[d] = h[d]
        \/ /\ h'[d].pc \notin {"copy", "stat", "send"}
           /\ h[d].pc = "copy" => Hash[h[d].buf] = h[d].id \/ h[d].id \in broken'
  BY <1>3, <1>4 DEF ServerCrash, PartlyWritten
<1> QED BY <1>5, <1>6, <1>7, <1>8, LetGo DEF ServerCrash

\* A handler goes on with the published file that it reads, or begins with one.
LEMMA ReadsOn ==
  ASSUME ChunkInv, NEW c \in Conns, h[c].pc # "copy",
         NEW r \in HandlerRec, h' = [h EXCEPT ![c] = r],
         r.pc \in {"stat", "send"}, r.id # NoFile, r.ino # NoFile,
         r.pc = "stat" => r.buf = << >>,
         \/ stored[r.id] = r.ino
         \/ Reading(c) /\ r.id = h[c].id /\ r.ino = h[c].ino,
         r.pc = "send" /\ r.id \notin overlapped =>
           /\ Len(data[r.ino]) = Len(r.buf) + r.left
           /\ r.buf = SubSeq(data[r.ino], 1, Len(r.buf)),
         NEW u \in Seq(Tokens), in' = [in EXCEPT ![c] = u], Uploads(u),
         out' \in [Conns -> Seq(Tokens)],
         UNCHANGED <<diskVars, cut, crashes, overlapped, broken>>
  PROVE  ChunkInv'
<1>1. h \in [Conns -> HandlerRec] /\ in \in [Conns -> Seq(Tokens)]
  BY DEF ChunkInv, ServerTypeOK, HandlerRec
<1>2. h'[c] = r /\ in'[c] = u /\ \A d \in Conns \ {c} : h'[d] = h[d] /\ in'[d] = in[d]
  BY <1>1
<1>3. ServerTypeOK'
  <2>1. h' \in [Conns -> HandlerRec] /\ in' \in [Conns -> Seq(Tokens)]
    BY <1>1
  <2> QED BY <2>1 DEF ChunkInv, ServerTypeOK, HandlerRec, diskVars
<1>4. PointsOK'
  BY <1>2 DEF ChunkInv, PointsOK
<1>5. Uploading'
  BY <1>2 DEF ChunkInv, Uploading
<1> QED BY <1>2, <1>3, <1>4, <1>5, ReaderKeeps

----------------------------------------------------------------------------
\* What a handler has when it can read a token, and when it has read n.
LEMMA Consumes ==
  ASSUME ChunkInv, NEW c \in Conns, NEW n \in 1 .. Len(in[c]), Consume(c, n)
  PROVE  \E u \in Seq(Tokens) :
           /\ in' = [in EXCEPT ![c] = u] /\ Uploads(u)
           /\ u = SubSeq(in[c], n + 1, Len(in[c]))
<1>1. in \in [Conns -> Seq(Tokens)] /\ Uploads(in[c])
  BY DEF ChunkInv, ServerTypeOK, Uploading
<1>2. PICK t \in Seq(Tokens) : t = in[c]
  BY <1>1
<1>3. PICK u : u = SubSeq(t, n + 1, Len(t))
  OBVIOUS
<1>4. u \in Seq(Tokens) /\ (Uploads(t) => Uploads(u))
  <2>1. n \in 0 .. Len(t)
    BY <1>2
  <2> QED BY <1>3, <2>1, Rest
<1>5. in' = [in EXCEPT ![c] = u]
  BY <1>1, <1>2, <1>3 DEF Consume
<1> QED BY <1>1, <1>2, <1>3, <1>4, <1>5

\* A client connects and sends.
LEMMA RequestKeeps ==
  ASSUME ChunkInv, NEW c \in Conns, NEW q \in Requests, Request(c, q)
  PROVE  ChunkInv'
<1>1. h \in [Conns -> HandlerRec] /\ cut \in [Conns -> {"open", "eof", "reset"}]
      /\ h[c].pc = "none" /\ h[c].id = NoFile /\ h[c].ino = NoFile
  BY DEF ChunkInv, ServerTypeOK, HandlerRec, PointsOK, Request
<1>2. PICK r : r = [h[c] EXCEPT !.pc = "decode"]
  OBVIOUS
<1>3. r \in HandlerRec /\ r.pc = "decode" /\ r.id = NoFile /\ r.ino = NoFile
  BY <1>1, <1>2 DEF HandlerRec, HandlerPoints
<1>4. h' = [h EXCEPT ![c] = r] /\ in' = [in EXCEPT ![c] = q.in]
  BY <1>1, <1>2 DEF Request
<1>5. q.in \in Seq(Tokens) /\ Uploads(q.in)
  BY RequestsAssumption
<1>6. /\ cut' \in [Conns -> {"open", "eof", "reset"}] /\ out' \in [Conns -> Seq(Tokens)]
      /\ UNCHANGED <<diskVars, crashes, overlapped, broken>>
  BY <1>1, RequestsAssumption DEF Request, ChunkInv, ServerTypeOK
<1> QED BY <1>1, <1>3, <1>4, <1>5, <1>6, StepsAside

\* A message is decoded.
LEMMA DecodeMessageKeeps ==
  ASSUME ChunkInv, NEW c \in Conns, DecodeMessage(c)
  PROVE  ChunkInv'
<1>1. /\ h \in [Conns -> HandlerRec] /\ in \in [Conns -> Seq(Tokens)]
      /\ cut \in [Conns -> {"open", "eof", "reset"}] /\ out \in [Conns -> Seq(Tokens)]
      /\ h[c].pc = "decode" /\ h[c].id = NoFile /\ h[c].ino = NoFile
  BY DEF ChunkInv, ServerTypeOK, HandlerRec, PointsOK, DecodeMessage
<1>2. PICK m \in Tokens : m = Head(in[c]) /\ m.tok = "header"
  BY <1>1 DEF DecodeMessage, Decodes
<1>3. UNCHANGED <<diskVars, out, crashes, overlapped>>
  BY DEF DecodeMessage
<1>4. CASE m.len = 0
  <2>1. Returns(c, "done")
    BY <1>2, <1>4 DEF DecodeMessage
  <2> QED BY <1>1, <1>3, <2>1, ReturnsKeeps
<1>5. CASE m.len # 0
  <2>1. PICK next \in {"metadata", "key", "decode"} :
          /\ h' = [h EXCEPT ![c].pc = next, ![c].left = m.len, ![c].buf = << >>]
          /\ Consume(c, 1) /\ UNCHANGED <<cut, broken>>
    BY <1>2, <1>5 DEF DecodeMessage
  <2>2. PICK e \in Seq(Blocks) : e = << >>
    <3>1. << >> \in Seq(Blocks)
      OBVIOUS
    <3> QED BY <3>1, Zenon
  <2>3. PICK r : r = [h[c] EXCEPT !.pc = next, !.left = m.len, !.buf = e]
    OBVIOUS
  <2>4. m.len \in Nat
    BY <1>2, TokenParts
  <2>5. r \in HandlerRec /\ r.pc = next /\ r.id = NoFile /\ r.ino = NoFile /\ r.buf = << >>
    BY <1>1, <2>2, <2>3, <2>4 DEF HandlerRec, HandlerPoints
  <2>6. h' = [h EXCEPT ![c] = r]
    BY <1>1, <2>1, <2>2, <2>3
  <2>7. 1 \in 1 .. Len(in[c])
    BY <1>1 DEF DecodeMessage, Decodes
  <2>8. PICK u \in Seq(Tokens) : in' = [in EXCEPT ![c] = u] /\ Uploads(u)
    BY <2>1, <2>7, Consumes
  <2> QED BY <1>1, <1>3, <2>1, <2>5, <2>6, <2>8, StepsAside
<1> QED BY <1>4, <1>5

\* A ping is answered.
LEMMA HandlePingKeeps ==
  ASSUME ChunkInv, NEW c \in Conns, HandlePing(c)
  PROVE  ChunkInv'
<1>1. /\ h \in [Conns -> HandlerRec] /\ in \in [Conns -> Seq(Tokens)]
      /\ cut \in [Conns -> {"open", "eof", "reset"}] /\ out \in [Conns -> Seq(Tokens)]
      /\ h[c].pc = "decode" /\ h[c].id = NoFile /\ h[c].ino = NoFile
  BY DEF ChunkInv, ServerTypeOK, HandlerRec, PointsOK, HandlePing
<1>2. PICK t \in Seq(Tokens) : t = in[c] /\ t # << >>
  BY <1>1 DEF HandlePing, Decodes
<1>3. PICK m \in Tokens : m = Head(t) /\ m.tok = "header"
  BY <1>2 DEF HandlePing, Decodes
<1>4. PICK rest \in Seq(Tokens) : rest = Tail(t) /\ Len(rest) = Len(t) - 1
  <2>1. Tail(t) \in Seq(Tokens) /\ Len(Tail(t)) = Len(t) - 1
    BY <1>2
  <2> QED BY <2>1, Zenon
<1>5. m.len \in Nat
  BY <1>3, TokenParts
<1>6. PICK n \in 0 .. Len(rest) : n = Taken(m.len, rest)
  BY <1>5 DEF Taken
<1>7. UNCHANGED <<diskVars, crashes, overlapped>>
  BY DEF HandlePing
<1>8. CASE Returns(c, "failed") /\ UNCHANGED out
  BY <1>1, <1>7, <1>8, ReturnsKeeps
<1>9. CASE /\ out' = [out EXCEPT ![c] = @ \o Encode("response", n, rest).out]
           /\ Consume(c, n + 1)
           /\ UNCHANGED <<cut, h, broken>>
  <2>1. n \in Nat /\ n + 1 \in 1 .. Len(in[c])
    BY <1>2, <1>4
  <2>2. PICK u \in Seq(Tokens) : in' = [in EXCEPT ![c] = u] /\ Uploads(u)
    BY <1>9, <2>1, Consumes
  <2>3. Encode("response", n, rest).out \in Seq(Tokens)
    <3>1. Header("response", n) \in Tokens
      BY <2>1 DEF Header, Tokens, Types
    <3>2. Taken(n, rest) \in 0 .. Len(rest)
      BY <1>4, <2>1 DEF Taken
    <3>3. SubSeq(rest, 1, Taken(n, rest)) \in Seq(Tokens)
      BY <3>2
    <3>4. <<Header("response", n)>> \o SubSeq(rest, 1, Taken(n, rest)) \in Seq(Tokens)
      BY <3>1, <3>3
    <3>5. << >> \in Seq(Tokens)
      OBVIOUS
    <3> QED BY <3>4, <3>5 DEF Encode
  <2>4. out' \in [Conns -> Seq(Tokens)]
    <3>1. out[c] \o Encode("response", n, rest).out \in Seq(Tokens)
      BY <1>1, <2>3
    <3> QED BY <1>1, <1>9, <3>1
  <2>5. PICK r \in HandlerRec : r = h[c] /\ h' = [h EXCEPT ![c] = r]
    BY <1>1, <1>9
  <2> QED BY <1>1, <1>7, <1>9, <2>2, <2>4, <2>5, StepsAside
<1> QED BY <1>2, <1>3, <1>4, <1>6, <1>8, <1>9 DEF HandlePing

\* The metadata of an upload is read.
LEMMA ReadChunkMetadataKeeps ==
  ASSUME ChunkInv, NEW c \in Conns, ReadChunkMetadata(c)
  PROVE  ChunkInv'
<1>1. /\ h \in [Conns -> HandlerRec] /\ in \in [Conns -> Seq(Tokens)]
      /\ cut \in [Conns -> {"open", "eof", "reset"}] /\ out \in [Conns -> Seq(Tokens)]
      /\ h[c].pc = "metadata" /\ h[c].id = NoFile /\ h[c].ino = NoFile /\ h[c].buf = << >>
  BY DEF ChunkInv, ServerTypeOK, HandlerRec, PointsOK, ReadChunkMetadata
<1>2. UNCHANGED <<diskVars, out, crashes, overlapped>>
  BY DEF ReadChunkMetadata
<1>3. CASE Returns(c, "failed")
  BY <1>1, <1>2, <1>3, ReturnsKeeps
<1>4. CASE /\ Readable(c) /\ Head(in[c]).tok = "metadata" /\ Consume(c, 1)
           /\ h' = [h EXCEPT ![c].pc = "open", ![c].id = Head(in[c]).id, ![c].left = @ - 1]
           /\ UNCHANGED <<cut, broken>>
  <2>1. PICK t \in Seq(Tokens) : t = in[c] /\ t # << >>
    BY <1>1, <1>4 DEF Readable
  <2>2. t[1] \in Tokens /\ t[1].tok = "metadata" /\ Head(t) = t[1] /\ 1 \in 1 .. Len(t)
    BY <1>4, <2>1
  <2>3. t[1].id \in Ids
    BY <2>2, TokenParts
  <2>4. PICK r : r = [h[c] EXCEPT !.pc = "open", !.id = t[1].id, !.left = @ - 1]
    OBVIOUS
  <2>5. h[c] \in HandlerRec /\ h[c].left - 1 \in Nat
    BY <1>1, <1>4 DEF Readable, HandlerRec
  <2>6. r \in HandlerRec /\ r.pc = "open" /\ r.id # NoFile /\ r.ino = NoFile /\ r.buf = << >>
    BY <1>1, <2>3, <2>4, <2>5, FilesAssumption DEF HandlerRec, HandlerPoints
  <2>7. h' = [h EXCEPT ![c] = r]
    BY <1>1, <1>4, <2>1, <2>2, <2>4
  <2>8. PICK u \in Seq(Tokens) : /\ in' = [in EXCEPT ![c] = u] /\ Uploads(u)
                                 /\ u = SubSeq(t, 1 + 1, Len(t))
    BY <1>4, <2>1, <2>2, Consumes
  <2>9. Continues(<< >>, u)
    <3>1. Uploads(t)
      BY <2>1 DEF ChunkInv, Uploading
    <3> QED BY <2>2, <2>8, <3>1 DEF Uploads
  <2>10. in' = [in EXCEPT ![c] = u] /\ Uploads(u) /\ Continues(r.buf, u)
    BY <2>6, <2>8, <2>9
  <2>11. /\ out' \in [Conns -> Seq(Tokens)] /\ cut' \in [Conns -> {"open", "eof", "reset"}]
         /\ UNCHANGED <<diskVars, crashes, overlapped, broken>> /\ h[c].pc # "copy"
    BY <1>1, <1>2, <1>4
  <2> QED BY <2>6, <2>7, <2>10, <2>11, StepsAside
<1> QED BY <1>3, <1>4 DEF ReadChunkMetadata

\* The copy has ended.
LEMMA VerifyAndRenameKeeps ==
  ASSUME ChunkInv, NEW c \in Conns, VerifyAndRename(c)
  PROVE  ChunkInv'
<1>1. CASE verifyCheckSum(c) /\ tmp[h[c].id] # NoFile
  BY <1>1, RenameKeeps
<1>2. CASE ~ (verifyCheckSum(c) /\ tmp[h[c].id] # NoFile)
  <2>1. Returns(c, "failed") /\ UNCHANGED <<diskVars, out, crashes, overlapped>>
    BY <1>2 DEF VerifyAndRename, diskVars
  <2>2. out' \in [Conns -> Seq(Tokens)]
    BY <2>1 DEF ChunkInv, ServerTypeOK
  <2> QED BY <2>1, <2>2, ReturnsKeeps
<1> QED BY <1>1, <1>2

\* The file of the chunk that is asked for is opened.
LEMMA OpenStoredKeeps ==
  ASSUME ChunkInv, NEW c \in Conns, OpenStored(c)
  PROVE  ChunkInv'
<1>1. /\ h \in [Conns -> HandlerRec] /\ in \in [Conns -> Seq(Tokens)]
      /\ stored \in [Ids -> Inodes \cup {NoFile}] /\ out \in [Conns -> Seq(Tokens)]
      /\ h[c].pc = "key" /\ h[c].buf = << >>
  BY DEF ChunkInv, ServerTypeOK, HandlerRec, PointsOK, OpenStored
<1>2. UNCHANGED <<diskVars, out, crashes, overlapped>>
  BY DEF OpenStored
<1>3. CASE Returns(c, "failed")
  BY <1>1, <1>2, <1>3, ReturnsKeeps
<1>4. CASE /\ Readable(c) /\ Head(in[c]).tok = "key" /\ stored[Head(in[c]).id] # NoFile
           /\ Consume(c, 1)
           /\ h' = [h EXCEPT ![c].pc = "stat", ![c].id = Head(in[c]).id,
                             ![c].ino = stored[Head(in[c]).id], ![c].left = 0]
           /\ UNCHANGED <<cut, broken>>
  <2>1. PICK t \in Seq(Tokens) : t = in[c] /\ t # << >>
    BY <1>1, <1>4 DEF Readable
  <2>2. t[1] \in Tokens /\ t[1].tok = "key" /\ Head(t) = t[1] /\ 1 \in 1 .. Len(t)
    BY <1>4, <2>1
  <2>3. PICK id \in Ids : id = t[1].id
    BY <2>2, TokenParts
  <2>4. PICK i \in Inodes : i = stored[id]
    BY <1>1, <1>4, <2>1, <2>2, <2>3
  <2>5. PICK r : r = [h[c] EXCEPT !.pc = "stat", !.id = id, !.ino = i, !.left = 0]
    OBVIOUS
  <2>6. r \in HandlerRec
    BY <1>1, <2>5 DEF HandlerRec, HandlerPoints
  <2>7. r.pc = "stat" /\ r.id = id /\ r.ino = i /\ r.buf = << >>
    BY <1>1, <2>5 DEF HandlerRec
  <2>8. h' = [h EXCEPT ![c] = r]
    BY <1>1, <1>4, <2>1, <2>2, <2>3, <2>4, <2>5
  <2>9. PICK u \in Seq(Tokens) : in' = [in EXCEPT ![c] = u] /\ Uploads(u)
    BY <1>4, <2>1, <2>2, Consumes
  <2>10. id # NoFile /\ i # NoFile /\ stored[r.id] = r.ino
    BY <2>4, <2>7, FilesAssumption
  <2> QED BY <1>1, <1>2, <1>4, <2>6, <2>7, <2>8, <2>9, <2>10, ReadsOn
<1> QED BY <1>3, <1>4 DEF OpenStored

\* The length of the file is taken for the response.
LEMMA StatStoredKeeps ==
  ASSUME ChunkInv, NEW c \in Conns, StatStored(c)
  PROVE  ChunkInv'
<1>1. /\ h \in [Conns -> HandlerRec] /\ in \in [Conns -> Seq(Tokens)]
      /\ data \in [Inodes -> Seq(Blocks)] /\ out \in [Conns -> Seq(Tokens)]
      /\ h[c].pc = "stat" /\ h[c].buf = << >> /\ h[c].id # NoFile /\ h[c].ino # NoFile
  BY DEF ChunkInv, ServerTypeOK, HandlerRec, PointsOK, StatStored
<1>2. PICK s \in Seq(Blocks) : s = data[h[c].ino]
  BY <1>1, HandlerRefers
<1>3. PICK len \in Nat : len = Len(s)
  OBVIOUS
<1>4. PICK r : r = [h[c] EXCEPT !.pc = "send", !.left = len]
  OBVIOUS
<1>5. r \in HandlerRec
  BY <1>1, <1>4 DEF HandlerRec, HandlerPoints
<1>6. r.pc = "send" /\ r.id = h[c].id /\ r.ino = h[c].ino /\ r.buf = << >> /\ r.left = len
  BY <1>1, <1>4 DEF HandlerRec
<1>7. h' = [h EXCEPT ![c] = r]
  BY <1>1, <1>2, <1>3, <1>4 DEF StatStored
<1>8. out' \in [Conns -> Seq(Tokens)]
  <2>1. Header("response", len) \in Tokens
    BY DEF Header, Tokens, Types
  <2>2. out' = [out EXCEPT ![c] = Append(out[c], Header("response", len))]
    BY <1>1, <1>2, <1>3 DEF StatStored
  <2> QED BY <1>1, <2>1, <2>2
<1>9. Len(s) = Len(r.buf) + r.left /\ r.buf = SubSeq(s, 1, Len(r.buf))
  BY <1>3, <1>6
<1>10. PICK u \in Seq(Tokens) : in' = [in EXCEPT ![c] = u] /\ u = in[c] /\ Uploads(u)
  BY <1>1 DEF StatStored, ChunkInv, Uploading
<1>11. UNCHANGED <<diskVars, cut, crashes, overlapped, broken>> /\ Reading(c)
  BY <1>1 DEF StatStored, Reading
<1> QED BY <1>1, <1>2, <1>5, <1>6, <1>7, <1>8, <1>9, <1>10, <1>11, ReadsOn

\* A block of the file is sent, or the file has become shorter.
LEMMA SendBlockKeeps ==
  ASSUME ChunkInv, NEW c \in Conns, SendBlock(c)
  PROVE  ChunkInv'
<1>1. /\ h \in [Conns -> HandlerRec] /\ in \in [Conns -> Seq(Tokens)]
      /\ data \in [Inodes -> Seq(Blocks)] /\ out \in [Conns -> Seq(Tokens)]
      /\ h[c].pc = "send" /\ h[c].id # NoFile /\ h[c].ino # NoFile /\ h[c].left > 0
  BY DEF ChunkInv, ServerTypeOK, HandlerRec, PointsOK, SendBlock
<1>2. PICK s \in Seq(Blocks), s0 \in Seq(Blocks) : s = data[h[c].ino] /\ s0 = h[c].buf
  BY <1>1, HandlerRefers DEF HandlerRec
<1>3. CASE ~ (Len(s0) < Len(s))
  <2>1. Returns(c, "failed") /\ UNCHANGED <<diskVars, out, crashes, overlapped>>
    BY <1>2, <1>3 DEF SendBlock
  <2> QED BY <1>1, <2>1, ReturnsKeeps
<1>4. CASE Len(s0) < Len(s)
  <2>1. PICK b \in Blocks : b = s[Len(s0) + 1]
    BY <1>4
  <2>2. /\ h' = [h EXCEPT ![c].buf = Append(@, b), ![c].left = @ - 1]
        /\ out' = [out EXCEPT ![c] = Append(@, Data(b))]
        /\ UNCHANGED <<in, cut, broken, diskVars, crashes, overlapped>>
    BY <1>2, <1>4, <2>1 DEF SendBlock
  <2>3. PICK s1 \in Seq(Blocks) : s1 = Append(s0, b)
    <3>1. Append(s0, b) \in Seq(Blocks)
      OBVIOUS
    <3> QED BY <3>1, Zenon
  <2>4. PICK n \in Nat : n = h[c].left - 1 /\ h[c].left = n + 1
    <3>1. h[c].left \in Nat
      BY <1>1 DEF HandlerRec
    <3>2. h[c].left - 1 \in Nat /\ h[c].left = (h[c].left - 1) + 1
      <4>1. h[c].left > 0
        BY <1>1
      <4> QED BY <3>1, <4>1
    <3> QED BY <3>2, Zenon
  <2>5. PICK r : r = [h[c] EXCEPT !.buf = s1, !.left = n]
    OBVIOUS
  <2>6. r \in HandlerRec
    BY <1>1, <2>5 DEF HandlerRec
  <2>7. r.pc = "send" /\ r.id = h[c].id /\ r.ino = h[c].ino /\ r.buf = s1 /\ r.left = n
    BY <1>1, <2>5 DEF HandlerRec
  <2>8. h' = [h EXCEPT ![c] = r]
    BY <1>1, <1>2, <2>2, <2>3, <2>4, <2>5
  <2>9. out' \in [Conns -> Seq(Tokens)]
    <3>1. Data(b) \in Tokens
      BY DEF Data, Tokens
    <3> QED BY <1>1, <2>2, <3>1
  <2>10. ASSUME r.id \notin overlapped
         PROVE  Len(s) = Len(s1) + n /\ s1 = SubSeq(s, 1, Len(s1))
    <3>1. h[c].id \in Ids \ overlapped
      BY <2>7, <2>10, <1>1, HandlerRefers
    <3>2. Len(s) = Len(s0) + (n + 1) /\ s0 = SubSeq(s, 1, Len(s0))
      <4>1. Alone(h[c].id)
        BY <3>1 DEF ChunkInv
      <4>2. /\ Len(data[h[c].ino]) = Len(h[c].buf) + h[c].left
            /\ h[c].buf = SubSeq(data[h[c].ino], 1, Len(h[c].buf))
        BY <1>1, <4>1 DEF Alone
      <4> QED BY <1>2, <2>4, <4>2
    <3>3. Len(s1) = Len(s0) + 1 /\ s1[Len(s0) + 1] = b /\ \A k \in 1 .. Len(s0) : s1[k] = s0[k]
      BY <2>3
    <3>4. \A k \in 1 .. Len(s0) : s0[k] = s[k]
      BY <3>2
    <3>5. Len(SubSeq(s, 1, Len(s1))) = Len(s1) /\ SubSeq(s, 1, Len(s1)) \in Seq(Blocks)
          /\ \A k \in 1 .. Len(s1) : SubSeq(s, 1, Len(s1))[k] = s[k]
      BY <3>2, <3>3
    <3>6. \A k \in 1 .. Len(s1) : s1[k] = s[k]
      <4>1. \A k \in 1 .. Len(s1) : k = Len(s0) + 1 \/ k \in 1 .. Len(s0)
        BY <3>3
      <4> QED BY <2>1, <3>3, <3>4, <4>1
    <3>7. PICK w \in Seq(Blocks) : w = SubSeq(s, 1, Len(s1))
      BY <3>5, Zenon
    <3>8. s1 = w
      BY <3>5, <3>6, <3>7, SameBlocks
    <3> QED BY <3>2, <3>3, <3>7, <3>8
  <2>11. PICK u \in Seq(Tokens) : in' = [in EXCEPT ![c] = u] /\ u = in[c] /\ Uploads(u)
    BY <1>1, <2>2 DEF ChunkInv, Uploading
  <2>12. UNCHANGED <<diskVars, cut, crashes, overlapped, broken>> /\ Reading(c)
    BY <1>1, <2>2 DEF Reading
  <2> QED BY <1>1, <1>2, <2>6, <2>7, <2>8, <2>9, <2>10, <2>11, <2>12, ReadsOn
<1> QED BY <1>3, <1>4

\* The response is complete.
LEMMA SendEndsKeeps ==
  ASSUME ChunkInv, NEW c \in Conns, SendEnds(c)
  PROVE  ChunkInv'
<1>1. /\ h \in [Conns -> HandlerRec] /\ in \in [Conns -> Seq(Tokens)] /\ h[c].pc = "send"
      /\ out' \in [Conns -> Seq(Tokens)] /\ cut' \in [Conns -> {"open", "eof", "reset"}]
      /\ UNCHANGED <<diskVars, crashes, overlapped, broken>> /\ in' = in
  BY DEF ChunkInv, ServerTypeOK, HandlerRec, SendEnds, connVars
<1>2. PICK r \in HandlerRec :
        /\ h' = [h EXCEPT ![c] = r] /\ r.pc = "decode" /\ r.id = NoFile /\ r.ino = NoFile
  BY Empty DEF SendEnds, HandlerPoints
<1>3. PICK u \in Seq(Tokens) : in' = [in EXCEPT ![c] = u] /\ u = in[c] /\ Uploads(u)
  BY <1>1 DEF ChunkInv, Uploading
<1> QED BY <1>1, <1>2, <1>3, StepsAside

----------------------------------------------------------------------------
\* Nothing is stored or read at first.
LEMMA InitChunkInv == ServerInit => ChunkInv
<1> SUFFICES ASSUME ServerInit PROVE ChunkInv
  OBVIOUS
<1>1. PICK e \in Seq(Blocks), z \in Nat, t \in Seq(Tokens) : e = << >> /\ z = 0 /\ t = << >>
  <2>1. << >> \in Seq(Blocks) /\ 0 \in Nat /\ << >> \in Seq(Tokens)
    OBVIOUS
  <2> QED BY <2>1, Zenon
<1>2. PICK r : r = [NoHandler EXCEPT !.pc = "none"]
  OBVIOUS
<1>3. r \in HandlerRec /\ r.pc = "none" /\ r.id = NoFile /\ r.ino = NoFile
  <2>1. "none" \in HandlerPoints
    BY DEF HandlerPoints
  <2> QED BY <1>2, <2>1, Empty, Zenon
<1>4. r = NoHandler
  BY <1>2 DEF NoHandler
<1>5. ServerTypeOK
  <2>1. h \in [Conns -> HandlerRec]
    BY <1>3, <1>4 DEF ServerInit
  <2>2. data \in [Inodes -> Seq(Blocks)] /\ in \in [Conns -> Seq(Tokens)] /\ out \in [Conns -> Seq(Tokens)]
    BY <1>1 DEF ServerInit
  <2>3. crashes \in 0 .. MaxCrashes
    BY CrashesAssumption DEF ServerInit
  <2> QED BY <2>1, <2>2, <2>3 DEF ServerInit, ServerTypeOK, HandlerRec
<1>6. \A c \in Conns : h[c].pc = "none" /\ h[c].id = NoFile /\ h[c].ino = NoFile /\ in[c] = << >>
  BY <1>3, <1>4 DEF ServerInit
<1>7. \A id \in Ids : tmp[id] = NoFile /\ stored[id] = NoFile
  BY DEF ServerInit
<1>8. PointsOK /\ Uploading
  BY <1>6, NothingUploads DEF PointsOK, Uploading
<1>9. OneChunk
  BY <1>6, <1>7, FilesAssumption DEF OneChunk, Refers
<1>10. \A id \in Ids : Writers(id) = {}
  BY <1>6 DEF Writers
<1>11. \A id \in Ids : \A i \in Inodes : ~ Published(id, i)
  BY <1>6, <1>7, FilesAssumption DEF Published, Reading
<1>12. \A id \in Ids : Alone(id)
  BY <1>6, <1>10, <1>11 DEF Alone
<1>13. \A id \in Ids : Whole(id)
  BY <1>7, <1>10, FilesAssumption DEF Whole, WritersOf
<1> QED BY <1>5, <1>7, <1>8, <1>9, <1>12, <1>13 DEF ChunkInv

\* Every step keeps the invariant.
LEMMA NextChunkInv == ChunkInv /\ [ServerNext]_serverVars => ChunkInv'
<1> SUFFICES ASSUME ChunkInv, [ServerNext]_serverVars PROVE ChunkInv'
  OBVIOUS
<1>1. ASSUME NEW c \in Conns, NEW r \in Requests, Request(c, r)
      PROVE  ChunkInv'
  BY <1>1, RequestKeeps
<1>2. ASSUME NEW c \in Conns, HandlerStep(c) \/ IOError(c)
      PROVE  ChunkInv'
  <2>1. CASE DecodeMessage(c)
    BY <2>1, DecodeMessageKeeps
  <2>2. CASE HandlePing(c)
    BY <2>2, HandlePingKeeps
  <2>3. CASE ReadChunkMetadata(c)
    BY <2>3, ReadChunkMetadataKeeps
  <2>4. CASE OpenTmp(c)
    BY <2>4, OpenTmpKeeps
  <2>5. CASE CopyBlock(c)
    BY <2>5, CopyBlockKeeps
  <2>6. CASE VerifyAndRename(c)
    BY <2>6, VerifyAndRenameKeeps
  <2>7. CASE OpenStored(c)
    BY <2>7, OpenStoredKeeps
  <2>8. CASE StatStored(c)
    BY <2>8, StatStoredKeeps
  <2>9. CASE SendBlock(c)
    BY <2>9, SendBlockKeeps
  <2>10. CASE SendEnds(c)
    BY <2>10, SendEndsKeeps
  <2>11. CASE DecodeEnds(c) \/ CopyBreaks(c) \/ IOError(c)
    <3>1. /\ Returns(c, "done") \/ Returns(c, "failed")
          /\ UNCHANGED <<diskVars, out, crashes, overlapped>>
      BY <2>11 DEF DecodeEnds, CopyBreaks, IOError
    <3>2. out' \in [Conns -> Seq(Tokens)]
      BY <3>1 DEF ChunkInv, ServerTypeOK
    <3> QED BY <3>1, <3>2, ReturnsKeeps
  <2> QED BY <1>2, <2>1, <2>2, <2>3, <2>4, <2>5, <2>6, <2>7, <2>8, <2>9, <2>10, <2>11
          DEF HandlerStep
<1>3. CASE ServerCrash
  BY <1>3, CrashKeeps
<1>4. CASE UNCHANGED serverVars
  <2>1. UNCHANGED <<tmp, stored, data, in, cut, out, h, crashes, overlapped, broken>>
    BY <1>4 DEF serverVars
  <2>2. ServerTypeOK' /\ PointsOK' /\ Uploading'
    BY <2>1 DEF ChunkInv, ServerTypeOK, PointsOK, Uploading
  <2>3. \A c \in Conns : h'[c] = h[c]
    BY <2>1
  <2> QED BY <2>1, <2>2, <2>3, LetGo DEF diskVars
<1> QED BY <1>1, <1>2, <1>3, <1>4 DEF ServerNext

\* The inductive invariant of the chunk server holds of every behaviour of its
\* handlers, its failing calls and its crashes.
THEOREM ChunkInvariance == ServerSpec => []ChunkInv
BY InitChunkInv, NextChunkInv, PTL DEF ServerSpec

\* The state of the chunk server is of its type.
THEOREM ServerTypeCorrect == ServerSpec => []ServerTypeOK
<1>1. ChunkInv => ServerTypeOK
  BY DEF ChunkInv
<1> QED BY <1>1, ChunkInvariance, PTL

\* The invariant is enough for what is stored.
LEMMA StoredFromInv == ChunkInv => StoredIntact
<1>1. ASSUME ChunkInv PROVE StoredIntact
  <2> SUFFICES ASSUME NEW id \in Ids, stored[id] # NoFile,
                      id \notin overlapped \/ (id \notin broken /\ Writers(id) = {})
               PROVE  Intact(id)
    BY DEF StoredIntact
  <2>1. PICK i \in Inodes : i = stored[id]
    BY <1>1 DEF ChunkInv, ServerTypeOK
  <2>2. CASE id \notin overlapped
    BY <1>1, <2>1, <2>2 DEF ChunkInv, Alone, Published, Intact
  <2>3. CASE id \notin broken /\ Writers(id) = {}
    <3>1. PICK s \in Contents : Hash[s] = id
      BY <1>1 DEF ChunkInv
    <3>2. InOrder(id, i, s) /\ WritersOf(id, i) = {}
      BY <1>1, <2>1, <2>3, <3>1 DEF ChunkInv, Whole, WritersOf
    <3>3. Len(data[i]) <= Len(s) /\ \A p \in 1 .. Len(s) : p <= Len(data[i]) /\ data[i][p] = s[p]
      BY <3>2 DEF InOrder
    <3>4. s \in Seq(Blocks) /\ data[i] \in Seq(Blocks)
      BY <1>1, ContentsAssumption DEF ChunkInv, ServerTypeOK
    <3>5. Len(data[i]) = Len(s)
      <4>1. Len(s) \in Nat /\ Len(data[i]) \in Nat
        BY <3>4
      <4>2. Len(s) > 0 => Len(s) <= Len(data[i])
        BY <3>3, <4>1
      <4> QED BY <3>3, <4>1, <4>2
    <3>6. data[i] = s
      BY <3>3, <3>4, <3>5
    <3> QED BY <2>1, <3>1, <3>6 DEF Intact
  <2> QED BY <2>2, <2>3
<1> QED BY <1>1

\* A chunk under its final name is the one its id stands for, while uploads of
\* it do not overlap, and also once overlapping uploads have all ended if each
\* was whole (storage.go:37, handler.go:82).
THEOREM StoredStaysIntact == ServerSpec => []StoredIntact
BY ChunkInvariance, StoredFromInv, PTL

\* The invariant is enough for what is read.
LEMMA ReadsFromInv == ChunkInv => ReadsIntact
<1>1. ASSUME ChunkInv PROVE ReadsIntact
  <2> SUFFICES ASSUME NEW c \in Conns, h[c].pc = "send", h[c].id \notin overlapped
               PROVE  \E s \in Contents :
                        /\ Hash[s] = h[c].id
                        /\ Len(s) = Len(h[c].buf) + h[c].left
                        /\ h[c].buf = SubSeq(s, 1, Len(h[c].buf))
    BY DEF ReadsIntact
  <2>1. h[c].id \in Ids \ overlapped /\ h[c].ino \in Inodes
    BY <1>1, HandlerRefers
  <2>2. Alone(h[c].id) /\ Published(h[c].id, h[c].ino)
    BY <1>1, <2>1 DEF ChunkInv, Published, Reading
  <2> QED BY <2>1, <2>2 DEF Alone
<1> QED BY <1>1

\* What a read has sent is the beginning of the whole right chunk, also when
\* the chunk is uploaded again under the reader, while uploads do not overlap
\* (storage.go:96).
THEOREM ReadsStayIntact == ServerSpec => []ReadsIntact
BY ChunkInvariance, ReadsFromInv, PTL

=============================================================================
