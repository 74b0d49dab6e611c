----------------------------- MODULE ChunkServer -----------------------------
(***************************************************************************)
(* The chunk server: ChunkHandler of internal/chunkserver, one goroutine   *)
(* per connection, over FileStorage of internal/storage.                   *)
(*                                                                         *)
(* A chunk is written to the file <id>.tmp and renamed to <id> when its    *)
(* checksum is right.  Files are inodes with names: opening an existing    *)
(* .tmp file truncates the inode that another handler may be writing, and  *)
(* a rename takes along the inode that the name has at that moment.  Each  *)
(* open file has its own position.  The steps are the system calls; what a *)
(* handler computes between two of them is part of the second.             *)
(***************************************************************************)
EXTENDS Protocol, FiniteSets

CONSTANTS Conns,        \* connections, each with its handler
          Inodes,       \* files on disk, named or still open
          NoFile,
          Hole,         \* the block of zeros, which a file has where nobody wrote
          Foreign,      \* the bytes of a token that is no data, as content
          Contents,     \* contents that a chunk can have, sequences of blocks
          Hash,         \* the content hash, as a function on Contents
          Requests,     \* what clients send: tokens, and how the sending ends
          MaxCrashes    \* bound on crashes of the server

ASSUME ContentsAssumption ==
  /\ Contents \subseteq Seq(Blocks) /\ << >> \in Contents
  /\ \A s \in Contents : \A n \in 0 .. Len(s) : SubSeq(s, 1, n) \in Contents
\* MD5 tells the contents that occur apart.
ASSUME HashAssumption ==
  /\ Hash \in [Contents -> Ids]
  /\ \A s, t \in Contents : Hash[s] = Hash[t] => s = t
ASSUME FilesAssumption == NoFile \notin Inodes /\ NoFile \notin Ids /\ {Hole, Foreign} \subseteq Blocks
ASSUME CrashesAssumption == MaxCrashes \in Nat

\* What io.Copy writes of a token, whatever the token is.
BlockOf(t) == IF t.tok = "data" THEN t.block ELSE Foreign

\* The sequence s with the first n tokens of t behind it.
Joined(s, t, n) ==
  [k \in 1 .. Len(s) + n |-> IF k <= Len(s) THEN s[k] ELSE BlockOf(t[k - Len(s)])]

\* s and any number of tokens that t begins with are one of Contents.
Continues(s, t) == \A n \in 0 .. Len(t) : Joined(s, t, n) \in Contents

\* So is what comes in t behind a metadata.
Uploads(t) ==
  \A m \in 1 .. Len(t) : t[m].tok = "metadata" => Continues(<< >>, SubSeq(t, m + 1, Len(t)))

\* Contents are all that a client can send as the content of a chunk.
ASSUME RequestsAssumption ==
  \A r \in Requests :
    r.in \in Seq(Tokens) /\ r.cut \in {"open", "eof", "reset"} /\ Uploads(r.in)

VARIABLES
  \* files
  tmp,         \* tmp[id]: the inode named <id>.tmp, or NoFile
  stored,      \* stored[id]: the inode named <id>, or NoFile
  data,        \* data[i]: the content of inode i
  \* connections
  in,          \* in[c]: tokens sent by the client that the handler has not read
  cut,         \* cut[c]: "open", or how the client's sending ended
  out,         \* out[c]: tokens sent back to the client
  h,           \* h[c]: the handler
  crashes,
  \* history
  overlapped,  \* ids that two handlers have had open for writing at once
  broken       \* ids of which a handler ended with only a part written

diskVars == <<tmp, stored, data>>
connVars == <<in, cut, out>>
serverVars == <<tmp, stored, data, in, cut, out, h, crashes, overlapped, broken>>

\* left: what the LimitReader of the message may still read; buf: the blocks
\* hashed so far (write) or read from the file so far (read).
NoHandler == [pc |-> "none", id |-> NoFile, ino |-> NoFile, left |-> 0, buf |-> << >>]

Writers(id) == {c \in Conns : h[c].pc = "copy" /\ h[c].id = id}

\* No name and no open file refers to the inode.
Free(i) ==
  /\ \A id \in Ids : tmp[id] # i /\ stored[id] # i
  /\ \A c \in Conns : h[c].ino # i

HandlerPoints ==
  {"none", "decode", "metadata", "open", "copy", "key", "stat", "send", "done", "failed"}

ServerTypeOK ==
  /\ tmp \in [Ids -> Inodes \cup {NoFile}]
  /\ stored \in [Ids -> Inodes \cup {NoFile}]
  /\ data \in [Inodes -> Seq(Blocks)]
  /\ in \in [Conns -> Seq(Tokens)]
  /\ out \in [Conns -> Seq(Tokens)]
  /\ cut \in [Conns -> {"open", "eof", "reset"}]
  /\ h \in [Conns -> [pc : HandlerPoints, id : Ids \cup {NoFile}, ino : Inodes \cup {NoFile},
                      left : Nat, buf : Seq(Blocks)]]
  /\ crashes \in 0 .. MaxCrashes
  /\ overlapped \subseteq Ids /\ broken \subseteq Ids

ServerInit ==
  /\ tmp = [id \in Ids |-> NoFile]
  /\ stored = [id \in Ids |-> NoFile]
  /\ data = [i \in Inodes |-> << >>]
  /\ in = [c \in Conns |-> << >>]
  /\ cut = [c \in Conns |-> "open"]
  /\ out = [c \in Conns |-> << >>]
  /\ h = [c \in Conns |-> NoHandler]
  /\ crashes = 0
  /\ overlapped = {}
  /\ broken = {}

----------------------------------------------------------------------------
(* Reading from the connection *)

\* The handler can read the next token of the message it is in.
Readable(c) == in[c] # << >> /\ h[c].left > 0

\* The reader of the message has ended: the limit is reached or the client
\* has closed the connection.
Ended(c) == h[c].left = 0 \/ (in[c] = << >> /\ cut[c] = "eof")

\* Nothing more comes, the message is not complete and no end was sent.
Broken(c) == in[c] = << >> /\ h[c].left > 0 /\ cut[c] = "reset"

Consume(c, n) == in' = [in EXCEPT ![c] = SubSeq(@, n + 1, Len(@))]

\* A write that stops with something other than the whole chunk in the file.
PartlyWritten(c) ==
  IF h[c].pc = "copy" /\ Hash[h[c].buf] # h[c].id THEN {h[c].id} ELSE {}

\* Handle returns and the deferred conn.Close and file.Close run; what the
\* client has sent and not been read is dropped.
Returns(c, how) ==
  /\ h' = [h EXCEPT ![c] = [NoHandler EXCEPT !.pc = how]]
  /\ in' = [in EXCEPT ![c] = << >>]
  /\ cut' = [cut EXCEPT ![c] = "eof"]
  /\ broken' = broken \cup PartlyWritten(c)

\* Decode of the next message and the switch of Handle.  The payload of a
\* message of another type is not read: its first token is taken for a header.
DecodeMessage(c) ==
  /\ h[c].pc = "decode"
  /\ Decodes(in[c])
  /\ LET m == Head(in[c])
         next == CASE m.type = "write" -> "metadata"
                   [] m.type = "read" -> "key"
                   [] OTHER -> "decode"
     IN  IF m.len = 0 THEN Returns(c, "done")
         ELSE /\ m.type # "ping"
              /\ Consume(c, 1)
              /\ h' = [h EXCEPT ![c].pc = next, ![c].left = m.len, ![c].buf = << >>]
              /\ UNCHANGED <<cut, broken>>
  /\ UNCHANGED <<diskVars, out, crashes, overlapped>>

\* handlePing sends back what it gets of the payload; the end of the connection
\* ends the payload too.
HandlePing(c) ==
  /\ h[c].pc = "decode"
  /\ Decodes(in[c])
  /\ Head(in[c]).type = "ping"
  /\ Head(in[c]).len > 0
  /\ LET n == Taken(Head(in[c]).len, Tail(in[c]))
     IN  \/ /\ n = Head(in[c]).len \/ cut[c] = "eof"
            /\ out' = [out EXCEPT ![c] = @ \o Encode("response", n, Tail(in[c])).out]
            /\ Consume(c, n + 1)
            /\ UNCHANGED <<cut, h, broken>>
         \/ /\ n < Head(in[c]).len /\ cut[c] = "reset"
            /\ Returns(c, "failed")
            /\ UNCHANGED out
  /\ UNCHANGED <<diskVars, crashes, overlapped>>

\* Decode finds the end of the connection, an error or no header.
DecodeEnds(c) ==
  /\ h[c].pc = "decode"
  /\ ~ Decodes(in[c])
  /\ IF in[c] = << >>
     THEN cut[c] # "open" /\ Returns(c, IF cut[c] = "eof" THEN "done" ELSE "failed")
     ELSE Returns(c, "failed")
  /\ UNCHANGED <<diskVars, out, crashes, overlapped>>

----------------------------------------------------------------------------
(* handleWrite *)

\* getChunkMetadataReader and readChunkMetadata; what is no metadata does not
\* decode.
ReadChunkMetadata(c) ==
  /\ h[c].pc = "metadata"
  /\ \/ /\ Readable(c)
        /\ IF Head(in[c]).tok = "metadata"
           THEN /\ Consume(c, 1)
                /\ h' = [h EXCEPT ![c].pc = "open", ![c].id = Head(in[c]).id, ![c].left = @ - 1]
                /\ UNCHANGED <<cut, broken>>
           ELSE Returns(c, "failed")
     \/ (Ended(c) \/ Broken(c)) /\ Returns(c, "failed")
  /\ UNCHANGED <<diskVars, out, crashes, overlapped>>

\* Mutant: the chunk is written in place.
OpenedInode_InPlace(id) ==
  IF stored[id] # NoFile THEN stored[id] ELSE CHOOSE i \in Inodes : Free(i)

\* The inode that OpenFile with O_CREATE|O_TRUNC opens for <id>.tmp.
OpenedInode(id) ==
  IF tmp[id] # NoFile THEN tmp[id] ELSE CHOOSE i \in Inodes : Free(i)

\* FileStorage.Write up to the open file; without a free inode OpenFile fails.
OpenTmp(c) ==
  /\ h[c].pc = "open"
  /\ tmp[h[c].id] # NoFile \/ \E i \in Inodes : Free(i)
  /\ LET id == h[c].id
         i == OpenedInode(id)
     IN  /\ data' = [data EXCEPT ![i] = << >>]
         /\ tmp' = [tmp EXCEPT ![id] = i]
         /\ h' = [h EXCEPT ![c].pc = "copy", ![c].ino = i]
         /\ overlapped' = IF Writers(id) = {} THEN overlapped ELSE overlapped \cup {id}
  /\ UNCHANGED <<stored, connVars, crashes, broken>>

\* A write of one block at a position, which may be past the end.
WrittenAt(s, pos, b) ==
  [n \in 1 .. (IF Len(s) > pos THEN Len(s) ELSE pos + 1) |->
     IF n = pos + 1 THEN b ELSE IF n <= Len(s) THEN s[n] ELSE Hole]

\* One round of io.Copy into the file and the hasher, of whatever the message has.
CopyBlock(c) ==
  /\ h[c].pc = "copy"
  /\ Readable(c)
  /\ LET b == BlockOf(Head(in[c]))
     IN  /\ data' = [data EXCEPT ![h[c].ino] = WrittenAt(@, Len(h[c].buf), b)]
         /\ h' = [h EXCEPT ![c].buf = Append(@, b), ![c].left = @ - 1]
  /\ Consume(c, 1)
  /\ UNCHANGED <<tmp, stored, cut, out, crashes, overlapped, broken>>

\* The connection breaks during the copy.
CopyBreaks(c) ==
  /\ h[c].pc = "copy"
  /\ Broken(c)
  /\ Returns(c, "failed")
  /\ UNCHANGED <<diskVars, out, crashes, overlapped>>

\* Mutant: the checksum is not compared.
verifyCheckSum_Never(c) == TRUE

verifyCheckSum(c) == Hash[h[c].buf] = h[c].id

\* io.Copy ends, without an error also when the client closed too early; then
\* verifyCheckSum and renameFile.  The name may be gone, or belong by now to the
\* file of another handler.
VerifyAndRename(c) ==
  /\ h[c].pc = "copy"
  /\ Ended(c)
  /\ LET id == h[c].id
     IN  IF verifyCheckSum(c) /\ tmp[id] # NoFile
         THEN /\ stored' = [stored EXCEPT ![id] = tmp[id]]
              /\ tmp' = [tmp EXCEPT ![id] = NoFile]
              /\ h' = [h EXCEPT ![c] = [NoHandler EXCEPT !.pc = "decode"]]
              /\ UNCHANGED <<in, cut, broken>>
         ELSE Returns(c, "failed") /\ UNCHANGED <<tmp, stored>>
  /\ UNCHANGED <<data, out, crashes, overlapped>>

----------------------------------------------------------------------------
(* handleRead *)

\* readChunk reads the whole payload as the key and opens the file.
OpenStored(c) ==
  /\ h[c].pc = "key"
  /\ \/ /\ Readable(c)
        /\ IF Head(in[c]).tok = "key" /\ stored[Head(in[c]).id] # NoFile
           THEN /\ Consume(c, 1)
                /\ h' = [h EXCEPT ![c].pc = "stat", ![c].id = Head(in[c]).id,
                                  ![c].ino = stored[Head(in[c]).id], ![c].left = 0]
                /\ UNCHANGED <<cut, broken>>
           ELSE Returns(c, "failed")
     \/ (Ended(c) \/ Broken(c)) /\ Returns(c, "failed")
  /\ UNCHANGED <<diskVars, out, crashes, overlapped>>

\* Mutant: the last block is not counted.
StatStored_OneLess(c) ==
  /\ h[c].pc = "stat"
  /\ LET len == Len(data[h[c].ino]) - 1
     IN  /\ h' = [h EXCEPT ![c].pc = "send", ![c].left = len]
         /\ out' = [out EXCEPT ![c] = Append(@, Header("response", len))]
  /\ UNCHANGED <<diskVars, in, cut, crashes, overlapped, broken>>

\* Stat gives the length of the response; Encode sends the header.
StatStored(c) ==
  /\ h[c].pc = "stat"
  /\ LET len == Len(data[h[c].ino])
     IN  /\ h' = [h EXCEPT ![c].pc = "send", ![c].left = len]
         /\ out' = [out EXCEPT ![c] = Append(@, Header("response", len))]
  /\ UNCHANGED <<diskVars, in, cut, crashes, overlapped, broken>>

\* One round of CopyN; a file that has become shorter ends it.
SendBlock(c) ==
  /\ h[c].pc = "send"
  /\ h[c].left > 0
  /\ IF Len(h[c].buf) < Len(data[h[c].ino])
     THEN LET b == data[h[c].ino][Len(h[c].buf) + 1]
          IN  /\ h' = [h EXCEPT ![c].buf = Append(@, b), ![c].left = @ - 1]
              /\ out' = [out EXCEPT ![c] = Append(@, Data(b))]
              /\ UNCHANGED <<in, cut, broken>>
     ELSE Returns(c, "failed") /\ UNCHANGED out
  /\ UNCHANGED <<diskVars, crashes, overlapped>>

SendEnds(c) ==
  /\ h[c].pc = "send"
  /\ h[c].left = 0
  /\ h' = [h EXCEPT ![c] = [NoHandler EXCEPT !.pc = "decode"]]
  /\ UNCHANGED <<diskVars, connVars, crashes, overlapped, broken>>

----------------------------------------------------------------------------
\* A system call of the storage fails, or a write to the connection.
IOError(c) ==
  /\ h[c].pc \in {"open", "copy", "stat", "send"}
  /\ Returns(c, "failed")
  /\ UNCHANGED <<diskVars, out, crashes, overlapped>>

\* The process dies: all handlers end where they are, the files stay.
ServerCrash ==
  /\ crashes < MaxCrashes
  /\ crashes' = crashes + 1
  /\ h' = [c \in Conns |-> IF h[c].pc \in {"none", "done", "failed"} THEN h[c]
                           ELSE [NoHandler EXCEPT !.pc = "failed"]]
  /\ in' = [c \in Conns |-> << >>]
  /\ cut' = [c \in Conns |-> IF h[c].pc = "none" THEN cut[c] ELSE "eof"]
  /\ broken' = broken \cup UNION {PartlyWritten(c) : c \in Conns}
  /\ UNCHANGED <<diskVars, out, overlapped>>

HandlerStep(c) ==
  \/ DecodeMessage(c) \/ HandlePing(c) \/ DecodeEnds(c)
  \/ ReadChunkMetadata(c) \/ OpenTmp(c) \/ CopyBlock(c) \/ CopyBreaks(c)
  \/ VerifyAndRename(c)
  \/ OpenStored(c) \/ StatStored(c) \/ SendBlock(c) \/ SendEnds(c)

\* A client connects, sends and stops sending; when the handler gets to read
\* what was sent is up to the handler's own steps.
Request(c, r) ==
  /\ h[c].pc = "none"
  /\ h' = [h EXCEPT ![c].pc = "decode"]
  /\ in' = [in EXCEPT ![c] = r.in]
  /\ cut' = [cut EXCEPT ![c] = r.cut]
  /\ UNCHANGED <<diskVars, out, crashes, overlapped, broken>>

ServerNext ==
  \/ \E c \in Conns, r \in Requests : Request(c, r)
  \/ \E c \in Conns : HandlerStep(c) \/ IOError(c)
  \/ ServerCrash

ServerSpec == ServerInit /\ [][ServerNext]_serverVars

----------------------------------------------------------------------------
(* Properties *)

Intact(id) == data[stored[id]] \in Contents /\ Hash[data[stored[id]]] = id

\* A chunk under its final name has the content its id stands for, at every
\* moment and after every broken upload, I/O error and crash, if uploads of it
\* never overlapped.  If they did, they may have truncated, overwritten or
\* renamed each other's file, but once all have ended the chunk is right
\* unless one of them broke off (handler.go:82 checks what was received, not
\* what is in the file).
StoredIntact ==
  \A id \in Ids :
    stored[id] # NoFile /\ (id \notin overlapped \/ (id \notin broken /\ Writers(id) = {}))
      => Intact(id)

\* What a read has sent so far is the beginning of the response for the whole
\* right chunk, also while the chunk is uploaded again under the reader
\* (length and content are read at different times, storage.go:96), as long as
\* uploads did not overlap.
ReadsIntact ==
  \A c \in Conns :
    h[c].pc = "send" /\ h[c].id \notin overlapped =>
      \E s \in Contents :
        /\ Hash[s] = h[c].id
        /\ Len(s) = Len(h[c].buf) + h[c].left
        /\ h[c].buf = SubSeq(s, 1, Len(h[c].buf))

\* "Verifies chunk integrity during transfer/storage" (README.md:39): whatever
\* uploads there are, a stored chunk has the content its id stands for.
ChunkIntact == \A id \in Ids : stored[id] # NoFile => Intact(id)

----------------------------------------------------------------------------
(* The inductive invariant behind the two of them.  Writers of one chunk may *)
(* share an inode, so it says of every block who wrote it or has still to.   *)

Reading(c) == h[c].pc \in {"stat", "send"}

\* Where a handler is tells what it has.
PointsOK ==
  \A c \in Conns :
    /\ h[c].id # NoFile <=> h[c].pc \in {"open", "copy", "stat", "send"}
    /\ h[c].ino # NoFile <=> h[c].pc \in {"copy", "stat", "send"}
    /\ h[c].pc \in {"metadata", "key", "open", "stat"} => h[c].buf = << >>

\* What a writer has hashed, and will have with all that comes, is in Contents.
Uploading ==
  \A c \in Conns :
    Uploads(in[c]) /\ (h[c].pc \in {"open", "copy"} => Continues(h[c].buf, in[c]))

\* An inode is a file of one chunk only, whatever refers to it.
Refers(id, i) ==
  tmp[id] = i \/ stored[id] = i \/ \E c \in Conns : h[c].id = id /\ h[c].ino = i

OneChunk ==
  \A i \in Inodes : \A id1, id2 \in Ids : Refers(id1, i) /\ Refers(id2, i) => id1 = id2

\* Uploads of a chunk that never overlapped: the one that runs has the .tmp file
\* to itself, and nothing is written to what has its final name or is read.
Published(id, i) ==
  stored[id] = i \/ \E c \in Conns : Reading(c) /\ h[c].id = id /\ h[c].ino = i

Alone(id) ==
  /\ \A c, d \in Writers(id) : c = d
  /\ \A c \in Writers(id) : h[c].ino = tmp[id] /\ data[h[c].ino] = h[c].buf
  /\ \A i \in Inodes : Published(id, i) => i # tmp[id] /\ data[i] \in Contents /\ Hash[data[i]] = id
  /\ \A c \in Conns :
       h[c].pc = "send" /\ h[c].id = id =>
         LET s == data[h[c].ino]
         IN  Len(s) = Len(h[c].buf) + h[c].left /\ h[c].buf = SubSeq(s, 1, Len(h[c].buf))

\* Uploads that all were whole so far: for a file that has a name or is still
\* written to, a block is what it must be or a writer will still come to it,
\* unless a writer that cannot end whole is at work on it.
WritersOf(id, i) == {c \in Writers(id) : h[c].ino = i}

Prefix(t, s) == Len(t) <= Len(s) /\ \A k \in 1 .. Len(t) : t[k] = s[k]

InOrder(id, i, s) ==
  \/ \E c \in WritersOf(id, i) : ~ Prefix(h[c].buf, s)
  \/ /\ Len(data[i]) <= Len(s)
     /\ \A p \in 1 .. Len(s) :
          \/ p <= Len(data[i]) /\ data[i][p] = s[p]
          \/ \E c \in WritersOf(id, i) : Len(h[c].buf) < p

Whole(id) ==
  \A i \in Inodes : \A s \in Contents :
    Hash[s] = id /\ (tmp[id] = i \/ stored[id] = i \/ WritersOf(id, i) # {}) => InOrder(id, i, s)

ChunkInv ==
  /\ ServerTypeOK /\ PointsOK /\ Uploading /\ OneChunk
  /\ \A id \in Ids : stored[id] # NoFile => \E s \in Contents : Hash[s] = id
  /\ \A id \in Ids \ overlapped : Alone(id)
  /\ \A id \in Ids \ broken : Whole(id)

=============================================================================
