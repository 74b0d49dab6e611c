------------------------------ MODULE Protocol ------------------------------
(***************************************************************************)
(* MessageTransferProtocol of internal/protocol.  What goes over a         *)
(* connection is a sequence of tokens: the header of a message and the     *)
(* parts of its payload (a length-prefixed gob metadata, a chunk id, a     *)
(* block of a chunk).  Lengths count tokens.  A token that is no header    *)
(* does not begin with the magic bytes.                                    *)
(***************************************************************************)
EXTENDS Naturals, Sequences

CONSTANTS Blocks,          \* pieces of file content that one read or write moves
          Ids,             \* chunk ids
          MaxPayloadLen    \* of protocol.go, in tokens

ASSUME PayloadAssumption == MaxPayloadLen \in Nat

Types == {"write", "read", "ping", "other", "response"}

Header(type, len) == [tok |-> "header", type |-> type, len |-> len]
Metadata(id) == [tok |-> "metadata", id |-> id]
Key(id) == [tok |-> "key", id |-> id]
Data(b) == [tok |-> "data", block |-> b]
Text == [tok |-> "text"]

Tokens ==
  [tok : {"header"}, type : Types, len : Nat]
    \cup [tok : {"metadata", "key"}, id : Ids]
    \cup [tok : {"data"}, block : Blocks]
    \cup {Text}

\* A chunk as data tokens.
AsData(s) == [i \in DOMAIN s |-> Data(s[i])]

\* How much CopyN takes of a reader.
Taken(len, payload) == IF Len(payload) < len THEN Len(payload) ELSE len

\* Mutant: a payload that ends too early is no error.
Encode_Short(type, len, payload) ==
  IF len > MaxPayloadLen
  THEN [out |-> << >>, rest |-> payload, ok |-> FALSE]
  ELSE [out |-> <<Header(type, len)>> \o SubSeq(payload, 1, Taken(len, payload)),
        rest |-> SubSeq(payload, Taken(len, payload) + 1, Len(payload)),
        ok |-> TRUE]

\* What Encode writes for a message of the given length, what it leaves of the
\* payload reader, and whether CopyN found enough to copy.
Encode(type, len, payload) ==
  IF len > MaxPayloadLen
  THEN [out |-> << >>, rest |-> payload, ok |-> FALSE]
  ELSE [out |-> <<Header(type, len)>> \o SubSeq(payload, 1, Taken(len, payload)),
        rest |-> SubSeq(payload, Taken(len, payload) + 1, Len(payload)),
        ok |-> Len(payload) >= len]

\* Decode accepts the next token of a stream as a header.
Decodes(stream) ==
  /\ stream # << >>
  /\ Head(stream).tok = "header"
  /\ Head(stream).len <= MaxPayloadLen

=============================================================================
