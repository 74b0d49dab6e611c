--------------------------- MODULE MCChunkServer ---------------------------
(* The chunk server with a few connections: uploads of chunks that are       *)
(* whole, that end after any token, have another content than their id says  *)
(* or something in it that is no content, reads, and the other messages.     *)
EXTENDS ChunkServer, SequencesExt, TLC

CONSTANTS c1, c2, c3, i1, i2, i3, i4

MCBlocks == 0 .. 3

MCContents == {<< >>, <<1>>, <<1, 2>>, <<1, 0>>, <<1, Foreign>>}

\* An injective digest: the content as a number to the base 5.
MCHash == [s \in Contents |-> FoldLeft(LAMBDA n, b : 5 * n + b + 1, 0, s)]

MCIds == {MCHash[s] : s \in Contents}

Upload(id, s) == Encode("write", Len(s) + 1, <<Metadata(id)>> \o AsData(s)).out

\* Uploads of <<1, 2>>: whole, with other content, or broken off; and one whose
\* header announces more than its payload has, so that it takes in the next one.
MCUploads ==
  {[in |-> SubSeq(Upload(MCHash[<<1, 2>>], s), 1, n), cut |-> x] :
     s \in {<<1, 2>>, <<1, 0>>}, n \in 0 .. 4, x \in {"eof", "reset"}}
    \cup {[in |-> SubSeq(Upload(MCHash[<<1, 2>>], <<1, 2>>), 1, 3) \o <<Header("ping", 0)>>,
           cut |-> "eof"]}

MCReads == {[in |-> Encode("read", 1, <<Key(MCHash[<<1, 2>>])>>).out, cut |-> "eof"]}

MCOthers ==
  {[in |-> m, cut |-> "eof"] :
     m \in {<<Header("ping", 1), Text>>, <<Header("other", 1), Text>>, <<Header("ping", 0)>>,
            <<Header("ping", 1)>>}}
    \cup {[in |-> <<Header("ping", 1)>>, cut |-> "reset"]}

MCRequests == MCUploads \cup MCReads \cup MCOthers

\* The choice of an inode does not depend on connections.
Symmetry == Permutations(Conns)
=============================================================================
