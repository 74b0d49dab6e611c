------------------------------ MODULE MCClient ------------------------------
(* Calls of SendFile and ReadFile on one name, for files of two chunks.      *)
EXTENDS Client, SequencesExt, TLC

CONSTANTS c1, c2, i1, i2, i3, i4, s1, r1, n1

MCBlocks == 0 .. 3

MCFiles == {<<1, 1, 2>>}

\* The chunks of the files, and what one has of them on the way.
MCContents == {<< >>, <<1>>, <<1, 1>>, <<2>>}

\* An injective digest: the content as a number to the base 4.
MCHash == [s \in Contents |-> FoldLeft(LAMBDA n, b : 4 * n + b + 1, 0, s)]

MCIds == {MCHash[s] : s \in Contents}
=============================================================================
