---------------------------- MODULE MCMetaServer ----------------------------
(* The metadata server on small instances: records of one size, of which one *)
(* or two fit into a segment.                                                *)
EXTENDS MetaServer

CONSTANTS h1, h2, m1, m2

MCData == [name : Names, meta : Metas, del : BOOLEAN]

\* Adds only.
MCAdds == [name : Names, meta : Metas, del : {FALSE}]

MCSize == [d \in Data |-> 1]

MCLength == [r \in FileRec |-> IF r.meta = m1 THEN 2 ELSE 1]
=============================================================================
