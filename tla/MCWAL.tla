-------------------------------- MODULE MCWAL -------------------------------
(* The WAL on a small instance: a record of size small leaves room in a      *)
(* segment, one of size big fills it alone.                                  *)
EXTENDS WAL, TLC

CONSTANTS c1, c2, small, big

MCSize == (small :> 1) @@ (big :> 3)

MCSizeSmall == small :> 1

Symmetry == Permutations({c1, c2})
=============================================================================
