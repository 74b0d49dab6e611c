------------------------------ MODULE MCTCPPool ------------------------------
(* A pool of one connection and two users, connected to one server.           *)
EXTENDS TCPPool

CONSTANTS c1, c2, g1, x1, x2
=============================================================================
