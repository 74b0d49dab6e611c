---------------------------- MODULE TCPTransport ----------------------------
(***************************************************************************)
(* TCPTransport of internal/transport: the goroutines of a server, which   *)
(* accept connections, hand them over an unbuffered channel to the loop    *)
(* that starts a handler for each, and Close with its wait group and       *)
(* timeout.  A handler is the loop of ChunkHandler or MetaServerHandler: it *)
(* answers a ping and ends when the client closes the connection.          *)
(***************************************************************************)
EXTENDS Naturals, Sequences, FiniteSets

CONSTANTS Conns,      \* connections
          NoConn,
          MaxFaults   \* bound on errors of sockets

ASSUME TransportAssumption == NoConn \notin Conns /\ MaxFaults \in Nat

VARIABLES
  \* sockets
  cl,         \* cl[c]: the client's end, "open" or "closed"
  sv,         \* sv[c]: the server's end, "backlog", "open" or "closed"
  msg,        \* msg[c]: what is on its way, "none", "ping" or "pong"
  backlog,    \* connections that the listener has and Accept has not returned
  listening,
  faults,
  \* TCPTransport
  shutdown,   \* the channel shutdown is closed
  acc,        \* acceptConnections: where it is and the connection it has
  loop,       \* handleConnections
  handlers,   \* connections with a handler goroutine
  wg,         \* the counter of the WaitGroup
  closer      \* the call of Close

socketVars == <<cl, sv, msg, backlog, listening, faults>>
serverVars == <<shutdown, acc, loop, handlers, wg, closer>>

At(pc, c) == [pc |-> pc, conn |-> c]

TransportTypeOK ==
  /\ cl \in [Conns -> {"open", "closed"}]
  /\ sv \in [Conns -> {"backlog", "open", "closed"}]
  /\ msg \in [Conns -> {"none", "ping", "pong"}]
  /\ backlog \in Seq(Conns) /\ listening \in BOOLEAN /\ faults \in 0 .. MaxFaults
  /\ shutdown \in BOOLEAN
  /\ acc.pc \in {"none", "check", "accept", "handoff", "ended"}
  /\ loop.pc \in {"none", "select", "spawn", "ended"}
  /\ {acc.conn, loop.conn} \subseteq Conns \cup {NoConn}
  /\ handlers \subseteq Conns /\ wg \in Nat
  /\ closer \in {"none", "listener", "waiting", "done", "timeout"}

TransportInit ==
  /\ cl = [c \in Conns |-> "closed"]
  /\ sv = [c \in Conns |-> "closed"]
  /\ msg = [c \in Conns |-> "none"]
  /\ backlog = << >>
  /\ listening = FALSE
  /\ faults = 0
  /\ shutdown = FALSE
  /\ acc = At("none", NoConn)
  /\ loop = At("none", NoConn)
  /\ handlers = {}
  /\ wg = 0
  /\ closer = "none"

Fault == faults < MaxFaults /\ faults' = faults + 1

Listen ==
  /\ acc.pc = "none"
  /\ listening' = TRUE
  /\ wg' = wg + 2
  /\ acc' = At("check", NoConn)
  /\ loop' = At("select", NoConn)
  /\ UNCHANGED <<cl, sv, msg, backlog, faults, shutdown, handlers, closer>>

----------------------------------------------------------------------------
(* acceptConnections *)

AcceptReturns == acc' = At("ended", NoConn) /\ wg' = wg - 1

AcceptChecks ==
  /\ acc.pc = "check"
  /\ IF shutdown THEN AcceptReturns ELSE acc' = At("accept", NoConn) /\ UNCHANGED wg
  /\ UNCHANGED <<socketVars, shutdown, loop, handlers, closer>>

Accept ==
  /\ acc.pc = "accept"
  /\ listening
  /\ backlog # << >>
  /\ backlog' = Tail(backlog)
  /\ sv' = [sv EXCEPT ![Head(backlog)] = "open"]
  /\ acc' = At("handoff", Head(backlog))
  /\ UNCHANGED <<cl, msg, listening, faults, shutdown, loop, handlers, wg, closer>>

\* Any error of Accept ends the loop; the listener stays open.
AcceptFails ==
  /\ acc.pc = "accept"
  /\ IF listening THEN Fault ELSE UNCHANGED faults
  /\ AcceptReturns
  /\ UNCHANGED <<cl, sv, msg, backlog, listening, shutdown, loop, handlers, closer>>

\* The send and the receive on the channel connections.
Handoff ==
  /\ acc.pc = "handoff"
  /\ loop.pc = "select"
  /\ acc' = At("check", NoConn)
  /\ loop' = At("spawn", acc.conn)
  /\ UNCHANGED <<socketVars, shutdown, handlers, wg, closer>>

\* Mutant: the connection that nobody takes is not closed.
HandoffShutdown_NoClose ==
  /\ acc.pc = "handoff"
  /\ shutdown
  /\ AcceptReturns
  /\ UNCHANGED <<socketVars, shutdown, loop, handlers, closer>>

\* Mutant: the send does not look at shutdown.
HandoffShutdown_Never == FALSE /\ UNCHANGED <<socketVars, serverVars>>

HandoffShutdown ==
  /\ acc.pc = "handoff"
  /\ shutdown
  /\ sv' = [sv EXCEPT ![acc.conn] = "closed"]
  /\ AcceptReturns
  /\ UNCHANGED <<cl, msg, backlog, listening, faults, shutdown, loop, handlers, closer>>

----------------------------------------------------------------------------
(* handleConnections *)

LoopShutdown ==
  /\ loop.pc = "select"
  /\ shutdown
  /\ loop' = At("ended", NoConn)
  /\ wg' = wg - 1
  /\ UNCHANGED <<socketVars, shutdown, acc, handlers, closer>>

\* Mutant: the handler is not counted.
Spawned_NotCounted == wg

Spawned == wg + 1

Spawn ==
  /\ loop.pc = "spawn"
  /\ wg' = Spawned
  /\ handlers' = handlers \cup {loop.conn}
  /\ loop' = At("select", NoConn)
  /\ UNCHANGED <<socketVars, shutdown, acc, closer>>

HandlePing(c) ==
  /\ c \in handlers
  /\ msg[c] = "ping"
  /\ cl[c] = "open"
  /\ msg' = [msg EXCEPT ![c] = "pong"]
  /\ UNCHANGED <<cl, sv, backlog, listening, faults, serverVars>>

\* Handle returns at the end of the connection or with an error.
HandlerEnds(c) ==
  /\ c \in handlers
  /\ IF cl[c] = "closed" THEN UNCHANGED faults ELSE Fault
  /\ sv' = [sv EXCEPT ![c] = "closed"]
  /\ handlers' = handlers \ {c}
  /\ wg' = wg - 1
  /\ UNCHANGED <<cl, msg, backlog, listening, shutdown, acc, loop, closer>>

----------------------------------------------------------------------------
(* Close *)

CloseShutdown ==
  /\ closer = "none"
  /\ acc.pc # "none"
  /\ shutdown' = TRUE
  /\ closer' = "listener"
  /\ UNCHANGED <<socketVars, acc, loop, handlers, wg>>

\* The listener takes the connections with it that nobody accepted.
CloseListener ==
  /\ closer = "listener"
  /\ listening' = FALSE
  /\ sv' = [c \in Conns |-> IF sv[c] = "backlog" THEN "closed" ELSE sv[c]]
  /\ backlog' = << >>
  /\ closer' = "waiting"
  /\ UNCHANGED <<cl, msg, faults, shutdown, acc, loop, handlers, wg>>

CloseDone ==
  /\ closer = "waiting"
  /\ wg = 0
  /\ closer' = "done"
  /\ UNCHANGED <<socketVars, shutdown, acc, loop, handlers, wg>>

CloseTimeout ==
  /\ closer = "waiting"
  /\ closer' = "timeout"
  /\ UNCHANGED <<socketVars, shutdown, acc, loop, handlers, wg>>

AcceptStep ==
  AcceptChecks \/ Accept \/ (~ listening /\ AcceptFails) \/ Handoff \/ HandoffShutdown
LoopStep == LoopShutdown \/ Spawn
HandlerStep(c) == HandlePing(c) \/ (cl[c] = "closed" /\ HandlerEnds(c))
CloseStep == CloseListener \/ CloseDone \/ CloseTimeout

TransportNext ==
  \/ Listen
  \/ AcceptStep \/ AcceptFails
  \/ LoopStep
  \/ \E c \in Conns : HandlerStep(c) \/ HandlerEnds(c)
  \/ CloseShutdown \/ CloseStep

----------------------------------------------------------------------------
(* Properties *)

\* An accepted connection is always in somebody's hands, who will serve or close
\* it: the accepting goroutine, the loop behind the channel or a handler, also
\* when shutdown is closed while the connection is passed on
\* (tcp_transport.go:103, :121).
AcceptedServed ==
  \A c \in Conns :
    sv[c] = "open" => acc.conn = c \/ loop.conn = c \/ c \in handlers

\* When Close returns before its timeout, nothing of the server is left: both
\* loops and all handlers have ended, no connection is open, none can come.
CloseMeansQuiet ==
  closer = "done" =>
    /\ acc.pc = "ended" /\ loop.pc = "ended" /\ handlers = {}
    /\ \A c \in Conns : sv[c] \notin {"backlog", "open"}

\* A goroutine of acceptConnections or handleConnections that has not returned.
Runs(l) == IF l.pc \in {"none", "ended"} THEN 0 ELSE 1

\* The wait group counts the goroutines that run.  A connection is open on the
\* server's side as long as one goroutine has it, and waits for Accept only while
\* there is a listener; the closer has waited for all goroutines.
ServerInv ==
  /\ TransportTypeOK
  /\ \A l \in {acc, loop} : l = At(l.pc, l.conn)
  /\ acc.conn # NoConn <=> acc.pc = "handoff"
  /\ loop.conn # NoConn <=> loop.pc = "spawn"
  /\ acc.pc = "none" <=> loop.pc = "none"
  /\ closer # "none" => acc.pc # "none"
  /\ IsFiniteSet(handlers) /\ wg = Runs(acc) + Runs(loop) + Cardinality(handlers)
  /\ acc.conn # NoConn => acc.conn # loop.conn
  /\ acc.conn \notin handlers /\ loop.conn \notin handlers
  /\ \A c \in Conns : sv[c] = "open" <=> acc.conn = c \/ loop.conn = c \/ c \in handlers
  /\ \A i, k \in 1 .. Len(backlog) : backlog[i] = backlog[k] => i = k
  /\ \A i \in 1 .. Len(backlog) : sv[backlog[i]] = "backlog"
  /\ closer \in {"waiting", "done", "timeout"} =>
       ~ listening /\ backlog = << >> /\ \A c \in Conns : sv[c] # "backlog"
  /\ closer = "done" => acc.pc = "ended" /\ loop.pc = "ended" /\ handlers = {}

\* After Close both loops end, whatever they were doing when it was called.
LoopsEnd == <>[](shutdown => acc.pc = "ended" /\ loop.pc = "ended")

=============================================================================
