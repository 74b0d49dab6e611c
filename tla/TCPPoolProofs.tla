--------------------------- MODULE TCPPoolProofs ---------------------------
(***************************************************************************)
(* ConnInv of module TCPPool is an inductive invariant, hence a connection *)
(* has one owner on each side as long as it is open there, and nothing is  *)
(* left of a server whose Close has returned before its timeout.           *)
(***************************************************************************)
EXTENDS TCPPool, FiniteSetTheorems, TLAPS

Goroutine(points) == [pc : points, conn : Conns \cup {NoConn}]

\* Accepting and handling goroutines as records.
LEMMA ServerTypes ==
  ASSUME ServerInv
  PROVE  /\ acc \in Goroutine({"none", "check", "accept", "handoff", "ended"})
         /\ loop \in Goroutine({"none", "select", "spawn", "ended"})
         /\ Runs(acc) \in 0 .. 1 /\ Runs(loop) \in 0 .. 1
         /\ Cardinality(handlers) \in Nat
<1>1. acc = At(acc.pc, acc.conn) /\ loop = At(loop.pc, loop.conn)
  BY DEF ServerInv
<1>2. acc.pc \in {"none", "check", "accept", "handoff", "ended"}
      /\ loop.pc \in {"none", "select", "spawn", "ended"}
      /\ acc.conn \in Conns \cup {NoConn} /\ loop.conn \in Conns \cup {NoConn}
  BY DEF ServerInv, TransportTypeOK
<1>3. Cardinality(handlers) \in Nat
  BY FS_CardinalityType DEF ServerInv
<1> QED BY <1>1, <1>2, <1>3 DEF At, Goroutine, Runs

\* What At makes.
LEMMA AtParts ==
  ASSUME NEW p, NEW c
  PROVE  At(p, c).pc = p /\ At(p, c).conn = c /\ At(p, c) = At(At(p, c).pc, At(p, c).conn)
BY DEF At

----------------------------------------------------------------------------
\* The listener is opened and the two loops are started.
LEMMA ListenKeeps ==
  ASSUME ServerInv, Listen
  PROVE  ServerInv'
<1>1. /\ acc' = At("check", NoConn) /\ loop' = At("select", NoConn)
      /\ acc'.pc = "check" /\ acc'.conn = NoConn /\ loop'.pc = "select" /\ loop'.conn = NoConn
      /\ Runs(acc)' = 1 /\ Runs(loop)' = 1
      /\ \A l \in {acc', loop'} : l = At(l.pc, l.conn)
  BY DEF Listen, At, Runs
<1>2. /\ acc.pc = "none" /\ loop.pc = "none" /\ acc.conn = NoConn /\ loop.conn = NoConn
      /\ closer = "none" /\ Runs(acc) = 0 /\ Runs(loop) = 0
  BY DEF ServerInv, Listen, Runs
<1>3. /\ UNCHANGED <<cl, sv, msg, backlog, faults, shutdown, handlers, closer>>
      /\ listening' = TRUE /\ wg' = wg + 2
  BY DEF Listen
<1>4. TransportTypeOK'
  BY <1>1, <1>3 DEF ServerInv, TransportTypeOK
<1>5. wg' = Runs(acc)' + Runs(loop)' + Cardinality(handlers)'
  BY <1>1, <1>2, <1>3, ServerTypes DEF ServerInv
<1>6. \A c \in Conns : sv'[c] = "open" <=> acc'.conn = c \/ loop'.conn = c \/ c \in handlers'
  BY <1>1, <1>2, <1>3 DEF ServerInv
<1> QED BY <1>1, <1>2, <1>3, <1>4, <1>5, <1>6 DEF ServerInv

\* acceptConnections returns, with no connection in its hands.
LEMMA AcceptReturnsKeeps ==
  ASSUME ServerInv, AcceptReturns, acc.pc \in {"check", "accept"}, faults' \in 0 .. MaxFaults,
         UNCHANGED <<cl, sv, msg, backlog, listening, shutdown, loop, handlers, closer>>
  PROVE  ServerInv'
<1>1. /\ acc' = At("ended", NoConn) /\ acc'.pc = "ended" /\ acc'.conn = NoConn
      /\ Runs(acc)' = 0 /\ Runs(loop)' = Runs(loop) /\ acc' = At(acc'.pc, acc'.conn)
  BY DEF AcceptReturns, At, Runs
<1>2. acc.conn = NoConn /\ Runs(acc) = 1 /\ loop.pc # "none"
  BY DEF ServerInv, Runs
<1>3. wg' = Runs(acc)' + Runs(loop)' + Cardinality(handlers)' /\ wg' \in Nat
  BY <1>1, <1>2, ServerTypes DEF ServerInv, AcceptReturns
<1>4. TransportTypeOK'
  BY <1>1, <1>3 DEF ServerInv, TransportTypeOK
<1>5. \A c \in Conns : sv'[c] = "open" <=> acc'.conn = c \/ loop'.conn = c \/ c \in handlers'
  BY <1>1, <1>2 DEF ServerInv
<1> QED BY <1>1, <1>2, <1>3, <1>4, <1>5 DEF ServerInv

\* acceptConnections: the check of shutdown, and an error of Accept.
LEMMA AcceptLoopKeeps ==
  ASSUME ServerInv, AcceptChecks \/ AcceptFails
  PROVE  ServerInv'
<1>1. CASE AcceptChecks /\ shutdown
  BY <1>1, AcceptReturnsKeeps DEF AcceptChecks, socketVars, ServerInv, TransportTypeOK
<1>2. CASE AcceptFails
  <2>1. faults' \in 0 .. MaxFaults
    BY <1>2, TransportAssumption DEF AcceptFails, Fault, ServerInv, TransportTypeOK
  <2> QED BY <1>2, <2>1, AcceptReturnsKeeps DEF AcceptFails
<1>3. CASE AcceptChecks /\ ~ shutdown
  <2>1. /\ acc' = At("accept", NoConn) /\ acc'.pc = "accept" /\ acc'.conn = NoConn
        /\ acc' = At(acc'.pc, acc'.conn) /\ Runs(acc)' = 1 /\ Runs(loop)' = Runs(loop)
    BY <1>3 DEF AcceptChecks, At, Runs
  <2>2. /\ acc.pc = "check" /\ acc.conn = NoConn /\ Runs(acc) = 1 /\ loop.pc # "none"
        /\ closer # "done"
    BY <1>3 DEF AcceptChecks, ServerInv, Runs
  <2>3. UNCHANGED <<cl, sv, msg, backlog, listening, faults, shutdown, loop, handlers, wg,
                    closer>>
    BY <1>3 DEF AcceptChecks, socketVars
  <2>4. TransportTypeOK'
    BY <2>1, <2>3 DEF ServerInv, TransportTypeOK
  <2> QED BY <2>1, <2>2, <2>3, <2>4 DEF ServerInv
<1> QED BY <1>1, <1>2, <1>3

\* The oldest connection of the listener is accepted.
LEMMA AcceptKeeps ==
  ASSUME ServerInv, Accept
  PROVE  ServerInv'
<1>1. /\ backlog \in Seq(Conns) /\ backlog # << >> /\ Len(backlog) \in Nat \ {0}
      /\ sv \in [Conns -> {"backlog", "open", "closed"}]
  BY DEF ServerInv, TransportTypeOK, Accept
<1>2. PICK c \in Conns : c = Head(backlog)
  BY <1>1
<1>3. /\ c = backlog[1] /\ backlog' \in Seq(Conns) /\ Len(backlog') = Len(backlog) - 1
      /\ \A i \in 1 .. Len(backlog') : i + 1 \in 1 .. Len(backlog) /\ backlog'[i] = backlog[i + 1]
      /\ 1 \in 1 .. Len(backlog)
  BY <1>1, <1>2 DEF Accept
<1>4. /\ acc' = At("handoff", c) /\ acc'.pc = "handoff" /\ acc'.conn = c
      /\ acc' = At(acc'.pc, acc'.conn) /\ Runs(acc)' = 1 /\ Runs(loop)' = Runs(loop)
  BY <1>2 DEF Accept, At, Runs
<1>5. /\ acc.pc = "accept" /\ listening /\ sv' = [sv EXCEPT ![c] = "open"]
      /\ UNCHANGED <<cl, msg, listening, faults, shutdown, loop, handlers, wg, closer>>
  BY <1>2 DEF Accept
<1>6. acc.conn = NoConn /\ Runs(acc) = 1 /\ loop.pc # "none" /\ sv[c] = "backlog"
      /\ closer \notin {"waiting", "done", "timeout"}
  BY <1>3, <1>5 DEF ServerInv, Runs
<1>7. c # loop.conn /\ c \notin handlers /\ c # NoConn
  BY <1>6, TransportAssumption DEF ServerInv
<1>8. TransportTypeOK'
  BY <1>1, <1>3, <1>4, <1>5 DEF ServerInv, TransportTypeOK
<1>9. \A d \in Conns : sv'[d] = "open" <=> acc'.conn = d \/ loop'.conn = d \/ d \in handlers'
  <2>1. \A d \in Conns : sv'[d] = "open" <=> d = c \/ sv[d] = "open"
    BY <1>1, <1>5
  <2> QED BY <1>4, <1>5, <1>6, <2>1, TransportAssumption DEF ServerInv
<1>10. \A i, k \in 1 .. Len(backlog') : backlog'[i] = backlog'[k] => i = k
  <2> SUFFICES ASSUME NEW i \in 1 .. Len(backlog'), NEW k \in 1 .. Len(backlog'),
                      backlog'[i] = backlog'[k]
               PROVE  i = k
    OBVIOUS
  <2>1. /\ i + 1 \in 1 .. Len(backlog) /\ k + 1 \in 1 .. Len(backlog)
        /\ backlog[i + 1] = backlog[k + 1]
    BY <1>3
  <2>2. i + 1 = k + 1
    BY <2>1 DEF ServerInv
  <2> QED BY <2>2
<1>11. \A i \in 1 .. Len(backlog') : sv'[backlog'[i]] = "backlog"
  <2> SUFFICES ASSUME NEW i \in 1 .. Len(backlog')
               PROVE  sv'[backlog'[i]] = "backlog"
    OBVIOUS
  <2>1. backlog'[i] = backlog[i + 1] /\ i + 1 \in 1 .. Len(backlog) /\ i + 1 # 1
    BY <1>3
  <2>2. backlog[i + 1] # c /\ backlog[i + 1] \in Conns /\ sv[backlog[i + 1]] = "backlog"
    BY <1>1, <1>3, <2>1 DEF ServerInv
  <2> QED BY <1>1, <1>5, <2>1, <2>2
<1>12. wg' = Runs(acc)' + Runs(loop)' + Cardinality(handlers)'
  BY <1>4, <1>5, <1>6 DEF ServerInv
<1> QED BY <1>4, <1>5, <1>6, <1>7, <1>8, <1>9, <1>10, <1>11, <1>12 DEF ServerInv

\* The accepted connection passes to the loop behind the channel.
LEMMA HandoffKeeps ==
  ASSUME ServerInv, Handoff
  PROVE  ServerInv'
<1>1. PICK c \in Conns : c = acc.conn
  BY DEF ServerInv, TransportTypeOK, Handoff
<1>2. /\ acc' = At("check", NoConn) /\ acc'.pc = "check" /\ acc'.conn = NoConn
      /\ loop' = At("spawn", c) /\ loop'.pc = "spawn" /\ loop'.conn = c
      /\ \A l \in {acc', loop'} : l = At(l.pc, l.conn)
      /\ Runs(acc)' = 1 /\ Runs(loop)' = 1
  BY <1>1 DEF Handoff, At, Runs
<1>3. /\ acc.pc = "handoff" /\ loop.pc = "select" /\ loop.conn = NoConn
      /\ Runs(acc) = 1 /\ Runs(loop) = 1 /\ c # NoConn /\ c \notin handlers /\ closer # "done"
  BY <1>1 DEF Handoff, ServerInv, Runs
<1>4. UNCHANGED <<cl, sv, msg, backlog, listening, faults, shutdown, handlers, wg, closer>>
  BY DEF Handoff, socketVars
<1>5. TransportTypeOK'
  BY <1>2, <1>4 DEF ServerInv, TransportTypeOK
<1>6. \A d \in Conns : sv'[d] = "open" <=> acc'.conn = d \/ loop'.conn = d \/ d \in handlers'
  BY <1>1, <1>2, <1>3, <1>4, TransportAssumption DEF ServerInv
<1> QED BY <1>2, <1>3, <1>4, <1>5, <1>6, TransportAssumption DEF ServerInv

\* At the shutdown the accepted connection is closed and acceptConnections returns.
LEMMA HandoffShutdownKeeps ==
  ASSUME ServerInv, HandoffShutdown
  PROVE  ServerInv'
<1>1. PICK c \in Conns : c = acc.conn
  BY DEF ServerInv, TransportTypeOK, HandoffShutdown
<1>2. /\ acc' = At("ended", NoConn) /\ acc'.pc = "ended" /\ acc'.conn = NoConn
      /\ acc' = At(acc'.pc, acc'.conn) /\ Runs(acc)' = 0 /\ Runs(loop)' = Runs(loop)
  BY DEF HandoffShutdown, AcceptReturns, At, Runs
<1>3. /\ acc.pc = "handoff" /\ Runs(acc) = 1 /\ loop.pc # "none"
      /\ c # NoConn /\ c \notin handlers /\ c # loop.conn /\ closer # "done"
  BY <1>1 DEF HandoffShutdown, ServerInv, Runs
<1>4. /\ UNCHANGED <<cl, msg, backlog, listening, faults, shutdown, loop, handlers, closer>>
      /\ wg' = wg - 1 /\ sv' = [sv EXCEPT ![c] = "closed"]
      /\ sv \in [Conns -> {"backlog", "open", "closed"}]
  BY <1>1 DEF HandoffShutdown, AcceptReturns, ServerInv, TransportTypeOK
<1>5. wg' = Runs(acc)' + Runs(loop)' + Cardinality(handlers)' /\ wg' \in Nat
  BY <1>2, <1>3, <1>4, ServerTypes DEF ServerInv
<1>6. TransportTypeOK'
  BY <1>2, <1>4, <1>5 DEF ServerInv, TransportTypeOK
<1>7. sv'[c] = "closed" /\ \A d \in Conns \ {c} : sv'[d] = sv[d]
  BY <1>4
<1>8. \A d \in Conns : sv'[d] = "open" <=> acc'.conn = d \/ loop'.conn = d \/ d \in handlers'
  BY <1>1, <1>2, <1>3, <1>4, <1>7, TransportAssumption DEF ServerInv
<1>9. \A i \in 1 .. Len(backlog) : sv'[backlog[i]] = "backlog"
  <2>1. sv[c] = "open"
    BY <1>1 DEF ServerInv
  <2>2. \A i \in 1 .. Len(backlog) : backlog[i] \in Conns \ {c} /\ sv[backlog[i]] = "backlog"
    BY <2>1 DEF ServerInv, TransportTypeOK
  <2> QED BY <1>7, <2>2
<1>10. closer \in {"waiting", "done", "timeout"} =>
          ~ listening /\ backlog = << >> /\ \A d \in Conns : sv'[d] # "backlog"
  BY <1>7 DEF ServerInv
<1>11. /\ loop'.conn # NoConn <=> loop'.pc = "spawn"
       /\ loop' = At(loop'.pc, loop'.conn) /\ loop'.conn \notin handlers'
       /\ IsFiniteSet(handlers')
       /\ closer' # "none" => acc'.pc # "none"
  BY <1>2, <1>4 DEF ServerInv
<1>12. /\ acc'.conn # NoConn <=> acc'.pc = "handoff"
       /\ acc'.pc = "none" <=> loop'.pc = "none"
       /\ acc'.conn \notin handlers'
       /\ acc'.conn # NoConn => acc'.conn # loop'.conn
  BY <1>2, <1>3, <1>4, TransportAssumption DEF ServerInv, TransportTypeOK
<1>13. \A i, k \in 1 .. Len(backlog') : backlog'[i] = backlog'[k] => i = k
  BY <1>4 DEF ServerInv
<1> QED BY <1>2, <1>3, <1>4, <1>5, <1>6, <1>8, <1>9, <1>10, <1>11, <1>12, <1>13
        DEF ServerInv

----------------------------------------------------------------------------
\* handleConnections returns.
LEMMA LoopShutdownKeeps ==
  ASSUME ServerInv, LoopShutdown
  PROVE  ServerInv'
<1>1. /\ loop' = At("ended", NoConn) /\ loop'.pc = "ended" /\ loop'.conn = NoConn
      /\ loop' = At(loop'.pc, loop'.conn) /\ Runs(loop)' = 0 /\ Runs(acc)' = Runs(acc)
  BY DEF LoopShutdown, At, Runs
<1>2. /\ loop.pc = "select" /\ loop.conn = NoConn /\ Runs(loop) = 1 /\ acc.pc # "none"
      /\ closer # "done"
  BY DEF LoopShutdown, ServerInv, Runs
<1>3. /\ UNCHANGED <<cl, sv, msg, backlog, listening, faults, shutdown, acc, handlers, closer>>
      /\ wg' = wg - 1
  BY DEF LoopShutdown, socketVars
<1>4. wg' = Runs(acc)' + Runs(loop)' + Cardinality(handlers)' /\ wg' \in Nat
  BY <1>1, <1>2, <1>3, ServerTypes DEF ServerInv
<1>5. TransportTypeOK'
  BY <1>1, <1>3, <1>4 DEF ServerInv, TransportTypeOK
<1>6. \A d \in Conns : sv'[d] = "open" <=> acc'.conn = d \/ loop'.conn = d \/ d \in handlers'
  BY <1>1, <1>2, <1>3 DEF ServerInv
<1> QED BY <1>1, <1>2, <1>3, <1>4, <1>5, <1>6, TransportAssumption
        DEF ServerInv, TransportTypeOK

\* The handler of the connection in hand is counted and started.
LEMMA SpawnKeeps ==
  ASSUME ServerInv, Spawn
  PROVE  ServerInv'
<1>1. PICK c \in Conns : c = loop.conn
  BY DEF ServerInv, TransportTypeOK, Spawn
<1>2. /\ loop' = At("select", NoConn) /\ loop'.pc = "select" /\ loop'.conn = NoConn
      /\ loop' = At(loop'.pc, loop'.conn) /\ Runs(loop)' = 1 /\ Runs(acc)' = Runs(acc)
  BY DEF Spawn, At, Runs
<1>3. /\ loop.pc = "spawn" /\ Runs(loop) = 1 /\ acc.pc # "none"
      /\ c # NoConn /\ c \notin handlers /\ c # acc.conn /\ closer # "done"
  BY <1>1, TransportAssumption DEF Spawn, ServerInv, Runs
<1>4. /\ UNCHANGED <<cl, sv, msg, backlog, listening, faults, shutdown, acc, closer>>
      /\ wg' = wg + 1 /\ handlers' = handlers \cup {c}
  BY <1>1 DEF Spawn, Spawned, socketVars
<1>5. IsFiniteSet(handlers') /\ Cardinality(handlers') = Cardinality(handlers) + 1
  BY <1>3, <1>4, FS_AddElement DEF ServerInv
<1>6. wg' = Runs(acc)' + Runs(loop)' + Cardinality(handlers)' /\ wg' \in Nat
  BY <1>2, <1>3, <1>4, <1>5, ServerTypes DEF ServerInv
<1>7. TransportTypeOK'
  BY <1>2, <1>4, <1>6 DEF ServerInv, TransportTypeOK
<1>8. \A d \in Conns : sv'[d] = "open" <=> acc'.conn = d \/ loop'.conn = d \/ d \in handlers'
  BY <1>1, <1>2, <1>3, <1>4, TransportAssumption DEF ServerInv
<1>9. acc'.conn \notin handlers' /\ loop'.conn \notin handlers'
  BY <1>2, <1>3, <1>4, TransportAssumption DEF ServerInv, TransportTypeOK
<1> QED BY <1>2, <1>3, <1>4, <1>5, <1>6, <1>7, <1>8, <1>9 DEF ServerInv

\* A handler closes its connection and returns.
LEMMA HandlerEndsKeeps ==
  ASSUME ServerInv, NEW c \in Conns, HandlerEnds(c)
  PROVE  ServerInv'
<1>1. /\ c \in handlers /\ handlers' = handlers \ {c} /\ wg' = wg - 1
      /\ sv' = [sv EXCEPT ![c] = "closed"] /\ sv \in [Conns -> {"backlog", "open", "closed"}]
      /\ UNCHANGED <<cl, msg, backlog, listening, shutdown, acc, loop, closer>>
  BY DEF HandlerEnds, ServerInv, TransportTypeOK
<1>2. /\ sv[c] = "open" /\ c # acc.conn /\ c # loop.conn /\ c # NoConn /\ closer # "done"
  BY <1>1, TransportAssumption DEF ServerInv
<1>3. sv'[c] = "closed" /\ \A d \in Conns \ {c} : sv'[d] = sv[d]
  BY <1>1
<1>4. IsFiniteSet(handlers') /\ Cardinality(handlers') = Cardinality(handlers) - 1
      /\ Cardinality(handlers') \in Nat
  BY <1>1, FS_RemoveElement, FS_CardinalityType DEF ServerInv
<1>5. Runs(acc)' = Runs(acc) /\ Runs(loop)' = Runs(loop)
  BY <1>1 DEF Runs
<1>6. wg' = Runs(acc)' + Runs(loop)' + Cardinality(handlers)' /\ wg' \in Nat
  BY <1>1, <1>4, <1>5, ServerTypes DEF ServerInv
<1>7. faults' \in 0 .. MaxFaults
  BY TransportAssumption DEF HandlerEnds, Fault, ServerInv, TransportTypeOK
<1>8. TransportTypeOK'
  BY <1>1, <1>6, <1>7 DEF ServerInv, TransportTypeOK
<1>9. \A d \in Conns : sv'[d] = "open" <=> acc'.conn = d \/ loop'.conn = d \/ d \in handlers'
  BY <1>1, <1>2, <1>3 DEF ServerInv
<1>10. \A i \in 1 .. Len(backlog) : sv'[backlog[i]] = "backlog"
  <2>1. \A i \in 1 .. Len(backlog) : backlog[i] \in Conns \ {c} /\ sv[backlog[i]] = "backlog"
    BY <1>2 DEF ServerInv, TransportTypeOK
  <2> QED BY <1>3, <2>1
<1>11. closer \in {"waiting", "done", "timeout"} =>
          ~ listening /\ backlog = << >> /\ \A d \in Conns : sv'[d] # "backlog"
  BY <1>3 DEF ServerInv
<1>12. acc'.conn \notin handlers' /\ loop'.conn \notin handlers'
  BY <1>1 DEF ServerInv
<1> QED BY <1>1, <1>2, <1>4, <1>6, <1>8, <1>9, <1>10, <1>11, <1>12 DEF ServerInv

----------------------------------------------------------------------------
\* Steps that change only what the client has of its connections.
LEMMA ClientSideKeeps ==
  ASSUME ServerInv,
         cl' \in [Conns -> {"open", "closed"}], msg' \in [Conns -> {"none", "ping", "pong"}],
         faults' \in 0 .. MaxFaults, shutdown' \in BOOLEAN,
         UNCHANGED <<sv, backlog, listening, acc, loop, handlers, wg>>,
         \/ UNCHANGED closer
         \/ closer = "none" /\ acc.pc # "none" /\ closer' = "listener"
         \/ closer = "waiting" /\ closer' = "timeout"
         \/ closer = "waiting" /\ closer' = "done" /\ wg = 0
  PROVE  ServerInv'
<1>1. TransportTypeOK'
  BY DEF ServerInv, TransportTypeOK
<1>2. Runs(acc)' = Runs(acc) /\ Runs(loop)' = Runs(loop)
  BY DEF Runs
<1>3. closer' = "done" => acc.pc = "ended" /\ loop.pc = "ended" /\ handlers = {}
  <2>1. CASE UNCHANGED closer
    BY <2>1 DEF ServerInv
  <2>2. CASE closer = "waiting" /\ wg = 0
    <3>1. Runs(acc) = 0 /\ Runs(loop) = 0 /\ Cardinality(handlers) = 0
      BY <2>2, ServerTypes DEF ServerInv
    <3>2. handlers = {}
      BY <3>1, FS_EmptySet DEF ServerInv
    <3>3. acc.pc # "none" /\ loop.pc # "none"
      BY <2>2 DEF ServerInv
    <3> QED BY <3>1, <3>2, <3>3, ServerTypes DEF Runs
  <2> QED BY <2>1, <2>2
<1> QED BY <1>1, <1>2, <1>3 DEF ServerInv

\* Close begins, is done, or times out.
LEMMA CloseKeeps ==
  ASSUME ServerInv, CloseShutdown \/ CloseDone \/ CloseTimeout
  PROVE  ServerInv'
<1>1. /\ cl \in [Conns -> {"open", "closed"}] /\ msg \in [Conns -> {"none", "ping", "pong"}]
      /\ faults \in 0 .. MaxFaults /\ shutdown \in BOOLEAN
  BY DEF ServerInv, TransportTypeOK
<1>2. CASE CloseShutdown
  BY <1>1, <1>2, ClientSideKeeps DEF CloseShutdown, socketVars
<1>3. CASE CloseDone
  BY <1>1, <1>3, ClientSideKeeps DEF CloseDone, socketVars
<1>4. CASE CloseTimeout
  BY <1>1, <1>4, ClientSideKeeps DEF CloseTimeout, socketVars
<1> QED BY <1>2, <1>3, <1>4

\* Closing the listener resets the connections in its queue.
LEMMA CloseListenerKeeps ==
  ASSUME ServerInv, CloseListener
  PROVE  ServerInv'
<1>1. /\ closer = "listener" /\ listening' = FALSE /\ backlog' = << >> /\ closer' = "waiting"
      /\ sv' = [c \in Conns |-> IF sv[c] = "backlog" THEN "closed" ELSE sv[c]]
      /\ UNCHANGED <<cl, msg, faults, shutdown, acc, loop, handlers, wg>>
      /\ sv \in [Conns -> {"backlog", "open", "closed"}]
  BY DEF CloseListener, ServerInv, TransportTypeOK
<1>2. \A c \in Conns : sv'[c] # "backlog" /\ (sv'[c] = "open" <=> sv[c] = "open")
  BY <1>1
<1>3. sv' \in [Conns -> {"backlog", "open", "closed"}]
  BY <1>1
<1>4. TransportTypeOK'
  <2>1. backlog' \in Seq(Conns)
    BY <1>1
  <2> QED BY <1>1, <1>3, <2>1 DEF ServerInv, TransportTypeOK
<1>5. Runs(acc)' = Runs(acc) /\ Runs(loop)' = Runs(loop)
  BY <1>1 DEF Runs
<1> QED BY <1>1, <1>2, <1>4, <1>5 DEF ServerInv

\* A handler answers a ping.
LEMMA HandlePingKeeps ==
  ASSUME ServerInv, NEW c \in Conns, HandlePing(c)
  PROVE  ServerInv'
<1>1. msg' \in [Conns -> {"none", "ping", "pong"}]
  BY DEF HandlePing, ServerInv, TransportTypeOK
<1> QED BY <1>1, ClientSideKeeps DEF HandlePing, serverVars, ServerInv, TransportTypeOK

\* A step of the server.
LEMMA TransportKeeps ==
  ASSUME ServerInv, TransportNext
  PROVE  ServerInv'
<1>1. CASE Listen
  BY <1>1, ListenKeeps
<1>2. CASE AcceptStep \/ AcceptFails
  BY <1>2, AcceptLoopKeeps, AcceptKeeps, HandoffKeeps, HandoffShutdownKeeps DEF AcceptStep
<1>3. CASE LoopStep
  BY <1>3, LoopShutdownKeeps, SpawnKeeps DEF LoopStep
<1>4. ASSUME NEW c \in Conns, HandlerStep(c) \/ HandlerEnds(c)
      PROVE  ServerInv'
  BY <1>4, HandlePingKeeps, HandlerEndsKeeps DEF HandlerStep
<1>5. CASE CloseShutdown \/ CloseStep
  BY <1>5, CloseKeeps, CloseListenerKeeps DEF CloseStep
<1> QED BY <1>1, <1>2, <1>3, <1>4, <1>5 DEF TransportNext

----------------------------------------------------------------------------
UserPoints == {"idle", "select", "check", "dial", "held"}
CreatorPoints == {"dial", "add", "ended"}

\* Users and dialling goroutines as records.
LEMMA ClientTypes ==
  ASSUME PoolTypeOK, Points
  PROVE  /\ us \in [Users -> Goroutine(UserPoints)]
         /\ cr \in [Creators -> Goroutine(CreatorPoints)]
<1>1. \A x \in Users : At(us[x].pc, us[x].conn) \in Goroutine(UserPoints)
  BY DEF PoolTypeOK, At, Goroutine, UserPoints
<1>2. \A g \in Creators : At(cr[g].pc, cr[g].conn) \in Goroutine(CreatorPoints)
  BY DEF PoolTypeOK, At, Goroutine, CreatorPoints
<1> QED BY <1>1, <1>2 DEF Points

\* A user comes to another point.
LEMMA UserMoves ==
  ASSUME PoolTypeOK, Points, NEW x \in Users, NEW p \in UserPoints,
         NEW c \in Conns \cup {NoConn}, us' = [us EXCEPT ![x] = At(p, c)],
         c # NoConn <=> p \in {"check", "held"}
  PROVE  /\ us' \in [Users -> Goroutine(UserPoints)]
         /\ us' = [y \in Users |-> At(us'[y].pc, us'[y].conn)]
         /\ us'[x].conn = c /\ us'[x].pc = p
         /\ \A y \in Users \ {x} : us'[y] = us[y]
         /\ \A y \in Users : us'[y].conn # NoConn <=> us'[y].pc \in {"check", "held"}
         /\ \A y \in Users : us'[y].pc \in UserPoints /\ us'[y].conn \in Conns \cup {NoConn}
<1>1. us \in [Users -> Goroutine(UserPoints)]
  BY ClientTypes
<1>2. us'[x] = At(p, c) /\ \A y \in Users \ {x} : us'[y] = us[y]
  BY <1>1
<1>3. us'[x].conn = c /\ us'[x].pc = p /\ At(p, c) \in Goroutine(UserPoints)
  BY <1>2 DEF At, Goroutine
<1>4. us' \in [Users -> Goroutine(UserPoints)]
  BY <1>1, <1>3
<1>5. \A y \in Users : us'[y] = At(us'[y].pc, us'[y].conn)
  BY <1>4 DEF At, Goroutine
<1>6. us' = [y \in Users |-> At(us'[y].pc, us'[y].conn)]
  BY <1>4, <1>5
<1>7. \A y \in Users : us'[y].conn # NoConn <=> us'[y].pc \in {"check", "held"}
  BY <1>2, <1>3 DEF Points
<1>8. \A y \in Users : us'[y].pc \in UserPoints /\ us'[y].conn \in Conns \cup {NoConn}
  BY <1>4 DEF Goroutine
<1> QED BY <1>2, <1>3, <1>4, <1>6, <1>7, <1>8

\* A dialling goroutine comes to another point.
LEMMA CreatorMoves ==
  ASSUME PoolTypeOK, Points, NEW g \in Creators, NEW p \in CreatorPoints,
         NEW c \in Conns \cup {NoConn}, cr' = [cr EXCEPT ![g] = At(p, c)],
         c # NoConn <=> p = "add"
  PROVE  /\ cr' \in [Creators -> Goroutine(CreatorPoints)]
         /\ cr' = [k \in Creators |-> At(cr'[k].pc, cr'[k].conn)]
         /\ cr'[g].conn = c /\ cr'[g].pc = p
         /\ \A k \in Creators \ {g} : cr'[k] = cr[k]
         /\ \A k \in Creators : cr'[k].conn # NoConn <=> cr'[k].pc = "add"
         /\ \A k \in Creators : cr'[k].pc \in CreatorPoints /\ cr'[k].conn \in Conns \cup {NoConn}
<1>1. cr \in [Creators -> Goroutine(CreatorPoints)]
  BY ClientTypes
<1>2. cr'[g] = At(p, c) /\ \A k \in Creators \ {g} : cr'[k] = cr[k]
  BY <1>1
<1>3. cr'[g].conn = c /\ cr'[g].pc = p /\ At(p, c) \in Goroutine(CreatorPoints)
  BY <1>2 DEF At, Goroutine
<1>4. cr' \in [Creators -> Goroutine(CreatorPoints)]
  BY <1>1, <1>3
<1>5. \A k \in Creators : cr'[k] = At(cr'[k].pc, cr'[k].conn)
  BY <1>4 DEF At, Goroutine
<1>6. cr' = [k \in Creators |-> At(cr'[k].pc, cr'[k].conn)]
  BY <1>4, <1>5
<1>7. \A k \in Creators : cr'[k].conn # NoConn <=> cr'[k].pc = "add"
  BY <1>2, <1>3 DEF Points
<1>8. \A k \in Creators : cr'[k].pc \in CreatorPoints /\ cr'[k].conn \in Conns \cup {NoConn}
  BY <1>4 DEF Goroutine
<1> QED BY <1>2, <1>3, <1>4, <1>6, <1>7, <1>8

\* A step that leaves every connection with its owner.
LEMMA SameOwnersKeeps ==
  ASSUME ConnInv, ServerInv', PoolTypeOK', Points',
         \A x \in Users : us'[x].conn = us[x].conn,
         \A g \in Creators : cr'[g].conn = cr[g].conn,
         UNCHANGED <<connections, cl, leaked>>
  PROVE  ConnInv'
<1>1. \A c : Pooled(c)' <=> Pooled(c)
  BY DEF Pooled
<1>2. Owners'
  BY DEF ConnInv, Owners, Pooled
<1>3. OpenOwned'
  BY <1>1 DEF ConnInv, OpenOwned, Owned
<1> QED BY <1>2, <1>3 DEF ConnInv

\* A step of the server leaves the client's side alone.
LEMMA TransportStepKeeps ==
  ASSUME ConnInv, TransportStep
  PROVE  ConnInv'
<1>1. ServerInv'
  BY TransportKeeps DEF ConnInv, TransportStep
<1>2. UNCHANGED cl
  BY DEF TransportStep, TransportNext, Listen, AcceptStep, AcceptFails, AcceptChecks, Accept,
         Handoff, HandoffShutdown, LoopStep, LoopShutdown, Spawn, HandlerStep, HandlePing,
         HandlerEnds, CloseShutdown, CloseStep, CloseListener, CloseDone, CloseTimeout,
         socketVars
<1>3. UNCHANGED <<connections, isClosed, pool, cr, us, pclose, drained, leaked>>
  BY DEF TransportStep, poolVars
<1>4. PoolTypeOK' /\ Points'
  BY <1>1, <1>3 DEF ConnInv, ServerInv, PoolTypeOK, Points
<1> QED BY <1>1, <1>2, <1>3, <1>4, SameOwnersKeeps

\* A new connection waits for Accept.
LEMMA DialsKeeps ==
  ASSUME ServerInv, Dials
  PROVE  /\ ServerInv' /\ NewConn \in Conns /\ cl[NewConn] = "closed" /\ cl'[NewConn] = "open"
         /\ \A d \in Conns \ {NewConn} : cl'[d] = cl[d]
<1>1. NewConn \in Conns /\ Unused(NewConn)
  BY DEF Dials, NewConn
<1>2. PICK c \in Conns : c = NewConn
  BY <1>1
<1>3. /\ listening /\ cl' = [cl EXCEPT ![c] = "open"] /\ sv' = [sv EXCEPT ![c] = "backlog"]
      /\ backlog' = Append(backlog, c)
      /\ UNCHANGED <<msg, listening, faults, shutdown, acc, loop, handlers, wg, closer>>
  BY <1>2 DEF Dials, serverVars
<1>4. /\ cl \in [Conns -> {"open", "closed"}] /\ sv \in [Conns -> {"backlog", "open", "closed"}]
      /\ backlog \in Seq(Conns) /\ Len(backlog) \in Nat
      /\ cl[c] = "closed" /\ sv[c] = "closed"
  BY <1>1, <1>2 DEF ServerInv, TransportTypeOK, Unused
<1>5. sv'[c] = "backlog" /\ \A d \in Conns \ {c} : sv'[d] = sv[d]
  BY <1>3, <1>4
<1>6. /\ backlog' \in Seq(Conns) /\ Len(backlog') = Len(backlog) + 1
      /\ backlog'[Len(backlog) + 1] = c
      /\ \A i \in 1 .. Len(backlog) : backlog'[i] = backlog[i] /\ backlog[i] \in Conns
      /\ \A i \in 1 .. Len(backlog') : i \in 1 .. Len(backlog) \/ i = Len(backlog) + 1
  BY <1>3, <1>4
<1>7. TransportTypeOK'
  BY <1>3, <1>4, <1>6 DEF ServerInv, TransportTypeOK
<1>8. \A i \in 1 .. Len(backlog) : sv[backlog[i]] = "backlog" /\ backlog[i] # c
  BY <1>4 DEF ServerInv
<1>9. \A i \in 1 .. Len(backlog') : sv'[backlog'[i]] = "backlog"
  BY <1>5, <1>6, <1>8
<1>10. \A i, k \in 1 .. Len(backlog') : backlog'[i] = backlog'[k] => i = k
  BY <1>6, <1>8 DEF ServerInv
<1>11. closer \notin {"waiting", "done", "timeout"}
  BY <1>3 DEF ServerInv
<1>12. \A d \in Conns : sv'[d] = "open" <=> acc'.conn = d \/ loop'.conn = d \/ d \in handlers'
  BY <1>3, <1>4, <1>5 DEF ServerInv
<1>13. Runs(acc)' = Runs(acc) /\ Runs(loop)' = Runs(loop)
  BY <1>3 DEF Runs
<1>14. ServerInv'
  BY <1>3, <1>7, <1>9, <1>10, <1>11, <1>12, <1>13 DEF ServerInv
<1> QED BY <1>1, <1>2, <1>3, <1>4, <1>14

\* A dial fails.
LEMMA DialFailsKeeps ==
  ASSUME ServerInv, DialFails
  PROVE  ServerInv' /\ UNCHANGED cl
<1>1. faults' \in 0 .. MaxFaults
  BY TransportAssumption DEF DialFails, Fault, ServerInv, TransportTypeOK
<1> QED BY <1>1, ClientSideKeeps DEF DialFails, serverVars, ServerInv, TransportTypeOK

\* The client closes its end.
LEMMA ClosesConnKeeps ==
  ASSUME ServerInv, NEW c \in Conns, ClosesConn(c)
  PROVE  /\ ServerInv' /\ cl'[c] = "closed"
         /\ \A d \in Conns \ {c} : cl'[d] = cl[d]
<1>1. /\ cl' = [cl EXCEPT ![c] = "closed"] /\ msg' = [msg EXCEPT ![c] = "none"]
      /\ cl \in [Conns -> {"open", "closed"}] /\ msg \in [Conns -> {"none", "ping", "pong"}]
      /\ faults \in 0 .. MaxFaults /\ shutdown \in BOOLEAN
  BY DEF ClosesConn, ServerInv, TransportTypeOK
<1> QED BY <1>1, ClientSideKeeps DEF ClosesConn, serverVars

----------------------------------------------------------------------------
\* A user gives up its connection, closed or forgotten.
LEMMA UserReleasesKeeps ==
  ASSUME ConnInv, ServerInv', PoolTypeOK', Points',
         NEW x \in Users, NEW c \in Conns, us[x].conn = c, us'[x].conn = NoConn,
         \A y \in Users \ {x} : us'[y] = us[y],
         \A d \in Conns \ {c} : cl'[d] = cl[d],
         \/ cl'[c] = "closed" /\ UNCHANGED leaked
         \/ cl'[c] = cl[c] /\ leaked' = leaked \cup {c},
         UNCHANGED <<connections, cr>>
  PROVE  ConnInv'
<1>1. \A d : Pooled(d)' <=> Pooled(d)
  BY DEF Pooled
<1>2. c # NoConn /\ connections \in Seq(Conns)
  BY TransportAssumption DEF ConnInv, PoolTypeOK
<1>3. ~ Pooled(NoConn)
  BY <1>2, TransportAssumption DEF Pooled
<1>4. \A d \in Conns : Owned(d)' <=> Owned(d) /\ d # c
  <2>1. /\ ~ Pooled(c) /\ \A g \in Creators : cr[g].conn # c
        /\ \A y \in Users \ {x} : us[y].conn # c
    BY <1>2 DEF ConnInv, Owners
  <2> QED BY <1>1, <2>1, TransportAssumption DEF Owned
<1>5. Owners'
  <2>1. connections' = connections /\ cr' = cr
    OBVIOUS
  <2>2. \A y \in Users : ~ Pooled(us'[y].conn)
    BY <1>3 DEF ConnInv, Owners
  <2>3. \A y \in Users : ~ \E i \in 1 .. Len(connections) : connections[i] = us'[y].conn
    BY <2>2 DEF Pooled
  <2> QED BY <2>1, <2>3 DEF ConnInv, Owners, Pooled
<1>6. OpenOwned'
  BY <1>4 DEF ConnInv, OpenOwned
<1> QED BY <1>5, <1>6 DEF ConnInv

\* A user gets a connection that nobody has: a new one.
LEMMA UserGetsNewKeeps ==
  ASSUME ConnInv, ServerInv', PoolTypeOK', Points',
         NEW x \in Users, NEW c \in Conns, us[x].conn = NoConn, us'[x].conn = c,
         \A y \in Users \ {x} : us'[y] = us[y],
         cl[c] = "closed", cl'[c] = "open", \A d \in Conns \ {c} : cl'[d] = cl[d],
         UNCHANGED <<connections, cr, leaked>>
  PROVE  ConnInv'
<1>1. \A d : Pooled(d)' <=> Pooled(d)
  BY DEF Pooled
<1>2. ~ Owned(c) /\ c # NoConn
  BY TransportAssumption DEF ConnInv, OpenOwned
<1>3. \A d \in Conns : Owned(d)' <=> Owned(d) \/ d = c
  BY <1>1, <1>2, TransportAssumption DEF Owned
<1>4. Owners'
  <2>1. connections' = connections /\ cr' = cr
    OBVIOUS
  <2>2. \A y \in Users : ~ \E i \in 1 .. Len(connections) : connections[i] = us'[y].conn
    BY <1>2 DEF ConnInv, Owners, Owned, Pooled
  <2>3. \A y \in Users : us[y].conn # c
    BY <1>2 DEF Owned
  <2>4. \A g \in Creators : cr[g].conn # c
    BY <1>2 DEF Owned
  <2>5. \A y, z \in Users : us'[y].conn = us'[z].conn /\ us'[y].conn # NoConn => y = z
    BY <2>3 DEF ConnInv, Owners
  <2>6. \A y \in Users : \A g \in Creators : us'[y].conn = cr[g].conn => cr[g].conn = NoConn
    BY <2>4 DEF ConnInv, Owners
  <2> QED BY <2>1, <2>2, <2>5, <2>6 DEF ConnInv, Owners, Pooled
<1>5. OpenOwned'
  BY <1>2, <1>3 DEF ConnInv, OpenOwned
<1> QED BY <1>4, <1>5 DEF ConnInv

\* The same for a dialling goroutine.
LEMMA CreatorGetsNewKeeps ==
  ASSUME ConnInv, ServerInv', PoolTypeOK', Points',
         NEW g \in Creators, NEW c \in Conns, cr[g].conn = NoConn, cr'[g].conn = c,
         \A k \in Creators \ {g} : cr'[k] = cr[k],
         cl[c] = "closed", cl'[c] = "open", \A d \in Conns \ {c} : cl'[d] = cl[d],
         UNCHANGED <<connections, us, leaked>>
  PROVE  ConnInv'
<1>1. \A d : Pooled(d)' <=> Pooled(d)
  BY DEF Pooled
<1>2. ~ Owned(c) /\ c # NoConn
  BY TransportAssumption DEF ConnInv, OpenOwned
<1>3. \A d \in Conns : Owned(d)' <=> Owned(d) \/ d = c
  BY <1>1, <1>2, TransportAssumption DEF Owned
<1>4. Owners'
  <2>1. connections' = connections /\ us' = us
    OBVIOUS
  <2>2. \A k \in Creators : ~ \E i \in 1 .. Len(connections) : connections[i] = cr'[k].conn
    BY <1>2 DEF ConnInv, Owners, Owned, Pooled
  <2>3. \A k \in Creators : cr[k].conn # c
    BY <1>2 DEF Owned
  <2>4. \A y \in Users : us[y].conn # c
    BY <1>2 DEF Owned
  <2>5. \A k, l \in Creators : cr'[k].conn = cr'[l].conn /\ cr'[k].conn # NoConn => k = l
    BY <2>3 DEF ConnInv, Owners
  <2>6. \A y \in Users : \A k \in Creators : us[y].conn = cr'[k].conn => cr'[k].conn = NoConn
    BY <2>4 DEF ConnInv, Owners
  <2> QED BY <2>1, <2>2, <2>5, <2>6 DEF ConnInv, Owners, Pooled
<1>5. OpenOwned'
  BY <1>2, <1>3 DEF ConnInv, OpenOwned
<1> QED BY <1>4, <1>5 DEF ConnInv

----------------------------------------------------------------------------
\* Receiving from the channel takes one connection out of it.
LEMMA Receive ==
  ASSUME PoolTypeOK, Owners, connections # << >>, NEW c, c = Head(connections),
         connections' = Tail(connections)
  PROVE  /\ c \in Conns /\ Pooled(c)
         /\ connections' \in Seq(Conns) /\ Len(connections') <= ChanCap
         /\ \A d : Pooled(d)' <=> Pooled(d) /\ d # c
         /\ \A i, k \in 1 .. Len(connections') : connections'[i] = connections'[k] => i = k
<1>1. /\ connections \in Seq(Conns) /\ Len(connections) \in Nat \ {0} /\ c = connections[1]
      /\ connections' \in Seq(Conns) /\ Len(connections') = Len(connections) - 1
      /\ \A i \in 1 .. Len(connections') :
           i + 1 \in 1 .. Len(connections) /\ i + 1 # 1 /\ connections'[i] = connections[i + 1]
      /\ \A i \in 1 .. Len(connections) : i # 1 =>
           i - 1 \in 1 .. Len(connections') /\ connections'[i - 1] = connections[i]
      /\ 1 \in 1 .. Len(connections)
  BY DEF PoolTypeOK
<1>2. \A i, k \in 1 .. Len(connections) : connections[i] = connections[k] => i = k
  BY DEF Owners
<1>3. \A d : Pooled(d)' => Pooled(d) /\ d # c
  BY <1>1, <1>2 DEF Pooled
<1>4. \A d : Pooled(d) /\ d # c => Pooled(d)'
  <2> SUFFICES ASSUME NEW d, NEW i \in 1 .. Len(connections), connections[i] = d, d # c
               PROVE  Pooled(d)'
    BY DEF Pooled
  <2>1. i - 1 \in 1 .. Len(connections') /\ connections'[i - 1] = d
    BY <1>1
  <2> QED BY <2>1 DEF Pooled
<1>5. \A i, k \in 1 .. Len(connections') : connections'[i] = connections'[k] => i = k
  <2> SUFFICES ASSUME NEW i \in 1 .. Len(connections'), NEW k \in 1 .. Len(connections'),
                      connections'[i] = connections'[k]
               PROVE  i = k
    OBVIOUS
  <2>1. i + 1 = k + 1
    BY <1>1, <1>2
  <2> QED BY <2>1
<1>6. Len(connections') <= ChanCap
  BY <1>1, CapAssumption DEF PoolTypeOK
<1>7. c \in Conns /\ Pooled(c)
  BY <1>1 DEF Pooled
<1> QED BY <1>1, <1>3, <1>4, <1>5, <1>6, <1>7

\* Sending on the channel puts one connection into it.
LEMMA Send ==
  ASSUME PoolTypeOK, Owners, Len(connections) < ChanCap, NEW c \in Conns, ~ Pooled(c),
         connections' = Append(connections, c)
  PROVE  /\ connections' \in Seq(Conns) /\ Len(connections') <= ChanCap
         /\ \A d : Pooled(d)' <=> Pooled(d) \/ d = c
         /\ \A i, k \in 1 .. Len(connections') : connections'[i] = connections'[k] => i = k
<1>1. /\ connections' \in Seq(Conns) /\ Len(connections) \in Nat
      /\ Len(connections') = Len(connections) + 1 /\ connections'[Len(connections) + 1] = c
      /\ \A i \in 1 .. Len(connections) :
           i \in 1 .. Len(connections') /\ connections'[i] = connections[i]
      /\ \A i \in 1 .. Len(connections') : i \in 1 .. Len(connections) \/ i = Len(connections) + 1
      /\ Len(connections) + 1 \in 1 .. Len(connections')
  BY DEF PoolTypeOK
<1>2. \A i \in 1 .. Len(connections) : connections[i] # c
  BY DEF Pooled
<1>3. \A d : Pooled(d)' <=> Pooled(d) \/ d = c
  BY <1>1 DEF Pooled
<1>4. \A i, k \in 1 .. Len(connections') : connections'[i] = connections'[k] => i = k
  BY <1>1, <1>2 DEF Owners
<1>5. Len(connections') <= ChanCap
  BY <1>1, CapAssumption
<1> QED BY <1>1, <1>3, <1>4, <1>5

\* A user takes the oldest connection of the channel.
LEMMA UserTakesKeeps ==
  ASSUME ConnInv, ServerInv', PoolTypeOK', Points', connections # << >>,
         NEW x \in Users, NEW c \in Conns, c = Head(connections),
         us[x].conn = NoConn, us'[x].conn = c,
         \A y \in Users \ {x} : us'[y] = us[y],
         connections' = Tail(connections),
         UNCHANGED <<cl, cr, leaked>>
  PROVE  ConnInv'
<1>1. /\ Pooled(c)
      /\ \A d : Pooled(d)' <=> Pooled(d) /\ d # c
      /\ \A i, k \in 1 .. Len(connections') : connections'[i] = connections'[k] => i = k
  BY Receive DEF ConnInv
<1>2. /\ c # NoConn
      /\ \A y \in Users : us[y].conn # c
      /\ \A g \in Creators : cr[g].conn # c
  BY <1>1, TransportAssumption DEF ConnInv, Owners
<1>3. \A d \in Conns : Owned(d)' <=> Owned(d)
  BY <1>1, <1>2, TransportAssumption DEF Owned
<1>4. Owners'
  <2>1. \A d : (\E i \in 1 .. Len(connections') : connections'[i] = d) <=> Pooled(d) /\ d # c
    BY <1>1 DEF Pooled
  <2>2. \A y \in Users : ~ \E i \in 1 .. Len(connections') : connections'[i] = us'[y].conn
    BY <2>1 DEF ConnInv, Owners
  <2>3. \A g \in Creators : ~ \E i \in 1 .. Len(connections') : connections'[i] = cr[g].conn
    BY <2>1 DEF ConnInv, Owners
  <2>4. \A y, z \in Users : us'[y].conn = us'[z].conn /\ us'[y].conn # NoConn => y = z
    BY <1>2 DEF ConnInv, Owners
  <2>5. \A y \in Users : \A g \in Creators : us'[y].conn = cr[g].conn => cr[g].conn = NoConn
    BY <1>2 DEF ConnInv, Owners
  <2> QED BY <1>1, <2>2, <2>3, <2>4, <2>5 DEF ConnInv, Owners, Pooled
<1>5. OpenOwned'
  BY <1>3 DEF ConnInv, OpenOwned
<1> QED BY <1>4, <1>5 DEF ConnInv

\* ClosePool's goroutine takes the oldest connection and closes it.
LEMMA DrainOneKeeps ==
  ASSUME ConnInv, ServerInv', PoolTypeOK', Points', connections # << >>,
         NEW c \in Conns, c = Head(connections),
         connections' = Tail(connections),
         cl'[c] = "closed", \A d \in Conns \ {c} : cl'[d] = cl[d],
         UNCHANGED <<us, cr, leaked>>
  PROVE  ConnInv'
<1>1. /\ Pooled(c)
      /\ \A d : Pooled(d)' <=> Pooled(d) /\ d # c
      /\ \A i, k \in 1 .. Len(connections') : connections'[i] = connections'[k] => i = k
  BY Receive DEF ConnInv
<1>2. Owners'
  <2>1. \A d : (\E i \in 1 .. Len(connections') : connections'[i] = d) => Pooled(d)
    BY <1>1 DEF Pooled
  <2> QED BY <1>1, <2>1 DEF ConnInv, Owners, Pooled
<1>3. OpenOwned'
  <2>1. /\ \A y \in Users : us[y].conn # c
        /\ \A g \in Creators : cr[g].conn # c
    BY <1>1 DEF ConnInv, Owners
  <2>2. \A d \in Conns : Owned(d)' <=> Owned(d) /\ d # c
    BY <1>1, <2>1 DEF Owned
  <2> QED BY <2>2 DEF ConnInv, OpenOwned
<1> QED BY <1>2, <1>3 DEF ConnInv

\* A user puts its connection back.
LEMMA UserPutsKeeps ==
  ASSUME ConnInv, ServerInv', PoolTypeOK', Points', Len(connections) < ChanCap,
         NEW x \in Users, NEW c \in Conns, us[x].conn = c, us'[x].conn = NoConn,
         \A y \in Users \ {x} : us'[y] = us[y],
         connections' = Append(connections, c),
         UNCHANGED <<cl, cr, leaked>>
  PROVE  ConnInv'
<1>1. /\ c # NoConn /\ ~ Pooled(c) /\ ~ Pooled(NoConn)
      /\ \A y \in Users \ {x} : us[y].conn # c
      /\ \A g \in Creators : cr[g].conn # c
  BY TransportAssumption DEF ConnInv, Owners, PoolTypeOK, Pooled
<1>2. /\ \A d : Pooled(d)' <=> Pooled(d) \/ d = c
      /\ \A i, k \in 1 .. Len(connections') : connections'[i] = connections'[k] => i = k
  BY <1>1, Send DEF ConnInv
<1>3. \A d \in Conns : Owned(d)' <=> Owned(d)
  BY <1>1, <1>2, TransportAssumption DEF Owned
<1>4. Owners'
  <2>1. \A d : (\E i \in 1 .. Len(connections') : connections'[i] = d) <=> Pooled(d) \/ d = c
    BY <1>2 DEF Pooled
  <2>2. \A y \in Users : ~ \E i \in 1 .. Len(connections') : connections'[i] = us'[y].conn
    BY <1>1, <2>1 DEF ConnInv, Owners
  <2>3. \A g \in Creators : ~ \E i \in 1 .. Len(connections') : connections'[i] = cr[g].conn
    BY <1>1, <2>1 DEF ConnInv, Owners
  <2> QED BY <1>2, <2>2, <2>3 DEF ConnInv, Owners, Pooled
<1>5. OpenOwned'
  BY <1>3 DEF ConnInv, OpenOwned
<1> QED BY <1>4, <1>5 DEF ConnInv

\* A dialling goroutine adds its connection to the channel.
LEMMA CreatorPutsKeeps ==
  ASSUME ConnInv, ServerInv', PoolTypeOK', Points', Len(connections) < ChanCap,
         NEW g \in Creators, NEW c \in Conns, cr[g].conn = c, cr'[g].conn = NoConn,
         \A k \in Creators \ {g} : cr'[k] = cr[k],
         connections' = Append(connections, c),
         UNCHANGED <<cl, us, leaked>>
  PROVE  ConnInv'
<1>1. /\ c # NoConn /\ ~ Pooled(c) /\ ~ Pooled(NoConn)
      /\ \A y \in Users : us[y].conn # c
      /\ \A k \in Creators \ {g} : cr[k].conn # c
  BY TransportAssumption DEF ConnInv, Owners, PoolTypeOK, Pooled
<1>2. /\ \A d : Pooled(d)' <=> Pooled(d) \/ d = c
      /\ \A i, k \in 1 .. Len(connections') : connections'[i] = connections'[k] => i = k
  BY <1>1, Send DEF ConnInv
<1>3. \A d \in Conns : Owned(d)' <=> Owned(d)
  BY <1>1, <1>2, TransportAssumption DEF Owned
<1>4. Owners'
  <2>1. \A d : (\E i \in 1 .. Len(connections') : connections'[i] = d) <=> Pooled(d) \/ d = c
    BY <1>2 DEF Pooled
  <2>2. \A y \in Users : ~ \E i \in 1 .. Len(connections') : connections'[i] = us[y].conn
    BY <1>1, <2>1 DEF ConnInv, Owners
  <2>3. \A k \in Creators : ~ \E i \in 1 .. Len(connections') : connections'[i] = cr'[k].conn
    BY <1>1, <2>1 DEF ConnInv, Owners
  <2> QED BY <1>2, <2>2, <2>3 DEF ConnInv, Owners, Pooled
<1>5. OpenOwned'
  BY <1>3 DEF ConnInv, OpenOwned
<1> QED BY <1>4, <1>5 DEF ConnInv

----------------------------------------------------------------------------
\* The steps of a dialling goroutine.
LEMMA CreatorKeeps ==
  ASSUME ConnInv, NEW g \in Creators, CreatorStep(g)
  PROVE  ConnInv'
<1>. PoolTypeOK /\ Points /\ ServerInv /\ connections \in Seq(Conns)
     /\ Len(connections) <= ChanCap /\ pool \in {"new", "failed", "ready"}
  BY DEF ConnInv, PoolTypeOK
<1>1. CASE CreatorDials(g)
  <2>1. PICK c \in Conns : c = NewConn
    BY <1>1, DialsKeeps DEF CreatorDials
  <2>2. /\ ServerInv' /\ cl[c] = "closed" /\ cl'[c] = "open"
        /\ \A d \in Conns \ {c} : cl'[d] = cl[d]
    BY <1>1, <2>1, DialsKeeps DEF CreatorDials
  <2>3. /\ cr[g].pc = "dial" /\ cr' = [cr EXCEPT ![g] = At("add", c)] /\ c # NoConn
        /\ UNCHANGED <<connections, isClosed, pool, us, pclose, drained, leaked>>
    BY <1>1, <2>1, TransportAssumption DEF CreatorDials
  <2>4. /\ cr' = [k \in Creators |-> At(cr'[k].pc, cr'[k].conn)]
        /\ cr'[g].conn = c
        /\ \A k \in Creators \ {g} : cr'[k] = cr[k]
        /\ \A k \in Creators : cr'[k].conn # NoConn <=> cr'[k].pc = "add"
        /\ \A k \in Creators : cr'[k].pc \in CreatorPoints /\ cr'[k].conn \in Conns \cup {NoConn}
    BY <2>3, CreatorMoves DEF CreatorPoints
  <2>5. PoolTypeOK' /\ Points'
    <3>1. PoolTypeOK'
      BY <2>2, <2>3, <2>4 DEF ServerInv, PoolTypeOK, CreatorPoints
    <3>2. Points'
      BY <2>3, <2>4 DEF Points
    <3> QED BY <3>1, <3>2
  <2>6. cr[g].conn = NoConn
    BY <2>3 DEF Points
  <2> QED BY <2>2, <2>3, <2>4, <2>5, <2>6, CreatorGetsNewKeeps
<1>2. CASE CreatorFails(g)
  <2>1. ServerInv' /\ UNCHANGED cl
    BY <1>2, DialFailsKeeps DEF CreatorFails
  <2>2. /\ cr[g].pc = "dial" /\ cr' = [cr EXCEPT ![g] = At("ended", NoConn)]
        /\ pool' = "failed"
        /\ UNCHANGED <<connections, isClosed, us, pclose, drained, leaked>>
    BY <1>2 DEF CreatorFails
  <2>3. /\ cr' = [k \in Creators |-> At(cr'[k].pc, cr'[k].conn)]
        /\ cr'[g].conn = NoConn
        /\ \A k \in Creators \ {g} : cr'[k] = cr[k]
        /\ \A k \in Creators : cr'[k].conn # NoConn <=> cr'[k].pc = "add"
        /\ \A k \in Creators : cr'[k].pc \in CreatorPoints /\ cr'[k].conn \in Conns \cup {NoConn}
    BY <2>2, CreatorMoves DEF CreatorPoints
  <2>4. PoolTypeOK' /\ Points'
    <3>1. PoolTypeOK'
      BY <2>1, <2>2, <2>3 DEF ServerInv, PoolTypeOK, CreatorPoints
    <3>2. Points'
      BY <2>2, <2>3 DEF Points
    <3> QED BY <3>1, <3>2
  <2>5. \A k \in Creators : cr'[k].conn = cr[k].conn
    BY <2>2, <2>3 DEF Points
  <2> QED BY <2>1, <2>2, <2>4, <2>5, SameOwnersKeeps
<1>3. CASE CreatorAdds(g)
  <2>1. PICK c \in Conns : c = cr[g].conn
    BY <1>3 DEF CreatorAdds, PoolTypeOK, Points
  <2>2. /\ cr[g].pc = "add" /\ cr' = [cr EXCEPT ![g] = At("ended", NoConn)]
        /\ Len(connections) < ChanCap /\ connections' = Append(connections, c)
        /\ UNCHANGED <<isClosed, pool, us, pclose, drained, leaked>>
    BY <1>3, <2>1 DEF CreatorAdds
  <2>3. UNCHANGED <<socketVars, serverVars>>
    BY <1>3 DEF CreatorAdds
  <2>4. ServerInv' /\ UNCHANGED cl
    BY <2>3, ClientSideKeeps DEF socketVars, serverVars, ServerInv, TransportTypeOK
  <2>5. /\ cr' = [k \in Creators |-> At(cr'[k].pc, cr'[k].conn)]
        /\ cr'[g].conn = NoConn
        /\ \A k \in Creators \ {g} : cr'[k] = cr[k]
        /\ \A k \in Creators : cr'[k].conn # NoConn <=> cr'[k].pc = "add"
        /\ \A k \in Creators : cr'[k].pc \in CreatorPoints /\ cr'[k].conn \in Conns \cup {NoConn}
    BY <2>2, CreatorMoves DEF CreatorPoints
  <2>6. ~ Pooled(c)
    BY <2>1 DEF ConnInv, Owners
  <2>7. connections' \in Seq(Conns) /\ Len(connections') <= ChanCap
    BY <2>2, <2>6, Send DEF ConnInv
  <2>8. PoolTypeOK' /\ Points'
    <3>1. us' = us /\ isClosed' = isClosed /\ pool' = pool /\ pclose' = pclose /\ drained' = drained
          /\ leaked' = leaked
      BY <2>2
    <3>2. PoolTypeOK'
      BY <2>4, <2>5, <2>7, <3>1 DEF ServerInv, PoolTypeOK, CreatorPoints
    <3>3. Points'
      BY <2>5, <3>1 DEF Points
    <3> QED BY <3>2, <3>3
  <2> QED BY <2>1, <2>2, <2>4, <2>5, <2>8, CreatorPutsKeeps
<1> QED BY <1>1, <1>2, <1>3 DEF CreatorStep

\* A step in which one user moves and nothing else of the pool's types changes.
LEMMA UserTypes ==
  ASSUME PoolTypeOK, Points, ServerInv', NEW x \in Users, NEW p \in UserPoints,
         NEW c \in Conns \cup {NoConn}, User(x, p, c), c # NoConn <=> p \in {"check", "held"},
         connections' \in Seq(Conns), Len(connections') <= ChanCap, leaked' \subseteq Conns,
         UNCHANGED <<isClosed, pool, cr, pclose, drained>>
  PROVE  /\ PoolTypeOK' /\ Points' /\ us'[x].conn = c
         /\ \A y \in Users \ {x} : us'[y] = us[y]
<1>1. us' = [us EXCEPT ![x] = At(p, c)]
  BY DEF User
<1>2. /\ us' = [y \in Users |-> At(us'[y].pc, us'[y].conn)]
      /\ us'[x].conn = c
      /\ \A y \in Users \ {x} : us'[y] = us[y]
      /\ \A y \in Users : us'[y].conn # NoConn <=> us'[y].pc \in {"check", "held"}
      /\ \A y \in Users : us'[y].pc \in UserPoints /\ us'[y].conn \in Conns \cup {NoConn}
  BY <1>1, UserMoves, ZenonT(40)
<1>3. cr' = cr /\ isClosed' = isClosed /\ pool' = pool /\ pclose' = pclose /\ drained' = drained
  OBVIOUS
<1>4. Points'
  BY <1>2, <1>3 DEF Points
<1>5. PoolTypeOK'
  BY <1>2, <1>3 DEF ServerInv, PoolTypeOK, UserPoints
<1> QED BY <1>2, <1>4, <1>5

\* A step of the client that leaves the sockets alone.
LEMMA SocketsSame ==
  ASSUME ServerInv, UNCHANGED <<socketVars, serverVars>>
  PROVE  ServerInv' /\ UNCHANGED cl
BY ClientSideKeeps DEF socketVars, serverVars, ServerInv, TransportTypeOK

\* Get up to the receive, and the end of a Get that gets nothing.
LEMMA UserWithoutKeeps ==
  ASSUME ConnInv, NEW x \in Users, us[x].conn = NoConn, ServerInv', UNCHANGED cl,
         NEW p \in UserPoints \ {"check", "held"}, User(x, p, NoConn),
         UNCHANGED <<connections, isClosed, pool, cr, pclose, drained, leaked>>
  PROVE  ConnInv'
<1>1. /\ PoolTypeOK /\ Points /\ connections \in Seq(Conns) /\ Len(connections) <= ChanCap
      /\ leaked \subseteq Conns
  BY DEF ConnInv, PoolTypeOK
<1>2. connections' = connections /\ leaked' = leaked /\ p \in UserPoints
  OBVIOUS
<1>3. /\ PoolTypeOK' /\ Points' /\ us'[x].conn = NoConn
      /\ \A y \in Users \ {x} : us'[y] = us[y]
  BY <1>1, <1>2, UserTypes
<1>4. \A y \in Users : us'[y].conn = us[y].conn
  BY <1>3
<1>5. \A g \in Creators : cr'[g].conn = cr[g].conn
  OBVIOUS
<1> QED BY <1>3, <1>4, <1>5, SameOwnersKeeps

\* The steps of Get.
LEMMA GetKeeps ==
  ASSUME ConnInv, NEW x \in Users, Get(x) \/ GetStep(x)
  PROVE  ConnInv'
<1>. /\ PoolTypeOK /\ Points /\ ServerInv /\ connections \in Seq(Conns)
     /\ Len(connections) <= ChanCap /\ leaked \subseteq Conns
     /\ cl \in [Conns -> {"open", "closed"}] /\ msg \in [Conns -> {"none", "ping", "pong"}]
     /\ faults \in 0 .. MaxFaults /\ shutdown \in BOOLEAN
  BY DEF ConnInv, ServerInv, PoolTypeOK, TransportTypeOK
<1>1. CASE Get(x) \/ GetEmpty(x)
  <2>1. us[x].conn = NoConn
    BY <1>1 DEF Get, GetEmpty, Points
  <2>2. ServerInv' /\ UNCHANGED cl
    BY <1>1, SocketsSame DEF Get, GetEmpty
  <2>3. \E p \in UserPoints \ {"check", "held"} : User(x, p, NoConn)
    BY <1>1 DEF Get, GetEmpty, UserPoints
  <2> QED BY <1>1, <2>1, <2>2, <2>3, UserWithoutKeeps DEF Get, GetEmpty
<1>2. CASE GetReceives(x)
  <2>1. PICK c \in Conns : c = Head(connections)
    BY <1>2 DEF GetReceives
  <2>2. /\ us[x].pc = "select" /\ connections # << >> /\ User(x, "check", c)
        /\ msg' = [msg EXCEPT ![c] = "ping"] /\ connections' = Tail(connections)
        /\ UNCHANGED <<cl, sv, backlog, listening, faults, serverVars, isClosed, pool, cr,
                       pclose, drained, leaked>>
    BY <1>2, <2>1 DEF GetReceives
  <2>3. ServerInv'
    BY <2>2, ClientSideKeeps DEF serverVars
  <2>4. connections' \in Seq(Conns) /\ Len(connections') <= ChanCap
    BY <2>1, <2>2, Receive DEF ConnInv
  <2>5. us[x].conn = NoConn /\ c # NoConn /\ "check" \in UserPoints /\ leaked' \subseteq Conns
    BY <2>2, TransportAssumption DEF Points, UserPoints
  <2>6. /\ PoolTypeOK' /\ Points' /\ us'[x].conn = c
        /\ \A y \in Users \ {x} : us'[y] = us[y]
    BY <2>2, <2>3, <2>4, <2>5, UserTypes
  <2> QED BY <2>1, <2>2, <2>3, <2>5, <2>6, UserTakesKeeps
<1>3. CASE HealthCheckOk(x)
  <2>1. PICK c \in Conns : c = us[x].conn
    BY <1>3 DEF HealthCheckOk, PoolTypeOK, Points
  <2>2. /\ us[x].pc = "check" /\ User(x, "held", c) /\ msg' = [msg EXCEPT ![c] = "none"]
        /\ UNCHANGED <<cl, sv, backlog, listening, faults, serverVars, connections, isClosed,
                       pool, cr, pclose, drained, leaked>>
    BY <1>3, <2>1 DEF HealthCheckOk
  <2>3. ServerInv'
    BY <2>2, ClientSideKeeps DEF serverVars
  <2>4. /\ c # NoConn /\ "held" \in UserPoints /\ connections' = connections
        /\ leaked' = leaked
    BY <2>2, TransportAssumption DEF UserPoints
  <2>5. /\ PoolTypeOK' /\ Points' /\ us'[x].conn = c
        /\ \A y \in Users \ {x} : us'[y] = us[y]
    BY <2>2, <2>3, <2>4, UserTypes
  <2>6. /\ \A y \in Users : us'[y].conn = us[y].conn
        /\ \A g \in Creators : cr'[g].conn = cr[g].conn
    BY <2>1, <2>2, <2>5
  <2> QED BY <2>2, <2>3, <2>5, <2>6, SameOwnersKeeps
<1>4. CASE HealthCheckFails(x)
  <2>1. PICK c \in Conns : c = us[x].conn
    BY <1>4 DEF HealthCheckFails, PoolTypeOK, Points
  <2>2. /\ us[x].pc = "check" /\ ClosesConn(c) /\ User(x, "dial", NoConn)
        /\ UNCHANGED <<connections, isClosed, pool, cr, pclose, drained, leaked>>
    BY <1>4, <2>1 DEF HealthCheckFails
  <2>3. ServerInv' /\ cl'[c] = "closed" /\ \A d \in Conns \ {c} : cl'[d] = cl[d]
    BY <2>2, ClosesConnKeeps
  <2>4. "dial" \in UserPoints /\ connections' = connections /\ leaked' = leaked
    BY <2>2 DEF UserPoints
  <2>5. /\ PoolTypeOK' /\ Points' /\ us'[x].conn = NoConn
        /\ \A y \in Users \ {x} : us'[y] = us[y]
    BY <2>2, <2>3, <2>4, UserTypes
  <2> QED BY <2>1, <2>2, <2>3, <2>5, UserReleasesKeeps
<1>5. CASE GetDials(x) /\ Dials /\ User(x, "held", NewConn)
  <2>1. PICK c \in Conns : c = NewConn
    BY <1>5, DialsKeeps
  <2>2. /\ ServerInv' /\ cl[c] = "closed" /\ cl'[c] = "open"
        /\ \A d \in Conns \ {c} : cl'[d] = cl[d]
    BY <1>5, <2>1, DialsKeeps
  <2>3. /\ us[x].conn = NoConn /\ c # NoConn /\ "held" \in UserPoints /\ User(x, "held", c)
        /\ UNCHANGED <<connections, isClosed, pool, cr, pclose, drained, leaked>>
    BY <1>5, <2>1, TransportAssumption DEF GetDials, Points, UserPoints
  <2>4. connections' = connections /\ leaked' = leaked
    BY <2>3
  <2>5. /\ PoolTypeOK' /\ Points' /\ us'[x].conn = c
        /\ \A y \in Users \ {x} : us'[y] = us[y]
    BY <2>2, <2>3, <2>4, UserTypes
  <2> QED BY <2>2, <2>3, <2>5, UserGetsNewKeeps
<1>6. CASE GetDials(x) /\ DialFails /\ User(x, "idle", NoConn)
  <2>1. us[x].conn = NoConn /\ "idle" \in UserPoints \ {"check", "held"}
    BY <1>6 DEF GetDials, Points, UserPoints
  <2> QED BY <1>6, <2>1, DialFailsKeeps, UserWithoutKeeps DEF GetDials
<1> QED BY <1>1, <1>2, <1>3, <1>4, <1>5, <1>6 DEF GetStep, GetDials

\* A user puts its connection back or forgets it.
LEMMA PutKeeps ==
  ASSUME ConnInv, NEW x \in Users, Put(x) \/ Forget(x)
  PROVE  ConnInv'
<1>. /\ PoolTypeOK /\ Points /\ ServerInv /\ connections \in Seq(Conns)
     /\ Len(connections) <= ChanCap /\ leaked \subseteq Conns
  BY DEF ConnInv, PoolTypeOK
<1>1. PICK c \in Conns : c = us[x].conn
  BY DEF Put, Forget, PoolTypeOK, Points
<1>2. /\ us[x].pc = "held" /\ User(x, "idle", NoConn) /\ "idle" \in UserPoints
      /\ UNCHANGED <<isClosed, pool, cr, pclose, drained>>
  BY DEF Put, Forget, UserPoints
<1>3. CASE leaked' = leaked \cup {c} /\ UNCHANGED <<socketVars, serverVars, connections>>
  <2>1. ServerInv' /\ UNCHANGED cl
    BY <1>3, SocketsSame
  <2>2. connections' = connections /\ leaked' \subseteq Conns
    BY <1>3
  <2>3. /\ PoolTypeOK' /\ Points' /\ us'[x].conn = NoConn
        /\ \A y \in Users \ {x} : us'[y] = us[y]
    BY <1>2, <2>1, <2>2, UserTypes
  <2> QED BY <1>1, <1>2, <1>3, <2>1, <2>3, UserReleasesKeeps
<1>4. CASE /\ Len(connections) < ChanCap /\ connections' = Append(connections, c)
           /\ UNCHANGED <<socketVars, serverVars, leaked>>
  <2>1. ServerInv' /\ UNCHANGED cl
    BY <1>4, SocketsSame
  <2>2. ~ Pooled(c)
    BY <1>1 DEF ConnInv, Owners
  <2>3. connections' \in Seq(Conns) /\ Len(connections') <= ChanCap /\ leaked' \subseteq Conns
    BY <1>4, <2>2, Send DEF ConnInv
  <2>4. /\ PoolTypeOK' /\ Points' /\ us'[x].conn = NoConn
        /\ \A y \in Users \ {x} : us'[y] = us[y]
    BY <1>2, <2>1, <2>3, UserTypes
  <2> QED BY <1>1, <1>2, <1>4, <2>1, <2>4, UserPutsKeeps
<1>5. CASE ClosesConn(c) /\ UNCHANGED <<connections, leaked>>
  <2>1. ServerInv' /\ cl'[c] = "closed" /\ \A d \in Conns \ {c} : cl'[d] = cl[d]
    BY <1>5, ClosesConnKeeps
  <2>2. connections' = connections /\ leaked' = leaked
    BY <1>5
  <2>3. /\ PoolTypeOK' /\ Points' /\ us'[x].conn = NoConn
        /\ \A y \in Users \ {x} : us'[y] = us[y]
    BY <1>2, <2>1, <2>2, UserTypes
  <2> QED BY <1>1, <1>2, <1>5, <2>1, <2>3, UserReleasesKeeps
<1> QED BY <1>1, <1>3, <1>4, <1>5 DEF Put, Forget

\* NewTCPPool returns; ClosePool, its goroutine and its return.
LEMMA PoolStepKeeps ==
  ASSUME ConnInv, PoolStep \/ ClosePool
  PROVE  ConnInv'
<1>. /\ PoolTypeOK /\ Points /\ ServerInv /\ connections \in Seq(Conns)
     /\ Len(connections) <= ChanCap /\ leaked \subseteq Conns
  BY DEF ConnInv, PoolTypeOK
<1>1. CASE NewReturns \/ ClosePool \/ DrainEnds \/ ClosePoolReturns
  <2>1. UNCHANGED <<socketVars, serverVars, connections, cr, us, leaked>>
    BY <1>1 DEF NewReturns, ClosePool, DrainEnds, ClosePoolReturns
  <2>2. ServerInv' /\ UNCHANGED cl
    BY <2>1, SocketsSame
  <2>3. /\ isClosed' \in BOOLEAN /\ drained' \in BOOLEAN /\ pool' \in {"new", "failed", "ready"}
        /\ pclose' \in {"none", "waiting", "done", "timeout"}
    BY <1>1 DEF NewReturns, ClosePool, DrainEnds, ClosePoolReturns, PoolTypeOK
  <2>4. PoolTypeOK' /\ Points'
    BY <2>1, <2>2, <2>3 DEF ServerInv, PoolTypeOK, Points
  <2>5. /\ \A y \in Users : us'[y].conn = us[y].conn
        /\ \A g \in Creators : cr'[g].conn = cr[g].conn
    BY <2>1
  <2> QED BY <2>1, <2>2, <2>4, <2>5, SameOwnersKeeps
<1>2. CASE Drain
  <2>1. PICK c \in Conns : c = Head(connections)
    BY <1>2 DEF Drain
  <2>2. /\ connections # << >> /\ ClosesConn(c) /\ connections' = Tail(connections)
        /\ UNCHANGED <<isClosed, pool, cr, us, pclose, drained, leaked>>
    BY <1>2, <2>1 DEF Drain
  <2>3. ServerInv' /\ cl'[c] = "closed" /\ \A d \in Conns \ {c} : cl'[d] = cl[d]
    BY <2>2, ClosesConnKeeps
  <2>4. connections' \in Seq(Conns) /\ Len(connections') <= ChanCap
    BY <2>1, <2>2, Receive DEF ConnInv
  <2>5. PoolTypeOK' /\ Points'
    BY <2>2, <2>3, <2>4 DEF ServerInv, PoolTypeOK, Points
  <2> QED BY <2>1, <2>2, <2>3, <2>5, DrainOneKeeps
<1> QED BY <1>1, <1>2 DEF PoolStep

----------------------------------------------------------------------------
\* At the start nobody has a connection and none is open.
LEMMA InitConnInv == Init => ConnInv
<1> SUFFICES ASSUME Init
             PROVE  ConnInv
  OBVIOUS
<1>1. /\ cl = [c \in Conns |-> "closed"] /\ sv = [c \in Conns |-> "closed"]
      /\ msg = [c \in Conns |-> "none"] /\ backlog = << >> /\ listening = FALSE /\ faults = 0
      /\ shutdown = FALSE /\ handlers = {} /\ wg = 0 /\ closer = "none"
      /\ acc = At("none", NoConn) /\ loop = At("none", NoConn)
  BY DEF Init, TransportInit
<1>2. /\ acc.pc = "none" /\ acc.conn = NoConn /\ loop.pc = "none" /\ loop.conn = NoConn
      /\ Runs(acc) = 0 /\ Runs(loop) = 0
  BY <1>1 DEF At, Runs
<1>3. IsFiniteSet(handlers) /\ Cardinality(handlers) = 0
  BY <1>1, FS_EmptySet
<1>4. backlog \in Seq(Conns) /\ Len(backlog) = 0
  BY <1>1
<1>5. TransportTypeOK
  <2>1. /\ cl \in [Conns -> {"open", "closed"}]
        /\ sv \in [Conns -> {"backlog", "open", "closed"}]
        /\ msg \in [Conns -> {"none", "ping", "pong"}]
    BY <1>1
  <2>2. faults \in 0 .. MaxFaults
    BY <1>1, TransportAssumption
  <2> QED BY <1>1, <1>2, <1>4, <2>1, <2>2 DEF TransportTypeOK
<1>6. ServerInv
  BY <1>1, <1>2, <1>3, <1>4, <1>5, TransportAssumption DEF ServerInv
<1>7. /\ connections = << >> /\ connections \in Seq(Conns) /\ Len(connections) = 0
      /\ isClosed = FALSE /\ pool = "new" /\ pclose = "none" /\ drained = FALSE /\ leaked = {}
      /\ cr = [g \in Creators |-> At("dial", NoConn)]
      /\ us = [x \in Users |-> At("idle", NoConn)]
  BY DEF Init
<1>8. /\ \A g \in Creators : cr[g].pc = "dial" /\ cr[g].conn = NoConn
      /\ \A x \in Users : us[x].pc = "idle" /\ us[x].conn = NoConn
  BY <1>7 DEF At
<1>9. cr = [g \in Creators |-> At(cr[g].pc, cr[g].conn)]
  BY <1>7, <1>8
<1>10. us = [x \in Users |-> At(us[x].pc, us[x].conn)]
  BY <1>7, <1>8
<1>11. PoolTypeOK
  <2>1. connections \in Seq(Conns) /\ Len(connections) <= ChanCap
    BY <1>7, CapAssumption
  <2>2. /\ \A g \in Creators :
             cr[g].pc \in {"dial", "add", "ended"} /\ cr[g].conn \in Conns \cup {NoConn}
        /\ \A x \in Users : /\ us[x].pc \in {"idle", "select", "check", "dial", "held"}
                            /\ us[x].conn \in Conns \cup {NoConn}
    BY <1>8
  <2> QED BY <1>5, <1>7, <2>1, <2>2 DEF PoolTypeOK
<1>12. Points
  BY <1>8, <1>9, <1>10 DEF Points
<1>13. \A c : ~ Pooled(c)
  BY <1>7 DEF Pooled
<1>14. Owners
  BY <1>7, <1>8, <1>13 DEF Owners
<1>15. OpenOwned
  BY <1>1, <1>8, <1>13, TransportAssumption DEF OpenOwned, Owned
<1> QED BY <1>6, <1>11, <1>12, <1>14, <1>15 DEF ConnInv

\* Every step keeps the invariant.
LEMMA NextConnInv == ConnInv /\ [Next]_vars => ConnInv'
<1> SUFFICES ASSUME ConnInv, [Next]_vars
             PROVE  ConnInv'
  OBVIOUS
<1>1. CASE TransportStep
  BY <1>1, TransportStepKeeps
<1>2. ASSUME NEW g \in Creators, CreatorStep(g)
      PROVE  ConnInv'
  BY <1>2, CreatorKeeps
<1>3. ASSUME NEW x \in Users, Get(x) \/ GetStep(x) \/ Put(x) \/ Forget(x)
      PROVE  ConnInv'
  BY <1>3, GetKeeps, PutKeeps
<1>4. CASE PoolStep \/ ClosePool
  BY <1>4, PoolStepKeeps
<1>5. CASE UNCHANGED vars
  <2>1. UNCHANGED <<socketVars, serverVars>>
        /\ UNCHANGED <<connections, isClosed, pool, cr, us, pclose, drained, leaked>>
    BY <1>5 DEF vars, poolVars
  <2>2. ServerInv' /\ UNCHANGED cl
    BY <2>1, SocketsSame DEF ConnInv
  <2>3. PoolTypeOK' /\ Points'
    BY <2>1, <2>2 DEF ConnInv, ServerInv, PoolTypeOK, Points
  <2> QED BY <2>1, <2>2, <2>3, SameOwnersKeeps
<1> QED BY <1>1, <1>2, <1>3, <1>4, <1>5 DEF Next

\* ConnInv is an invariant of the pool and its server, for every number of
\* connections, users and dialling goroutines.
THEOREM ConnInvariance == Spec => []ConnInv
<1> QED BY InitConnInv, NextConnInv, PTL DEF Spec

\* The type invariant of both sides.
THEOREM PoolTypeCorrect == Spec => []PoolTypeOK
<1>1. ConnInv => PoolTypeOK
  BY DEF ConnInv
<1> QED BY <1>1, ConnInvariance, PTL

\* An accepted connection is always in the hands of a goroutine of the server
\* (tcp_transport.go:103, :121).
THEOREM AcceptedAreServed == Spec => []AcceptedServed
<1>1. ConnInv => AcceptedServed
  BY DEF ConnInv, ServerInv, AcceptedServed
<1> QED BY <1>1, ConnInvariance, PTL

\* Nothing is left of a server whose Close has seen the counter at zero.
THEOREM CloseIsQuiet == Spec => []CloseMeansQuiet
<1>1. ConnInv => CloseMeansQuiet
  <2> SUFFICES ASSUME ConnInv, closer = "done"
               PROVE  /\ acc.pc = "ended" /\ loop.pc = "ended" /\ handlers = {}
                      /\ \A c \in Conns : sv[c] \notin {"backlog", "open"}
    BY DEF CloseMeansQuiet
  <2>1. acc.pc = "ended" /\ loop.pc = "ended" /\ handlers = {}
    BY DEF ConnInv, ServerInv
  <2>2. \A c \in Conns : sv[c] # "backlog"
    BY DEF ConnInv, ServerInv
  <2>3. \A c \in Conns : sv[c] # "open"
    BY <2>1, TransportAssumption DEF ConnInv, ServerInv
  <2> QED BY <2>1, <2>2, <2>3
<1> QED BY <1>1, ConnInvariance, PTL

\* A connection that is in the channel once counts once.
LEMMA PoolCounts ==
  ASSUME ConnInv
  PROVE  Cardinality(InPool) = Len(connections)
<1>1. connections \in Seq(Conns) /\ Len(connections) \in Nat
      /\ DOMAIN connections = 1 .. Len(connections)
  BY DEF ConnInv, PoolTypeOK
<1>2. connections \in [1 .. Len(connections) -> InPool]
  BY <1>1 DEF InPool
<1>3. connections \in Bijection(1 .. Len(connections), InPool)
  <2>1. IsInjective(connections)
    BY <1>1 DEF IsInjective, ConnInv, Owners
  <2>2. \A c \in InPool : \E i \in 1 .. Len(connections) : connections[i] = c
    BY <1>1 DEF InPool
  <2> QED BY <1>2, <2>1, <2>2 DEF Bijection, Injection, Surjection
<1>4. ExistsBijection(1 .. Len(connections), InPool)
  BY <1>3 DEF ExistsBijection
<1> QED BY <1>1, <1>4, FS_CountingElements

\* A connection has one owner, and is open as long as it has one: no two users
\* mix their messages and Get hands out none that the pool has closed
\* (tcp_pool.go:143 to :218).
THEOREM EachHasOneOwner == Spec => []OneOwner
<1>1. ASSUME ConnInv
      PROVE  OneOwner
  <2>1. Cardinality(InPool) = Len(connections)
    BY <1>1, PoolCounts
  <2>2. \A c : c \in InPool <=> Pooled(c)
    BY <1>1 DEF ConnInv, PoolTypeOK, InPool, Pooled
  <2>3. ASSUME NEW x \in Users
        PROVE  /\ HeldBy(x) \cap InPool = {}
               /\ \A y \in Users \ {x} : HeldBy(x) \cap HeldBy(y) = {}
               /\ \A g \in Creators : HeldBy(x) \cap CreatedBy(g) = {}
    BY <1>1, <2>2 DEF ConnInv, Owners, HeldBy, CreatedBy
  <2>4. ASSUME NEW g \in Creators
        PROVE  /\ CreatedBy(g) \cap InPool = {}
               /\ \A k \in Creators \ {g} : CreatedBy(g) \cap CreatedBy(k) = {}
    BY <1>1, <2>2 DEF ConnInv, Owners, CreatedBy
  <2>5. ASSUME NEW c \in InPool \cup (UNION {HeldBy(x) : x \in Users})
                                \cup (UNION {CreatedBy(g) : g \in Creators})
        PROVE  cl[c] = "open"
    <3>1. c \in Conns /\ Owned(c)
      <4>1. CASE c \in InPool
        BY <1>1, <4>1 DEF ConnInv, PoolTypeOK, InPool, Owned, Pooled
      <4>2. CASE \E x \in Users : c \in HeldBy(x)
        BY <1>1, <4>2 DEF ConnInv, PoolTypeOK, HeldBy, Owned
      <4>3. CASE \E g \in Creators : c \in CreatedBy(g)
        BY <1>1, <4>3 DEF ConnInv, PoolTypeOK, CreatedBy, Owned
      <4> QED BY <2>5, <4>1, <4>2, <4>3
    <3> QED BY <1>1, <3>1 DEF ConnInv, OpenOwned
  <2> QED BY <2>1, <2>3, <2>4, <2>5 DEF OneOwner
<1> QED BY <1>1, ConnInvariance, PTL

\* An open connection has an owner who can close it, unless a user forgot it or
\* put it back after ClosePool (tcp_pool.go:174).
THEOREM NoneIsForgotten == Spec => []NoneForgotten
<1>1. ASSUME ConnInv
      PROVE  NoneForgotten
  <2>1. \A c : Pooled(c) => c \in InPool
    BY <1>1 DEF ConnInv, PoolTypeOK, InPool, Pooled
  <2> QED BY <1>1, <2>1, TransportAssumption
          DEF ConnInv, OpenOwned, Owned, NoneForgotten, HeldBy, CreatedBy
<1> QED BY <1>1, ConnInvariance, PTL

=============================================================================
