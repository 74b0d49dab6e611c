------------------------------- MODULE TCPPool -------------------------------
(***************************************************************************)
(* TCPPool of internal/transport, connected to a server with the           *)
(* TCPTransport: NewTCPPool with one dialling goroutine per connection,    *)
(* Get with its health check, Put and ClosePool with its draining          *)
(* goroutine.  The mutex is held across more than one step only by         *)
(* ClosePool while it waits, and by a dialling goroutine for which the     *)
(* channel has no room.                                                    *)
(***************************************************************************)
EXTENDS TCPTransport

CONSTANTS Creators,   \* the goroutines of NewTCPPool, maxConn of them
          ChanCap,    \* capacity of the channel: maxConn before the options
          Users       \* goroutines that call Get and Put

\* With more connections than fit NewTCPPool does not return.
ASSUME CapAssumption == ChanCap \in Nat /\ Cardinality(Creators) <= ChanCap

VARIABLES
  connections,   \* the buffer of the channel
  isClosed,
  pool,          \* NewTCPPool: "new", "failed" (firstErr is set) or "ready"
  cr,            \* cr[g]: a dialling goroutine
  us,            \* us[x]: a user
  pclose,        \* ClosePool: "none", "waiting" (with the mutex), "done" or "timeout"
  drained,       \* the draining goroutine has ended
  leaked         \* history: connections not put back, or too late, which nobody closes

poolVars == <<connections, isClosed, pool, cr, us, pclose, drained, leaked>>
vars == <<socketVars, serverVars, poolVars>>

PoolTypeOK ==
  /\ TransportTypeOK
  /\ connections \in Seq(Conns) /\ Len(connections) <= ChanCap
  /\ isClosed \in BOOLEAN /\ drained \in BOOLEAN /\ leaked \subseteq Conns
  /\ pool \in {"new", "failed", "ready"}
  /\ \A g \in Creators : cr[g].pc \in {"dial", "add", "ended"} /\ cr[g].conn \in Conns \cup {NoConn}
  /\ \A x \in Users : /\ us[x].pc \in {"idle", "select", "check", "dial", "held"}
                      /\ us[x].conn \in Conns \cup {NoConn}
  /\ pclose \in {"none", "waiting", "done", "timeout"}

Init ==
  /\ TransportInit
  /\ connections = << >>
  /\ isClosed = FALSE
  /\ pool = "new"
  /\ cr = [g \in Creators |-> At("dial", NoConn)]
  /\ us = [x \in Users |-> At("idle", NoConn)]
  /\ pclose = "none"
  /\ drained = FALSE
  /\ leaked = {}

MuFree == pclose # "waiting"

----------------------------------------------------------------------------
(* Sockets *)

\* Closed on both sides, or not yet used.
Unused(c) == cl[c] = "closed" /\ sv[c] = "closed"

NewConn == CHOOSE c \in Conns : Unused(c)

\* createNewConnection succeeds as soon as the listener has the connection.
Dials ==
  /\ listening
  /\ \E c \in Conns : Unused(c)
  /\ cl' = [cl EXCEPT ![NewConn] = "open"]
  /\ sv' = [sv EXCEPT ![NewConn] = "backlog"]
  /\ backlog' = Append(backlog, NewConn)
  /\ UNCHANGED <<msg, listening, faults, serverVars>>

\* Nobody listens, or the dial fails at its timeout, as it does when the listener
\* has no room.
DialFails ==
  /\ IF listening /\ \E c \in Conns : Unused(c) THEN Fault ELSE UNCHANGED faults
  /\ UNCHANGED <<cl, sv, msg, backlog, listening, serverVars>>

ClosesConn(c) ==
  /\ cl' = [cl EXCEPT ![c] = "closed"]
  /\ msg' = [msg EXCEPT ![c] = "none"]
  /\ UNCHANGED <<sv, backlog, listening, faults, serverVars>>

----------------------------------------------------------------------------
(* NewTCPPool *)

CreatorDials(g) ==
  /\ cr[g].pc = "dial"
  /\ Dials
  /\ cr' = [cr EXCEPT ![g] = At("add", NewConn)]
  /\ UNCHANGED <<connections, isClosed, pool, us, pclose, drained, leaked>>

\* The cancel that once.Do calls is the goroutine's own: the others dial on.
CreatorFails(g) ==
  /\ cr[g].pc = "dial"
  /\ DialFails
  /\ cr' = [cr EXCEPT ![g] = At("ended", NoConn)]
  /\ pool' = "failed"
  /\ UNCHANGED <<connections, isClosed, us, pclose, drained, leaked>>

CreatorAdds(g) ==
  /\ cr[g].pc = "add"
  /\ Len(connections) < ChanCap
  /\ connections' = Append(connections, cr[g].conn)
  /\ cr' = [cr EXCEPT ![g] = At("ended", NoConn)]
  /\ UNCHANGED <<socketVars, serverVars, isClosed, pool, us, pclose, drained, leaked>>

AllCreated == \A g \in Creators : cr[g].pc = "ended"

NewReturns ==
  /\ pool = "new"
  /\ AllCreated
  /\ pool' = "ready"
  /\ UNCHANGED <<socketVars, serverVars, connections, isClosed, cr, us, pclose, drained, leaked>>

----------------------------------------------------------------------------
(* Get *)

User(x, pc, c) == us' = [us EXCEPT ![x] = At(pc, c)]

\* The test of isClosed; the error is as good as not having called.
Get(x) ==
  /\ us[x].pc = "idle"
  /\ pool = "ready"
  /\ MuFree
  /\ ~ isClosed
  /\ User(x, "select", NoConn)
  /\ UNCHANGED <<socketVars, serverVars, connections, isClosed, pool, cr, pclose, drained, leaked>>

\* The receive, from a closed channel too while something is in it, and the
\* ping of performHealthCheck; no room to ping in a connection the server closed.
GetReceives(x) ==
  /\ us[x].pc = "select"
  /\ connections # << >>
  /\ LET c == Head(connections)
     IN  User(x, "check", c) /\ msg' = [msg EXCEPT ![c] = "ping"]
  /\ connections' = Tail(connections)
  /\ UNCHANGED <<cl, sv, backlog, listening, faults, serverVars, isClosed, pool, cr, pclose,
                 drained, leaked>>

\* ErrPoolClosed from a channel that is closed and empty; default otherwise.
GetEmpty(x) ==
  /\ us[x].pc = "select"
  /\ connections = << >>
  /\ User(x, IF isClosed THEN "idle" ELSE "dial", NoConn)
  /\ UNCHANGED <<socketVars, serverVars, connections, isClosed, pool, cr, pclose, drained, leaked>>

HealthCheckOk(x) ==
  /\ us[x].pc = "check"
  /\ msg[us[x].conn] = "pong"
  /\ User(x, "held", us[x].conn)
  /\ msg' = [msg EXCEPT ![us[x].conn] = "none"]
  /\ UNCHANGED <<cl, sv, backlog, listening, faults, serverVars, connections, isClosed, pool, cr,
                 pclose, drained, leaked>>

\* Mutant: a connection that fails its health check is not closed.
HealthCheckFails_NoClose(x) ==
  /\ us[x].pc = "check"
  /\ User(x, "dial", NoConn)
  /\ UNCHANGED <<socketVars, serverVars, connections, isClosed, pool, cr, pclose, drained, leaked>>

\* Mutant: the check has no read deadline.
HealthCheckFails_NoDeadline(x) ==
  /\ us[x].pc = "check"
  /\ sv[us[x].conn] = "closed"
  /\ ClosesConn(us[x].conn)
  /\ User(x, "dial", NoConn)
  /\ UNCHANGED <<connections, isClosed, pool, cr, pclose, drained, leaked>>

\* The server has closed the connection or its answer does not come in time.
HealthCheckFails(x) ==
  /\ us[x].pc = "check"
  /\ ClosesConn(us[x].conn)
  /\ User(x, "dial", NoConn)
  /\ UNCHANGED <<connections, isClosed, pool, cr, pclose, drained, leaked>>

GetDials(x) ==
  /\ us[x].pc = "dial"
  /\ \/ Dials /\ User(x, "held", NewConn)
     \/ DialFails /\ User(x, "idle", NoConn)
  /\ UNCHANGED <<connections, isClosed, pool, cr, pclose, drained, leaked>>

----------------------------------------------------------------------------
(* Put and ClosePool *)

\* Mutant: the connection is closed whether it went to the pool or not.
Put_Closes(x) ==
  /\ us[x].pc = "held"
  /\ MuFree
  /\ User(x, "idle", NoConn)
  /\ ClosesConn(us[x].conn)
  /\ \/ /\ ~ isClosed /\ Len(connections) < ChanCap
        /\ connections' = Append(connections, us[x].conn)
     \/ (isClosed \/ Len(connections) = ChanCap) /\ UNCHANGED connections
  /\ UNCHANGED <<isClosed, pool, cr, pclose, drained, leaked>>

Put(x) ==
  /\ us[x].pc = "held"
  /\ MuFree
  /\ User(x, "idle", NoConn)
  /\ \/ /\ isClosed
        /\ leaked' = leaked \cup {us[x].conn}
        /\ UNCHANGED <<socketVars, serverVars, connections>>
     \/ /\ ~ isClosed /\ Len(connections) < ChanCap
        /\ connections' = Append(connections, us[x].conn)
        /\ UNCHANGED <<socketVars, serverVars, leaked>>
     \/ /\ ~ isClosed /\ Len(connections) = ChanCap
        /\ ClosesConn(us[x].conn)
        /\ UNCHANGED <<connections, leaked>>
  /\ UNCHANGED <<isClosed, pool, cr, pclose, drained>>

\* What requestMetaServer of the client does with a connection it got.
Forget(x) ==
  /\ us[x].pc = "held"
  /\ User(x, "idle", NoConn)
  /\ leaked' = leaked \cup {us[x].conn}
  /\ UNCHANGED <<socketVars, serverVars, connections, isClosed, pool, cr, pclose, drained>>

\* By the user of the pool, or by NewTCPPool after a failed dial.
ClosePool ==
  /\ ~ isClosed
  /\ pool = "ready" \/ (pool = "failed" /\ AllCreated)
  /\ isClosed' = TRUE
  /\ pclose' = "waiting"
  /\ UNCHANGED <<socketVars, serverVars, connections, pool, cr, us, drained, leaked>>

\* Mutant: the channel is emptied and the connections are not closed.
Drain_NoClose ==
  /\ isClosed
  /\ connections # << >>
  /\ connections' = Tail(connections)
  /\ UNCHANGED <<socketVars, serverVars, isClosed, pool, cr, us, pclose, drained, leaked>>

Drain ==
  /\ isClosed
  /\ connections # << >>
  /\ ClosesConn(Head(connections))
  /\ connections' = Tail(connections)
  /\ UNCHANGED <<isClosed, pool, cr, us, pclose, drained, leaked>>

DrainEnds ==
  /\ isClosed /\ ~ drained
  /\ connections = << >>
  /\ drained' = TRUE
  /\ UNCHANGED <<socketVars, serverVars, connections, isClosed, pool, cr, us, pclose, leaked>>

\* With the drain goroutine at its end, or at the timeout.
ClosePoolReturns ==
  /\ pclose = "waiting"
  /\ pclose' \in (IF drained THEN {"done", "timeout"} ELSE {"timeout"})
  /\ UNCHANGED <<socketVars, serverVars, connections, isClosed, pool, cr, us, drained, leaked>>

----------------------------------------------------------------------------
TransportStep ==
  /\ TransportNext
  /\ UNCHANGED poolVars

CreatorStep(g) == CreatorDials(g) \/ CreatorFails(g) \/ CreatorAdds(g)

GetStep(x) ==
  GetReceives(x) \/ GetEmpty(x) \/ HealthCheckOk(x) \/ HealthCheckFails(x) \/ GetDials(x)

PoolStep == NewReturns \/ Drain \/ DrainEnds \/ ClosePoolReturns \/ (pool = "failed" /\ ClosePool)

Next ==
  \/ TransportStep
  \/ \E g \in Creators : CreatorStep(g)
  \/ \E x \in Users : Get(x) \/ GetStep(x) \/ Put(x) \/ Forget(x)
  \/ PoolStep \/ ClosePool

Spec == Init /\ [][Next]_vars

\* Goroutines that can run do, and timers fire; nobody has to call Get, Put or
\* Close, and nothing has to fail.
FairSpec ==
  /\ Spec
  /\ WF_vars(AcceptStep /\ UNCHANGED poolVars)
  /\ WF_vars(LoopStep /\ UNCHANGED poolVars)
  /\ WF_vars(CloseStep /\ UNCHANGED poolVars)
  /\ \A c \in Conns : WF_vars(HandlerStep(c) /\ UNCHANGED poolVars)
  /\ WF_vars(\E g \in Creators : CreatorStep(g))
  /\ \A x \in Users : WF_vars(GetStep(x))
  /\ WF_vars(PoolStep)

----------------------------------------------------------------------------
(* Properties *)

InPool == {connections[i] : i \in DOMAIN connections}
HeldBy(x) == {us[x].conn} \ {NoConn}
CreatedBy(g) == {cr[g].conn} \ {NoConn}

\* A connection has one owner: it is in the channel once, or with one user, or
\* with the goroutine that dialled it, and then it is open, so that no two users
\* mix their messages and none gets a connection that the pool has closed,
\* whatever the order of Get, Put, failed health checks and ClosePool.
OneOwner ==
  /\ Cardinality(InPool) = Len(connections)
  /\ \A x \in Users :
       /\ HeldBy(x) \cap InPool = {}
       /\ \A y \in Users \ {x} : HeldBy(x) \cap HeldBy(y) = {}
       /\ \A g \in Creators : HeldBy(x) \cap CreatedBy(g) = {}
  /\ \A g \in Creators :
       /\ CreatedBy(g) \cap InPool = {}
       /\ \A k \in Creators \ {g} : CreatedBy(g) \cap CreatedBy(k) = {}
  /\ \A c \in InPool \cup (UNION {HeldBy(x) : x \in Users})
                   \cup (UNION {CreatedBy(g) : g \in Creators}) : cl[c] = "open"

\* Every connection that is open has an owner who can still close it, except
\* those a user forgot or put back after ClosePool (tcp_pool.go:174 returns
\* without closing them).
NoneForgotten ==
  \A c \in Conns :
    cl[c] = "open" =>
      \/ c \in InPool \cup leaked
      \/ \E x \in Users : c \in HeldBy(x)
      \/ \E g \in Creators : c \in CreatedBy(g)

\* Connection c is in the channel; it is there, with a user, or with the
\* goroutine that dialled it.
Pooled(c) == \E i \in 1 .. Len(connections) : connections[i] = c

Owned(c) ==
  Pooled(c) \/ (\E x \in Users : us[x].conn = c) \/ (\E g \in Creators : cr[g].conn = c)

\* Where a goroutine is tells whether it has a connection.
Points ==
  /\ cr = [g \in Creators |-> At(cr[g].pc, cr[g].conn)]
  /\ us = [x \in Users |-> At(us[x].pc, us[x].conn)]
  /\ \A g \in Creators : cr[g].conn # NoConn <=> cr[g].pc = "add"
  /\ \A x \in Users : us[x].conn # NoConn <=> us[x].pc \in {"check", "held"}

\* No connection has two owners, nor is it twice in the channel.
Owners ==
  /\ \A i, k \in 1 .. Len(connections) : connections[i] = connections[k] => i = k
  /\ \A x \in Users : ~ Pooled(us[x].conn)
  /\ \A g \in Creators : ~ Pooled(cr[g].conn)
  /\ \A x, y \in Users : us[x].conn = us[y].conn /\ us[x].conn # NoConn => x = y
  /\ \A g, k \in Creators : cr[g].conn = cr[k].conn /\ cr[g].conn # NoConn => g = k
  /\ \A x \in Users : \A g \in Creators : us[x].conn = cr[g].conn => cr[g].conn = NoConn

OpenOwned ==
  \A c \in Conns :
    (Owned(c) => cl[c] = "open") /\ (cl[c] = "open" => Owned(c) \/ c \in leaked)

\* The inductive invariant from which the safety properties of both sides follow.
ConnInv == ServerInv /\ PoolTypeOK /\ Points /\ Owners /\ OpenOwned

\* NewTCPPool, Get and ClosePool return, and the channel is drained after
\* ClosePool, also when the server accepts no more, does not answer the ping or
\* is closed meanwhile.
PoolCallsReturn ==
  /\ <>(pool # "new")
  /\ \A x \in Users : []<>(us[x].pc \in {"idle", "held"})
  /\ <>[](isClosed => drained /\ MuFree)

\* A pool that is closed with no connection in use lets the handlers of the
\* server go, so that the server's Close does not have to wait for its timeout;
\* only a connection that was forgotten or put back too late keeps one.
ClosedPoolFreesServer ==
  <>[](drained /\ (\A x \in Users : us[x].pc = "idle") => handlers \subseteq leaked)

=============================================================================
