----------------------------- MODULE MetaStore -----------------------------
(***************************************************************************)
(* What the metadata server promises, without log, flushes, segments,      *)
(* snapshots and replay: a map that survives crashes.  An operation takes  *)
(* effect at one moment between its beginning and its answer; a crash      *)
(* makes an unanswered one take effect or vanish, and never undoes an      *)
(* answered one.                                                           *)
(***************************************************************************)
EXTENDS Naturals

CONSTANTS Handlers, Names, Metas, None,
          NoJob       \* no operation

VARIABLES kv,         \* kv[n]: the metadata of file n, or None
          pending,    \* pending[h]: the operation that handler h has begun
          up          \* requests are answered

mapVars == <<kv, pending, up>>

Ops == [name : Names, meta : Metas, del : BOOLEAN]

Effect(F, op) == [F EXCEPT ![op.name] = IF op.del THEN None ELSE op.meta]

Idle == [h \in Handlers |-> NoJob]

Init ==
  /\ kv \in [Names -> Metas \cup {None}]
  /\ pending = Idle
  /\ up = FALSE

Begin(h) ==
  /\ up
  /\ pending[h] = NoJob
  /\ \E op \in Ops : pending' = [pending EXCEPT ![h] = op]
  /\ UNCHANGED <<kv, up>>

\* The operation takes effect and is answered.
Commit(h) ==
  /\ up
  /\ pending[h] # NoJob
  /\ kv' = Effect(kv, pending[h])
  /\ pending' = [pending EXCEPT ![h] = NoJob]
  /\ UNCHANGED up

\* The operation fails.
Drop(h) ==
  /\ up
  /\ pending[h] # NoJob
  /\ pending' = [pending EXCEPT ![h] = NoJob]
  /\ UNCHANGED <<kv, up>>

\* On each file the last operation to take effect is an answered one or one of
\* those begun.
Survivors ==
  {F \in [Names -> Metas \cup {None}] :
     \A n \in Names :
       \/ F[n] = kv[n]
       \/ \E h \in Handlers :
            pending[h] # NoJob /\ pending[h].name = n /\ F[n] = Effect(kv, pending[h])[n]}

Crash ==
  /\ up' = FALSE
  /\ pending' = Idle
  /\ kv' \in Survivors

Restart ==
  /\ ~ up
  /\ up' = TRUE
  /\ UNCHANGED <<kv, pending>>

Next ==
  \/ \E h \in Handlers : Begin(h) \/ Commit(h) \/ Drop(h)
  \/ Crash \/ Restart

Spec == Init /\ [][Next]_mapVars

=============================================================================
