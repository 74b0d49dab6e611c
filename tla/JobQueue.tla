------------------------------ MODULE JobQueue ------------------------------
(***************************************************************************)
(* What RetriableWorkerPool promises its callers, without goroutines,      *)
(* counters, locks and scaling: jobs are taken in the order in which they  *)
(* were accepted, at most MaxWorkers at a time, each is tried at most      *)
(* MaxRetries + 1 times and answered once, and only a cancelled context    *)
(* makes a job fail to be answered.                                        *)
(***************************************************************************)
EXTENDS Naturals, Sequences, FiniteSets

CONSTANTS Jobs, MaxWorkers, MaxRetries, BufferSize

VARIABLES state,      \* state[j]: what has become of job j
          queue,      \* accepted jobs that no worker has taken
          tries,      \* tries[j]: failed attempts of a running job
          closed,     \* Shutdown has closed the pool
          cancelled   \* the pool's context is cancelled

queueVars == <<state, queue, tries, closed, cancelled>>

Answers == {"success", "failed", "cancelled"}

Running == {j \in Jobs : state[j] = "running"}

Init ==
  /\ state = [j \in Jobs |-> "new"]
  /\ queue = << >>
  /\ tries = [j \in Jobs |-> 0]
  /\ closed = FALSE
  /\ cancelled = FALSE

Submit(j) ==
  /\ state[j] = "new"
  /\ ~ closed
  /\ Len(queue) < BufferSize
  /\ state' = [state EXCEPT ![j] = "queued"]
  /\ queue' = Append(queue, j)
  /\ UNCHANGED <<tries, closed, cancelled>>

\* Submit returns its error.
Refuse(j) ==
  /\ state[j] = "new"
  /\ closed \/ cancelled
  /\ state' = [state EXCEPT ![j] = "refused"]
  /\ UNCHANGED <<queue, tries, closed, cancelled>>

Start(j) ==
  /\ queue # << >>
  /\ j = Head(queue)
  /\ Cardinality(Running) < MaxWorkers
  /\ state' = [state EXCEPT ![j] = "running"]
  /\ queue' = Tail(queue)
  /\ UNCHANGED <<tries, closed, cancelled>>

Retry(j) ==
  /\ state[j] = "running"
  /\ tries[j] < MaxRetries
  /\ tries' = [tries EXCEPT ![j] = @ + 1]
  /\ UNCHANGED <<state, queue, closed, cancelled>>

Ends(j, s) ==
  /\ state[j] = "running"
  /\ state' = [state EXCEPT ![j] = s]
  /\ tries' = [tries EXCEPT ![j] = 0]
  /\ UNCHANGED <<queue, closed, cancelled>>

Succeed(j) == Ends(j, "success")

Fail(j) == tries[j] = MaxRetries /\ Ends(j, "failed")

\* A worker that sees the context done answers with StatusCancelled, or does
\* not answer at all.
Abandon(j) == cancelled /\ (Ends(j, "cancelled") \/ Ends(j, "lost"))

Close ==
  /\ ~ closed
  /\ closed' = TRUE
  /\ UNCHANGED <<state, queue, tries, cancelled>>

Cancel ==
  /\ ~ cancelled
  /\ cancelled' = TRUE
  /\ UNCHANGED <<state, queue, tries, closed>>

Next ==
  \/ \E j \in Jobs :
       Submit(j) \/ Refuse(j) \/ Start(j) \/ Retry(j) \/ Succeed(j) \/ Fail(j) \/ Abandon(j)
  \/ Close \/ Cancel

Spec == Init /\ [][Next]_queueVars

States == {"new", "queued", "running", "refused", "lost"} \cup Answers

\* Every job in the queue has been accepted and not yet taken.
QueueInv ==
  /\ state \in [Jobs -> States]
  /\ queue \in Seq(Jobs)
  /\ tries \in [Jobs -> Nat]
  /\ closed \in BOOLEAN /\ cancelled \in BOOLEAN
  /\ \A k \in 1 .. Len(queue) : state[queue[k]] = "queued"
  /\ \A k, l \in 1 .. Len(queue) : queue[k] = queue[l] => k = l

=============================================================================
