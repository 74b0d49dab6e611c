----------------------------- MODULE WorkerPool -----------------------------
(***************************************************************************)
(* RetriableWorkerPool of internal/wokers: goroutines that submit jobs,    *)
(* goroutines that shut the pool down, the workers, the scaler that adds   *)
(* and removes workers, and cancellation of the parent context.            *)
(*                                                                         *)
(* A step is a section under one of the two mutexes, a channel operation   *)
(* or one case of a select.  A job's result channel never blocks: its      *)
(* callers (client/read_file.go, write_file.go) make it as large as the    *)
(* number of jobs they submit.                                             *)
(***************************************************************************)
EXTENDS Integers, Sequences, FiniteSets

CONSTANTS Jobs,           \* jobs, each submitted once by a goroutine of its own
          Closers,        \* goroutines that call Shutdown
          Workers,        \* goroutines that can be workers
          NoJob,
          MinWorkers, MaxWorkers, MaxRetries, BufferSize   \* poolConfig

ASSUME NoJobAssumption == NoJob \notin Jobs
ASSUME PoolConfigAssumption ==
  /\ MinWorkers \in Nat /\ MaxWorkers \in Nat /\ MinWorkers <= MaxWorkers
  /\ MaxRetries \in Nat
  /\ BufferSize \in Nat \ {0}
\* Room for workers that have left their loop and not yet ended.
ASSUME WorkersAssumption == IsFiniteSet(Workers) /\ MaxWorkers <= Cardinality(Workers)

VARIABLES
  jobs,            \* the buffered channel
  isClosed,        \* set together with close(w.jobs)
  ctxDone,         \* the pool's context is cancelled
  totalWorkers, activeWorkers,
  wk,              \* wk[w]: worker goroutine w
  scaler,          \* the scaler goroutine and what it read at its tick
  sub,             \* sub[j]: the Submit call of job j
  shut,            \* shut[x]: the Shutdown call of x
  keptLock,        \* did a Shutdown return without unlocking submitMu?
  results          \* results[j]: what was sent on the result channel of j

vars == <<jobs, isClosed, ctxDone, totalWorkers, activeWorkers, wk, scaler,
          sub, shut, keptLock, results>>

\* A worker's loop, from its select to the send of the result.
InLoop == {"select", "taken", "trying", "working", "finished", "sending"}

NoWorker == [pc |-> "none", job |-> NoJob, tries |-> 0, status |-> "none"]

Fresh == [NoWorker EXCEPT !.pc = "select"]

Statuses == {"none", "success", "failed", "cancelled"}

TypeOK ==
  /\ jobs \in Seq(Jobs) /\ Len(jobs) <= BufferSize
  /\ isClosed \in BOOLEAN /\ ctxDone \in BOOLEAN /\ keptLock \in BOOLEAN
  /\ totalWorkers \in Int
  /\ activeWorkers \in 0 .. Cardinality(Workers)
  /\ wk \in [Workers -> [pc : InLoop \cup {"none", "exiting", "exited"},
                         job : Jobs \cup {NoJob}, tries : 0 .. MaxRetries,
                         status : Statuses]]
  /\ scaler \in [pc : {"idle", "read", "adding", "counting", "closing", "stopped"},
                 jobs : 0 .. BufferSize]
  /\ sub \in [Jobs -> {"idle", "begun", "sending", "accepted", "refused"}]
  /\ shut \in [Closers -> {"idle", "begun", "waiting", "done", "timedOut", "skipped"}]
  /\ results \in [Jobs -> Statuses]

\* NewRetriableWorkerPool: start has added minWorkers workers.
Init ==
  /\ jobs = << >>
  /\ isClosed = FALSE
  /\ ctxDone = FALSE
  /\ totalWorkers = MinWorkers
  /\ activeWorkers = 0
  /\ \E W \in SUBSET Workers :
       /\ Cardinality(W) = MinWorkers
       /\ wk = [w \in Workers |-> IF w \in W THEN Fresh ELSE NoWorker]
  /\ scaler = [pc |-> "idle", jobs |-> 0]
  /\ sub = [j \in Jobs |-> "idle"]
  /\ shut = [x \in Closers |-> "idle"]
  /\ keptLock = FALSE
  /\ results = [j \in Jobs |-> "none"]

----------------------------------------------------------------------------
(* Submit *)

SubmitBegin(j) ==
  /\ sub[j] = "idle"
  /\ sub' = [sub EXCEPT ![j] = "begun"]
  /\ UNCHANGED <<jobs, isClosed, ctxDone, totalWorkers, activeWorkers, wk, scaler,
                 shut, keptLock, results>>

\* submitMu.RLock waits for the writer and for writers that wait themselves.
\* isClosed cannot change before the RUnlock of a Submit that goes on.
SubmitLock(j) ==
  /\ sub[j] = "begun"
  /\ ~ keptLock
  /\ \A x \in Closers : shut[x] # "begun"
  /\ sub' = [sub EXCEPT ![j] = IF isClosed THEN "refused" ELSE "sending"]
  /\ UNCHANGED <<jobs, isClosed, ctxDone, totalWorkers, activeWorkers, wk, scaler,
                 shut, keptLock, results>>

SubmitSend(j) ==
  /\ sub[j] = "sending"
  /\ Len(jobs) < BufferSize
  /\ jobs' = Append(jobs, j)
  /\ sub' = [sub EXCEPT ![j] = "accepted"]
  /\ UNCHANGED <<isClosed, ctxDone, totalWorkers, activeWorkers, wk, scaler,
                 shut, keptLock, results>>

\* Mutant: Submit does not watch the context.
SubmitCancelled_Never(j) == FALSE /\ UNCHANGED vars

SubmitCancelled(j) ==
  /\ sub[j] = "sending"
  /\ ctxDone
  /\ sub' = [sub EXCEPT ![j] = "refused"]
  /\ UNCHANGED <<jobs, isClosed, ctxDone, totalWorkers, activeWorkers, wk, scaler,
                 shut, keptLock, results>>

----------------------------------------------------------------------------
(* Shutdown *)

ShutdownBegin(x) ==
  /\ shut[x] = "idle"
  /\ shut' = [shut EXCEPT ![x] = "begun"]
  /\ UNCHANGED <<jobs, isClosed, ctxDone, totalWorkers, activeWorkers, wk, scaler,
                 sub, keptLock, results>>

\* Mutant: Shutdown does not exclude Submit.
CanLock_NoReaders == ~ keptLock

\* submitMu.Lock waits for every Submit that holds the read lock.
CanLock == ~ keptLock /\ \A j \in Jobs : sub[j] # "sending"

ShutdownLock(x) ==
  /\ shut[x] = "begun"
  /\ CanLock
  /\ IF isClosed
     THEN /\ shut' = [shut EXCEPT ![x] = "skipped"]
          /\ keptLock' = TRUE
          /\ UNCHANGED isClosed
     ELSE /\ shut' = [shut EXCEPT ![x] = "waiting"]
          /\ isClosed' = TRUE
          /\ UNCHANGED keptLock
  /\ UNCHANGED <<jobs, ctxDone, totalWorkers, activeWorkers, wk, scaler, sub, results>>

\* wg counts the goroutines that addWorker started and that have not ended.
AllEnded == \A w \in Workers : wk[w].pc = "none"

ShutdownDone(x) ==
  /\ shut[x] = "waiting"
  /\ AllEnded
  /\ ctxDone' = TRUE
  /\ shut' = [shut EXCEPT ![x] = "done"]
  /\ UNCHANGED <<jobs, isClosed, totalWorkers, activeWorkers, wk, scaler, sub,
                 keptLock, results>>

ShutdownTimeout(x) ==
  /\ shut[x] = "waiting"
  /\ ctxDone' = TRUE
  /\ shut' = [shut EXCEPT ![x] = "timedOut"]
  /\ UNCHANGED <<jobs, isClosed, totalWorkers, activeWorkers, wk, scaler, sub,
                 keptLock, results>>

\* The context given to NewRetriableWorkerPool is cancelled.
ParentCancel ==
  /\ ~ ctxDone
  /\ ctxDone' = TRUE
  /\ UNCHANGED <<jobs, isClosed, totalWorkers, activeWorkers, wk, scaler, sub,
                 shut, keptLock, results>>

----------------------------------------------------------------------------
(* worker and performWork *)

Step(w, from, to) == wk[w].pc = from /\ wk' = [wk EXCEPT ![w].pc = to]

Take(w) ==
  /\ jobs # << >>
  /\ wk[w].pc = "select"
  /\ wk' = [wk EXCEPT ![w].pc = "taken", ![w].job = Head(jobs)]
  /\ jobs' = Tail(jobs)
  /\ UNCHANGED <<isClosed, ctxDone, totalWorkers, activeWorkers, scaler, sub, shut,
                 keptLock, results>>

\* A receive from the channel reports that it is closed.
Drained == isClosed /\ jobs = << >>

WorkerClosed(w) ==
  /\ Drained
  /\ Step(w, "select", "exiting")
  /\ UNCHANGED <<jobs, isClosed, ctxDone, totalWorkers, activeWorkers, scaler, sub,
                 shut, keptLock, results>>

\* In either select; in the second one the result is dropped.
WorkerCancelled(w) ==
  /\ ctxDone
  /\ Step(w, "select", "exiting") \/ Step(w, "sending", "exiting")
  /\ UNCHANGED <<jobs, isClosed, ctxDone, totalWorkers, activeWorkers, scaler, sub,
                 shut, keptLock, results>>

\* The scaler's send on w.close meets a worker's receive.
WorkerToClose(w) ==
  /\ scaler.pc = "closing"
  /\ Step(w, "select", "exiting")
  /\ scaler' = [scaler EXCEPT !.pc = "idle"]
  /\ UNCHANGED <<jobs, isClosed, ctxDone, totalWorkers, activeWorkers, sub, shut,
                 keptLock, results>>

WorkerActive(w) ==
  /\ Step(w, "taken", "trying")
  /\ activeWorkers' = activeWorkers + 1
  /\ UNCHANGED <<jobs, isClosed, ctxDone, totalWorkers, scaler, sub, shut, keptLock,
                 results>>

\* The wait before an attempt is over.
AttemptBegins(w) ==
  /\ Step(w, "trying", "working")
  /\ UNCHANGED <<jobs, isClosed, ctxDone, totalWorkers, activeWorkers, scaler, sub,
                 shut, keptLock, results>>

Finish(w, from, status) ==
  /\ wk[w].pc = from
  /\ wk' = [wk EXCEPT ![w].pc = "finished", ![w].status = status]

AttemptCancelled(w) ==
  /\ ctxDone
  /\ Finish(w, "trying", "cancelled")
  /\ UNCHANGED <<jobs, isClosed, ctxDone, totalWorkers, activeWorkers, scaler, sub,
                 shut, keptLock, results>>

\* Mutant: one attempt too many.
Retries_OnceMore(w) == wk[w].tries <= MaxRetries

Retries(w) == wk[w].tries < MaxRetries

\* job.work returns, with or without an error; isRetriable is always true.
AttemptEnds(w) ==
  /\ \/ Finish(w, "working", "success")
     \/ ~ Retries(w) /\ Finish(w, "working", "failed")
     \/ /\ Retries(w)
        /\ wk[w].pc = "working"
        /\ wk' = [wk EXCEPT ![w].pc = "trying", ![w].tries = @ + 1]
  /\ UNCHANGED <<jobs, isClosed, ctxDone, totalWorkers, activeWorkers, scaler, sub,
                 shut, keptLock, results>>

WorkerInactive(w) ==
  /\ Step(w, "finished", "sending")
  /\ activeWorkers' = activeWorkers - 1
  /\ UNCHANGED <<jobs, isClosed, ctxDone, totalWorkers, scaler, sub, shut, keptLock,
                 results>>

WorkerSends(w) ==
  /\ wk[w].pc = "sending"
  /\ results' = [results EXCEPT ![wk[w].job] = wk[w].status]
  /\ wk' = [wk EXCEPT ![w] = Fresh]
  /\ UNCHANGED <<jobs, isClosed, ctxDone, totalWorkers, activeWorkers, scaler, sub,
                 shut, keptLock>>

\* The deferred totalWorkers-- and then wg.Done.
WorkerUncounted(w) ==
  /\ Step(w, "exiting", "exited")
  /\ totalWorkers' = totalWorkers - 1
  /\ UNCHANGED <<jobs, isClosed, ctxDone, activeWorkers, scaler, sub, shut, keptLock,
                 results>>

WorkerEnds(w) ==
  /\ wk[w].pc = "exited"
  /\ wk' = [wk EXCEPT ![w] = NoWorker]
  /\ UNCHANGED <<jobs, isClosed, ctxDone, totalWorkers, activeWorkers, scaler, sub,
                 shut, keptLock, results>>

----------------------------------------------------------------------------
(* scaleWorkers and addWorker *)

\* The length of the queue is read before the mutex is taken.
ScalerTick ==
  /\ scaler.pc = "idle"
  /\ scaler' = [pc |-> "read", jobs |-> Len(jobs)]
  /\ UNCHANGED <<jobs, isClosed, ctxDone, totalWorkers, activeWorkers, wk, sub, shut,
                 keptLock, results>>

\* Mutant: a pool without workers stays without.
ScalesUp_NotFromZero ==
  /\ scaler.jobs > totalWorkers /\ totalWorkers = activeWorkers
  /\ totalWorkers < MaxWorkers /\ totalWorkers > 0

ScalesUp ==
  scaler.jobs > totalWorkers /\ totalWorkers = activeWorkers /\ totalWorkers < MaxWorkers

ScalesDown ==
  scaler.jobs = 0 /\ activeWorkers < totalWorkers \div 2 /\ totalWorkers > MinWorkers

ScalerDecides ==
  /\ scaler.pc = "read"
  /\ scaler' = [scaler EXCEPT !.pc = IF ScalesUp THEN "adding"
                                     ELSE IF ScalesDown THEN "closing" ELSE "idle"]
  /\ UNCHANGED <<jobs, isClosed, ctxDone, totalWorkers, activeWorkers, wk, sub, shut,
                 keptLock, results>>

\* The worker runs before it is counted.
ScalerAdds ==
  /\ scaler.pc = "adding"
  /\ \E w \in Workers : wk[w].pc = "none" /\ wk' = [wk EXCEPT ![w] = Fresh]
  /\ scaler' = [scaler EXCEPT !.pc = "counting"]
  /\ UNCHANGED <<jobs, isClosed, ctxDone, totalWorkers, activeWorkers, sub, shut,
                 keptLock, results>>

\* Mutant: addWorker does not count the worker.
ScalerCounts_Not ==
  /\ scaler.pc = "counting"
  /\ scaler' = [scaler EXCEPT !.pc = "idle"]
  /\ UNCHANGED <<jobs, isClosed, ctxDone, totalWorkers, activeWorkers, wk, sub, shut,
                 keptLock, results>>

ScalerCounts ==
  /\ scaler.pc = "counting"
  /\ totalWorkers' = totalWorkers + 1
  /\ scaler' = [scaler EXCEPT !.pc = "idle"]
  /\ UNCHANGED <<jobs, isClosed, ctxDone, activeWorkers, wk, sub, shut, keptLock,
                 results>>

ScalerCancelled ==
  /\ ctxDone
  /\ scaler.pc \in {"idle", "closing"}
  /\ scaler' = [scaler EXCEPT !.pc = "stopped"]
  /\ UNCHANGED <<jobs, isClosed, ctxDone, totalWorkers, activeWorkers, wk, sub, shut,
                 keptLock, results>>

----------------------------------------------------------------------------
SubmitStep(j) == SubmitLock(j) \/ SubmitSend(j) \/ SubmitCancelled(j)

ShutdownStep(x) == ShutdownLock(x) \/ ShutdownDone(x) \/ ShutdownTimeout(x)

WorkerStep(w) ==
  \/ Take(w) \/ WorkerClosed(w) \/ WorkerCancelled(w) \/ WorkerToClose(w)
  \/ WorkerActive(w) \/ AttemptBegins(w) \/ AttemptCancelled(w) \/ AttemptEnds(w)
  \/ WorkerInactive(w) \/ WorkerSends(w) \/ WorkerUncounted(w) \/ WorkerEnds(w)

ScalerStep ==
  ScalerTick \/ ScalerDecides \/ ScalerAdds \/ ScalerCounts \/ ScalerCancelled

Next ==
  \/ \E j \in Jobs : SubmitBegin(j) \/ SubmitStep(j)
  \/ \E x \in Closers : ShutdownBegin(x) \/ ShutdownStep(x)
  \/ ParentCancel
  \/ \E w \in Workers : WorkerStep(w)
  \/ ScalerStep

Spec == Init /\ [][Next]_vars

\* Goroutines run, timers fire, and attempts end (their connections have read
\* and write deadlines).  Whether anybody calls Submit or Shutdown, or cancels,
\* is left open.
FairSpec ==
  /\ Spec
  /\ \A j \in Jobs : WF_vars(SubmitStep(j))
  /\ \A x \in Closers : WF_vars(ShutdownStep(x))
  /\ \A w \in Workers : WF_vars(WorkerStep(w))
  /\ WF_vars(ScalerStep)

----------------------------------------------------------------------------
(* Properties *)

\* However the scaler's reads, its addWorker and the workers' exits interleave,
\* no more than maxWorkers goroutines take jobs.
WorkersBounded == Cardinality({w \in Workers : wk[w].pc \in InLoop}) <= MaxWorkers

\* A Submit that is about to send never finds the channel closed (it would
\* panic): Shutdown closes it only when no Submit holds the read lock.
NoSendOnClosed == \A j \in Jobs : sub[j] = "sending" => ~ isClosed

\* Unless the context is cancelled, every job Submit took is answered, even if
\* it comes in before the scaler has added the first worker, fails on every
\* attempt, or a Shutdown closes the queue behind it.
Answered ==
  \A j \in Jobs : sub[j] = "accepted" ~> results[j] # "none" \/ ctxDone

\* "failed to add job: Worker pool closed already" (worker_pool.go:151): Submit
\* returns, at the latest with this error, also while the queue is full and
\* while a Shutdown waits for the lock or holds it.
SubmitReturns ==
  \A j \in Jobs : sub[j] = "begun" ~> sub[j] \in {"accepted", "refused"}

\* Shutdown gets the lock although Submits block on a full queue, and ends; its
\* timeout runs only once it has the lock, so it does not help before.
ShutdownReturns ==
  \A x \in Closers : shut[x] = "begun" ~> shut[x] \in {"done", "timedOut", "skipped"}

\* "results is the channel the channel where the job result will be sent"
\* (worker_pool.go:31): a job in the queue has a worker to take it, or a scaler
\* that is free to add one (it is not while it waits for a worker to close).
QueueServed ==
  jobs # << >> /\ ~ ctxDone =>
    (\E w \in Workers : wk[w].pc \in InLoop) \/ scaler.pc # "closing"

----------------------------------------------------------------------------
(* Inductive invariant *)

\* Workers that totalWorkers counts, and workers that activeWorkers counts.
Counted == {w \in Workers : wk[w].pc \in InLoop \cup {"exiting"}}

Active == {w \in Workers : wk[w].pc \in {"trying", "working", "finished"}}

\* totalWorkers lags behind by the worker that addWorker has started and not
\* yet counted; the scaler starts one only below maxWorkers.
Counters ==
  /\ activeWorkers = Cardinality(Active)
  /\ totalWorkers = Cardinality(Counted) - (IF scaler.pc = "counting" THEN 1 ELSE 0)
  /\ totalWorkers <= MaxWorkers
  /\ scaler.pc \in {"adding", "counting"} => totalWorkers < MaxWorkers

Holds(w, j) == wk[w].pc \in InLoop /\ wk[w].job = j

Unanswered(j) == sub[j] = "accepted" /\ results[j] = "none"

\* An unanswered job is in one place: once in the queue, or with one worker.
OnePlace ==
  /\ \A i, k \in 1 .. Len(jobs) : jobs[i] = jobs[k] => i = k
  /\ \A i \in 1 .. Len(jobs) : Unanswered(jobs[i]) /\ \A w \in Workers : ~ Holds(w, jobs[i])
  /\ \A w \in Workers : wk[w].pc \in InLoop \ {"select"} =>
       wk[w].job \in Jobs /\ Unanswered(wk[w].job)
  /\ \A v, w \in Workers : \A j \in Jobs : Holds(v, j) /\ Holds(w, j) => v = w
  /\ \A j \in Jobs : results[j] # "none" => sub[j] = "accepted"

\* What a worker knows of its job, from the receive to the send of the result.
Outcomes ==
  \A w \in Workers :
    /\ wk[w].pc = "select" => wk[w] = Fresh
    /\ wk[w].pc = "taken" => wk[w].tries = 0
    /\ wk[w].pc \in {"finished", "sending"} => wk[w].status # "none"
    /\ wk[w].status = "failed" => wk[w].tries = MaxRetries
    /\ wk[w].status = "cancelled" => ctxDone

\* The inductive invariant from which the bound on the workers, the absence of
\* sends on the closed channel and the job queue's promises follow.
IInv == TypeOK /\ NoSendOnClosed /\ Counters /\ OnePlace /\ Outcomes

----------------------------------------------------------------------------
(* What the pool promises *)

Holders(j) == {w \in Workers : wk[w].pc \in InLoop /\ wk[w].job = j}

\* What has become of job j, as its submitter could tell.
StateOf(j) ==
  IF results[j] # "none" THEN results[j]
  ELSE IF sub[j] = "refused" THEN "refused"
  ELSE IF sub[j] # "accepted" THEN "new"
  ELSE IF \E i \in DOMAIN jobs : jobs[i] = j THEN "queued"
  ELSE IF Holders(j) # {} THEN "running" ELSE "lost"

TriesOf(j) ==
  IF StateOf(j) = "running" THEN wk[CHOOSE w \in Holders(j) : TRUE].tries ELSE 0

Queue == INSTANCE JobQueue WITH
  state <- [j \in Jobs |-> StateOf(j)],
  queue <- jobs,
  tries <- [j \in Jobs |-> TriesOf(j)],
  closed <- isClosed,
  cancelled <- ctxDone

\* The pool is a job queue: every step of a goroutine, whatever the scaler has
\* read and whoever shuts down, is a step of JobQueue or leaves the jobs as
\* they are.  Jobs start in the order of acceptance, at most maxWorkers run,
\* none is tried more than maxRetries + 1 times or answered twice, and none is
\* dropped before the context is cancelled.
ImplementsQueue == Queue!Spec

=============================================================================
