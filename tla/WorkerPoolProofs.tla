-------------------------- MODULE WorkerPoolProofs --------------------------
(***************************************************************************)
(* IInv of module WorkerPool is an inductive invariant, hence the pool     *)
(* never has more than maxWorkers workers and never sends on the closed    *)
(* channel.  With it, every step of the pool is a step of JobQueue or      *)
(* leaves the jobs as they are.                                            *)
(***************************************************************************)
EXTENDS WorkerPool, FiniteSetTheorems, TLAPS

\* The workers that f puts at one of the points P.
At(f, P) == {v \in Workers : f[v].pc \in P}

\* Sets of workers are finite.
LEMMA AtType ==
  ASSUME NEW f, NEW P
  PROVE  /\ IsFiniteSet(At(f, P)) /\ Cardinality(At(f, P)) \in Nat
         /\ Cardinality(At(f, P)) <= Cardinality(Workers)
<1>1. At(f, P) \in SUBSET Workers
  BY DEF At
<1>2. IsFiniteSet(At(f, P)) /\ Cardinality(At(f, P)) <= Cardinality(Workers)
  BY <1>1, WorkersAssumption, FS_Subset
<1> QED BY <1>2, FS_CardinalityType

\* The program counter of one worker changes.
LEMMA AtStep ==
  ASSUME NEW f, NEW g, NEW w \in Workers, NEW P,
         \A v \in Workers \ {w} : g[v].pc = f[v].pc
  PROVE  Cardinality(At(g, P)) = Cardinality(At(f, P)) + (IF g[w].pc \in P THEN 1 ELSE 0)
                                                         - (IF f[w].pc \in P THEN 1 ELSE 0)
<1> DEFINE n == Cardinality(At(f, P))
<1>0. IsFiniteSet(At(f, P)) /\ n \in Nat
  BY AtType
<1>1. CASE g[w].pc \in P <=> f[w].pc \in P
  <2>1. At(g, P) = At(f, P)
    BY <1>1 DEF At
  <2> QED BY <1>0, <1>1, <2>1
<1>2. CASE g[w].pc \in P /\ f[w].pc \notin P
  <2>1. At(g, P) = At(f, P) \cup {w} /\ w \notin At(f, P)
    BY <1>2 DEF At
  <2>2. Cardinality(At(f, P) \cup {w}) = n + 1
    BY <1>0, <2>1, FS_AddElement
  <2> QED BY <1>0, <1>2, <2>1, <2>2
<1>3. CASE g[w].pc \notin P /\ f[w].pc \in P
  <2>1. At(g, P) = At(f, P) \ {w} /\ w \in At(f, P)
    BY <1>3 DEF At
  <2>2. Cardinality(At(f, P) \ {w}) = n - 1
    BY <1>0, <2>1, FS_RemoveElement
  <2> QED BY <1>0, <1>3, <2>1, <2>2
<1> QED BY <1>1, <1>2, <1>3

\* Where a worker is counted by totalWorkers, and by activeWorkers.
CountedAt == InLoop \cup {"exiting"}

ActiveAt == {"trying", "working", "finished"}

\* The sets that the counters count.
LEMMA CountedSets == Counted = At(wk, CountedAt) /\ Active = At(wk, ActiveAt)
BY DEF Counted, Active, At, CountedAt, ActiveAt

\* How a change of one worker changes what the counters count.
LEMMA CountedStep ==
  ASSUME NEW w \in Workers, \A v \in Workers \ {w} : wk'[v].pc = wk[v].pc
  PROVE  /\ Cardinality(Counted) \in Nat /\ Cardinality(Active) \in Nat
         /\ Cardinality(Counted') = Cardinality(Counted)
              + (IF wk'[w].pc \in CountedAt THEN 1 ELSE 0)
              - (IF wk[w].pc \in CountedAt THEN 1 ELSE 0)
         /\ Cardinality(Active') = Cardinality(Active)
              + (IF wk'[w].pc \in ActiveAt THEN 1 ELSE 0)
              - (IF wk[w].pc \in ActiveAt THEN 1 ELSE 0)
<1>1. Counted' = At(wk', CountedAt) /\ Active' = At(wk', ActiveAt)
  BY DEF Counted, Active, At, CountedAt, ActiveAt
<1>2. Cardinality(At(wk, CountedAt)) \in Nat /\ Cardinality(At(wk, ActiveAt)) \in Nat
  BY AtType
<1>3. Cardinality(At(wk', CountedAt)) = Cardinality(At(wk, CountedAt))
              + (IF wk'[w].pc \in CountedAt THEN 1 ELSE 0)
              - (IF wk[w].pc \in CountedAt THEN 1 ELSE 0)
  BY AtStep
<1>4. Cardinality(At(wk', ActiveAt)) = Cardinality(At(wk, ActiveAt))
              + (IF wk'[w].pc \in ActiveAt THEN 1 ELSE 0)
              - (IF wk[w].pc \in ActiveAt THEN 1 ELSE 0)
  BY AtStep
<1> QED BY <1>1, <1>2, <1>3, <1>4, CountedSets

\* activeWorkers counts workers.
LEMMA CountersType ==
  ASSUME Counters
  PROVE  /\ activeWorkers \in 0 .. Cardinality(Workers)
         /\ totalWorkers \in Int
<1>1. /\ Cardinality(Active) \in Nat /\ Cardinality(Active) <= Cardinality(Workers)
      /\ Cardinality(Counted) \in Nat
  BY CountedSets, AtType
<1>2. Cardinality(Workers) \in Nat
  BY WorkersAssumption, FS_CardinalityType
<1> QED BY <1>1, <1>2 DEF Counters

----------------------------------------------------------------------------
WorkerRecord == [pc : InLoop \cup {"none", "exiting", "exited"}, job : Jobs \cup {NoJob},
                 tries : 0 .. MaxRetries, status : Statuses]

\* Outcomes of one worker.
Outcome(r) ==
  /\ r.pc = "select" => r = Fresh
  /\ r.pc = "taken" => r.tries = 0
  /\ r.pc \in {"finished", "sending"} => r.status # "none"
  /\ r.status = "failed" => r.tries = MaxRetries
  /\ r.status = "cancelled" => ctxDone

\* A worker that has started, and one that has not.
LEMMA StartedWorker ==
  /\ Fresh = [pc |-> "select", job |-> NoJob, tries |-> 0, status |-> "none"]
  /\ Fresh \in WorkerRecord /\ NoWorker \in WorkerRecord
  /\ Outcome(Fresh) /\ Outcome(NoWorker)
BY PoolConfigAssumption DEF Fresh, NoWorker, WorkerRecord, Outcome, InLoop, Statuses

\* Initially the minWorkers workers that start has added are counted.
LEMMA InitIInv == Init => IInv
<1> SUFFICES ASSUME Init
             PROVE  IInv
  OBVIOUS
<1>1. PICK W \in SUBSET Workers :
        /\ Cardinality(W) = MinWorkers
        /\ wk = [w \in Workers |-> IF w \in W THEN Fresh ELSE NoWorker]
  BY DEF Init
<1>2. \A w \in Workers : wk[w] \in WorkerRecord /\ Outcome(wk[w])
  BY <1>1, StartedWorker
<1>3. Counted = W /\ Active = {}
  BY <1>1, StartedWorker DEF Counted, Active, InLoop, NoWorker
<1>4. Counters
  BY <1>1, <1>3, FS_EmptySet, PoolConfigAssumption DEF Init, Counters
<1>5. TypeOK
  <2>1. jobs \in Seq(Jobs) /\ Len(jobs) <= BufferSize
    BY PoolConfigAssumption DEF Init
  <2>2. wk \in [Workers -> WorkerRecord]
    BY <1>1, <1>2
  <2>3. 0 \in 0 .. BufferSize
    BY PoolConfigAssumption
  <2> QED BY <1>4, <2>1, <2>2, <2>3, CountersType DEF Init, TypeOK, WorkerRecord, Statuses
<1>6. Outcomes
  BY <1>2 DEF Outcomes, Outcome
<1>7. OnePlace
  <2>1. \A w \in Workers : wk[w].job = NoJob /\ wk[w].pc \notin InLoop \ {"select"}
    BY <1>1, StartedWorker DEF NoWorker, InLoop
  <2>2. jobs = << >> /\ Len(jobs) = 0 /\ \A j \in Jobs : results[j] = "none"
    BY DEF Init
  <2> QED BY <2>1, <2>2, NoJobAssumption DEF OnePlace, Holds
<1>8. NoSendOnClosed
  BY DEF Init, NoSendOnClosed
<1> QED BY <1>4, <1>5, <1>6, <1>7, <1>8 DEF IInv

----------------------------------------------------------------------------
\* A step that changes one worker only, and not the job it has.
LEMMA WorkerMoveKeeps ==
  ASSUME IInv, NEW w \in Workers, NEW r \in WorkerRecord, Outcome(r),
         wk' = [wk EXCEPT ![w] = r],
         r.pc \in InLoop \ {"select"} =>
           wk[w].pc \in InLoop \ {"select"} /\ r.job = wk[w].job,
         scaler' \in [pc : {"idle", "read", "adding", "counting", "closing", "stopped"},
                      jobs : 0 .. BufferSize],
         Counters',
         UNCHANGED <<jobs, isClosed, ctxDone, sub, shut, keptLock, results>>
  PROVE  IInv'
<1>1. /\ wk \in [Workers -> WorkerRecord]
      /\ wk' \in [Workers -> WorkerRecord]
      /\ wk'[w] = r /\ \A v \in Workers \ {w} : wk'[v] = wk[v]
  BY DEF IInv, TypeOK, WorkerRecord
<1>2. TypeOK'
  <2>1. (activeWorkers \in 0 .. Cardinality(Workers))' /\ (totalWorkers \in Int)'
    BY CountersType, PTL
  <2> QED BY <1>1, <2>1 DEF IInv, TypeOK, WorkerRecord
<1>3. Outcomes'
  BY <1>1 DEF IInv, Outcomes, Outcome
<1>4. NoSendOnClosed'
  BY DEF IInv, NoSendOnClosed
<1>5. OnePlace'
  <2>1. \A v \in Workers : wk'[v].pc \in InLoop \ {"select"} =>
           wk[v].pc \in InLoop \ {"select"} /\ wk'[v].job = wk[v].job
    BY <1>1
  <2>2. \A v \in Workers : \A j \in Jobs : Holds(v, j)' => Holds(v, j)
    BY <1>3, <2>1, NoJobAssumption DEF Holds, Outcomes, Fresh, NoWorker
  <2>3. \A i \in 1 .. Len(jobs) : jobs[i] \in Jobs
    BY DEF IInv, TypeOK
  <2>4. \A j \in Jobs : Unanswered(j)' <=> Unanswered(j)
    BY DEF Unanswered
  <2> QED BY <2>1, <2>2, <2>3, <2>4 DEF IInv, OnePlace
<1> QED BY <1>2, <1>3, <1>4, <1>5 DEF IInv

\* Steps of a worker that neither takes a job nor answers it.
LEMMA WorkerStepKeeps ==
  ASSUME IInv, NEW w \in Workers,
         \/ WorkerClosed(w) \/ WorkerCancelled(w) \/ WorkerToClose(w) \/ WorkerActive(w)
         \/ AttemptBegins(w) \/ AttemptCancelled(w) \/ AttemptEnds(w)
         \/ WorkerInactive(w) \/ WorkerUncounted(w) \/ WorkerEnds(w)
  PROVE  IInv'
<1>1. /\ wk \in [Workers -> WorkerRecord] /\ Counters /\ Outcome(wk[w])
      /\ scaler \in [pc : {"idle", "read", "adding", "counting", "closing", "stopped"},
                     jobs : 0 .. BufferSize]
  BY DEF IInv, TypeOK, WorkerRecord, Outcomes, Outcome
<1>2. ASSUME NEW q \in WorkerRecord, Outcome(q), wk' = [wk EXCEPT ![w] = q],
             q.pc \in InLoop \ {"select"} =>
               wk[w].pc \in InLoop \ {"select"} /\ q.job = wk[w].job,
             \/ UNCHANGED scaler
             \/ scaler.pc = "closing" /\ scaler' = [scaler EXCEPT !.pc = "idle"],
             \/ UNCHANGED totalWorkers /\ (q.pc \in CountedAt <=> wk[w].pc \in CountedAt)
             \/ totalWorkers' = totalWorkers - 1
                  /\ q.pc \notin CountedAt /\ wk[w].pc \in CountedAt,
             \/ UNCHANGED activeWorkers /\ (q.pc \in ActiveAt <=> wk[w].pc \in ActiveAt)
             \/ activeWorkers' = activeWorkers + 1
                  /\ q.pc \in ActiveAt /\ wk[w].pc \notin ActiveAt
             \/ activeWorkers' = activeWorkers - 1
                  /\ q.pc \notin ActiveAt /\ wk[w].pc \in ActiveAt,
             UNCHANGED <<jobs, isClosed, ctxDone, sub, shut, keptLock, results>>
      PROVE  IInv'
  <2>1. wk'[w] = q /\ \A v \in Workers \ {w} : wk'[v].pc = wk[v].pc
    BY <1>1, <1>2
  <2>2. /\ scaler' \in [pc : {"idle", "read", "adding", "counting", "closing", "stopped"},
                        jobs : 0 .. BufferSize]
        /\ scaler'.pc = "counting" <=> scaler.pc = "counting"
        /\ scaler'.pc \in {"adding", "counting"} => scaler.pc \in {"adding", "counting"}
    BY <1>1, <1>2
  <2>3. Counters'
    BY <1>1, <1>2, <2>1, <2>2, CountedStep, CountersType, PoolConfigAssumption DEF Counters
  <2> QED BY <1>2, <2>2, <2>3, WorkerMoveKeeps
<1>3. ASSUME NEW a, NEW p \in InLoop \cup {"none", "exiting", "exited"}, Step(w, a, p)
      PROVE  \E q \in WorkerRecord :
               /\ wk' = [wk EXCEPT ![w] = q] /\ wk[w].pc = a
               /\ q.pc = p /\ q.job = wk[w].job /\ q.tries = wk[w].tries
               /\ q.status = wk[w].status
  <2> DEFINE q == [wk[w] EXCEPT !.pc = p]
  <2>1. wk' = [wk EXCEPT ![w] = q] /\ wk[w].pc = a
    BY <1>1, <1>3 DEF Step
  <2>2. /\ q \in WorkerRecord /\ q.pc = p /\ q.job = wk[w].job
        /\ q.tries = wk[w].tries /\ q.status = wk[w].status
    BY <1>1, <1>3 DEF WorkerRecord
  <2> HIDE DEF q
  <2> QED BY <2>1, <2>2
<1>4. CASE WorkerClosed(w) \/ WorkerCancelled(w) \/ WorkerToClose(w)
  <2>1. PICK q \in WorkerRecord :
          /\ wk' = [wk EXCEPT ![w] = q] /\ wk[w].pc \in {"select", "sending"}
          /\ q.pc = "exiting" /\ q.tries = wk[w].tries /\ q.status = wk[w].status
    BY <1>3, <1>4 DEF WorkerClosed, WorkerCancelled, WorkerToClose
  <2>2. /\ UNCHANGED <<totalWorkers, activeWorkers>>
        /\ \/ UNCHANGED scaler
           \/ scaler.pc = "closing" /\ scaler' = [scaler EXCEPT !.pc = "idle"]
        /\ UNCHANGED <<jobs, isClosed, ctxDone, sub, shut, keptLock, results>>
    BY <1>4 DEF WorkerClosed, WorkerCancelled, WorkerToClose
  <2>3. Outcome(q)
    BY <1>1, <2>1 DEF Outcome, Fresh, NoWorker
  <2> QED BY <1>1, <1>2, <2>1, <2>2, <2>3 DEF InLoop, CountedAt, ActiveAt
<1>5. CASE WorkerActive(w)
  <2>1. PICK q \in WorkerRecord :
          /\ wk' = [wk EXCEPT ![w] = q] /\ wk[w].pc = "taken" /\ q.job = wk[w].job
          /\ q.pc = "trying" /\ q.tries = wk[w].tries /\ q.status = wk[w].status
    BY <1>3, <1>5 DEF WorkerActive, InLoop
  <2>2. Outcome(q)
    BY <1>1, <2>1 DEF Outcome
  <2> QED BY <1>1, <1>2, <1>5, <2>1, <2>2
          DEF WorkerActive, InLoop, CountedAt, ActiveAt
<1>6. CASE AttemptBegins(w)
  <2>1. PICK q \in WorkerRecord :
          /\ wk' = [wk EXCEPT ![w] = q] /\ wk[w].pc = "trying" /\ q.job = wk[w].job
          /\ q.pc = "working" /\ q.tries = wk[w].tries /\ q.status = wk[w].status
    BY <1>3, <1>6 DEF AttemptBegins, InLoop
  <2>2. Outcome(q)
    BY <1>1, <2>1 DEF Outcome
  <2> QED BY <1>1, <1>2, <1>6, <2>1, <2>2
          DEF AttemptBegins, InLoop, CountedAt, ActiveAt
<1>7. ASSUME NEW o \in Statuses \ {"none"}, NEW a \in {"trying", "working"}, Finish(w, a, o),
             o = "failed" => wk[w].tries = MaxRetries, o = "cancelled" => ctxDone,
             UNCHANGED <<jobs, isClosed, ctxDone, totalWorkers, activeWorkers, scaler, sub,
                         shut, keptLock, results>>
      PROVE  IInv'
  <2> DEFINE q == [wk[w] EXCEPT !.pc = "finished", !.status = o]
  <2>1. /\ wk' = [wk EXCEPT ![w] = q] /\ wk[w].pc = a /\ q \in WorkerRecord
        /\ q.pc = "finished" /\ q.job = wk[w].job /\ q.tries = wk[w].tries /\ q.status = o
    BY <1>1, <1>7 DEF Finish, WorkerRecord, InLoop
  <2> HIDE DEF q
  <2>2. Outcome(q)
    BY <1>1, <1>7, <2>1 DEF Outcome
  <2> QED BY <1>1, <1>2, <1>7, <2>1, <2>2 DEF InLoop, CountedAt, ActiveAt
<1>8. CASE AttemptCancelled(w)
  BY <1>7, <1>8 DEF AttemptCancelled, Statuses
<1>9. CASE AttemptEnds(w)
  <2>1. CASE Finish(w, "working", "success")
    BY <1>7, <1>9, <2>1 DEF AttemptEnds, Statuses
  <2>2. CASE ~ Retries(w) /\ Finish(w, "working", "failed")
    <3>1. wk[w].tries = MaxRetries
      BY <1>1, <2>2, PoolConfigAssumption DEF Retries, WorkerRecord
    <3> QED BY <1>7, <1>9, <2>2, <3>1 DEF AttemptEnds, Statuses
  <2>3. CASE /\ Retries(w)
             /\ wk[w].pc = "working"
             /\ wk' = [wk EXCEPT ![w].pc = "trying", ![w].tries = @ + 1]
    <3> DEFINE q == [wk[w] EXCEPT !.pc = "trying", !.tries = @ + 1]
    <3>1. wk[w].tries + 1 \in 0 .. MaxRetries
      BY <1>1, <2>3, PoolConfigAssumption DEF Retries, WorkerRecord
    <3>2. /\ wk' = [wk EXCEPT ![w] = q] /\ q \in WorkerRecord
          /\ q.pc = "trying" /\ q.job = wk[w].job /\ q.status = wk[w].status
      BY <1>1, <2>3, <3>1 DEF WorkerRecord, InLoop
    <3> HIDE DEF q
    <3>3. wk[w].status # "failed"
      BY <1>1, <2>3, PoolConfigAssumption DEF Retries, Outcome
    <3>4. Outcome(q)
      BY <1>1, <3>2, <3>3 DEF Outcome
    <3> QED BY <1>1, <1>2, <1>9, <2>3, <3>2, <3>4
            DEF AttemptEnds, InLoop, CountedAt, ActiveAt
  <2> QED BY <1>9, <2>1, <2>2, <2>3 DEF AttemptEnds
<1>10. CASE WorkerInactive(w)
  <2>1. PICK q \in WorkerRecord :
          /\ wk' = [wk EXCEPT ![w] = q] /\ wk[w].pc = "finished" /\ q.job = wk[w].job
          /\ q.pc = "sending" /\ q.tries = wk[w].tries /\ q.status = wk[w].status
    BY <1>3, <1>10 DEF WorkerInactive, InLoop
  <2>2. Outcome(q)
    BY <1>1, <2>1 DEF Outcome
  <2> QED BY <1>1, <1>2, <1>10, <2>1, <2>2
          DEF WorkerInactive, InLoop, CountedAt, ActiveAt
<1>11. CASE WorkerUncounted(w)
  <2>1. PICK q \in WorkerRecord :
          /\ wk' = [wk EXCEPT ![w] = q] /\ wk[w].pc = "exiting"
          /\ q.pc = "exited" /\ q.tries = wk[w].tries /\ q.status = wk[w].status
    BY <1>3, <1>11 DEF WorkerUncounted
  <2>2. Outcome(q)
    BY <1>1, <2>1 DEF Outcome
  <2> QED BY <1>1, <1>2, <1>11, <2>1, <2>2
          DEF WorkerUncounted, InLoop, CountedAt, ActiveAt
<1>12. CASE WorkerEnds(w)
  <2>1. NoWorker.pc = "none"
    BY DEF NoWorker
  <2> QED BY <1>1, <1>2, <1>12, <2>1, StartedWorker
          DEF WorkerEnds, InLoop, CountedAt, ActiveAt
<1> QED BY <1>4, <1>5, <1>6, <1>8, <1>9, <1>10, <1>11, <1>12
\* The oldest job leaves the queue for one worker.
LEMMA TakeKeeps ==
  ASSUME IInv, NEW w \in Workers, Take(w)
  PROVE  IInv'
<1> DEFINE j == Head(jobs)
           q == [wk[w] EXCEPT !.pc = "taken", !.job = j]
<1>1. /\ wk \in [Workers -> WorkerRecord] /\ Outcome(wk[w])
      /\ jobs \in Seq(Jobs) /\ jobs # << >>
  BY DEF IInv, TypeOK, WorkerRecord, Outcomes, Outcome, Take
<1>2. /\ j \in Jobs /\ j = jobs[1] /\ Len(jobs) \in Nat \ {0}
      /\ jobs' \in Seq(Jobs) /\ Len(jobs') = Len(jobs) - 1
      /\ \A i \in 1 .. Len(jobs') : i + 1 \in 1 .. Len(jobs) /\ jobs'[i] = jobs[i + 1]
  BY <1>1 DEF Take
<1>3. /\ wk[w] = Fresh /\ wk[w].pc = "select" /\ wk[w].tries = 0 /\ wk[w].status = "none"
  BY <1>1, StartedWorker DEF Outcome, Take
<1>4. /\ wk' = [wk EXCEPT ![w] = q] /\ q \in WorkerRecord
      /\ q.pc = "taken" /\ q.job = j /\ q.tries = 0 /\ q.status = "none"
  BY <1>1, <1>2, <1>3 DEF Take, WorkerRecord, InLoop
<1> HIDE DEF q, j
<1>5. /\ wk' \in [Workers -> WorkerRecord]
      /\ wk'[w] = q /\ \A v \in Workers \ {w} : wk'[v] = wk[v]
  BY <1>1, <1>4
<1>6. Counters'
  <2>1. wk'[w].pc \in CountedAt /\ wk[w].pc \in CountedAt
        /\ wk'[w].pc \notin ActiveAt /\ wk[w].pc \notin ActiveAt
    BY <1>3, <1>4, <1>5 DEF CountedAt, ActiveAt, InLoop
  <2> QED BY <1>5, <2>1, CountedStep DEF IInv, Take, Counters
<1>7. TypeOK'
  <2>1. (activeWorkers \in 0 .. Cardinality(Workers))' /\ (totalWorkers \in Int)'
    BY <1>6, CountersType, PTL
  <2>2. Len(jobs') <= BufferSize
    BY <1>2, PoolConfigAssumption DEF IInv, TypeOK
  <2> QED BY <1>2, <1>5, <2>1, <2>2 DEF IInv, TypeOK, WorkerRecord, Take
<1>8. Outcomes'
  <2>1. Outcome(q)
    BY <1>4 DEF Outcome
  <2>2. \A v \in Workers : Outcome(wk'[v])
    BY <1>5, <2>1 DEF IInv, Outcomes, Outcome
  <2> QED BY <2>2 DEF Outcomes, Outcome, Take
<1>9. NoSendOnClosed'
  BY DEF IInv, NoSendOnClosed, Take
<1>10. OnePlace'
  <2>1. \A v \in Workers : \A k \in Jobs : Holds(v, k)' <=> Holds(v, k) \/ (v = w /\ k = j)
    BY <1>3, <1>4, <1>5, NoJobAssumption DEF Holds, InLoop, Fresh, NoWorker
  <2>2. \A k \in Jobs : Unanswered(k)' <=> Unanswered(k)
    BY DEF Unanswered, Take
  <2>3. Unanswered(j) /\ \A v \in Workers : ~ Holds(v, j)
    BY <1>2 DEF IInv, OnePlace
  <2>4. \A i \in 1 .. Len(jobs') : jobs'[i] \in Jobs /\ jobs'[i] # j
    <3> SUFFICES ASSUME NEW i \in 1 .. Len(jobs')
                 PROVE  jobs'[i] \in Jobs /\ jobs'[i] # j
      OBVIOUS
    <3>1. i + 1 \in 1 .. Len(jobs) /\ 1 \in 1 .. Len(jobs) /\ jobs'[i] = jobs[i + 1]
          /\ i + 1 # 1
      BY <1>2
    <3> QED BY <1>1, <1>2, <3>1 DEF IInv, OnePlace
  <2>5. \A i, k \in 1 .. Len(jobs') : jobs'[i] = jobs'[k] => i = k
    <3> SUFFICES ASSUME NEW i \in 1 .. Len(jobs'), NEW k \in 1 .. Len(jobs'),
                        jobs'[i] = jobs'[k]
                 PROVE  i = k
      OBVIOUS
    <3>1. i + 1 = k + 1
      BY <1>2 DEF IInv, OnePlace
    <3> QED BY <3>1
  <2>6. \A i \in 1 .. Len(jobs') :
          Unanswered(jobs'[i]) /\ \A v \in Workers : ~ Holds(v, jobs'[i])
    BY <1>2 DEF IInv, OnePlace
  <2>7. \A i \in 1 .. Len(jobs') : \A k \in Jobs : k = jobs'[i] =>
          Unanswered(k)' /\ \A v \in Workers : ~ Holds(v, k)'
    BY <2>1, <2>2, <2>4, <2>6
  <2>8. \A v \in Workers : wk'[v].pc \in InLoop \ {"select"} =>
          wk'[v].job \in Jobs /\ Unanswered(wk'[v].job)
    BY <1>2, <1>4, <1>5, <2>3 DEF IInv, OnePlace
  <2>9. \A u, v \in Workers : \A k \in Jobs : Holds(u, k)' /\ Holds(v, k)' => u = v
    BY <2>1, <2>3 DEF IInv, OnePlace
  <2>10. sub' = sub /\ results' = results
    BY DEF Take
  <2> QED BY <2>4, <2>5, <2>7, <2>8, <2>9, <2>10 DEF IInv, OnePlace, Unanswered, Holds
<1> QED BY <1>6, <1>7, <1>8, <1>9, <1>10 DEF IInv

\* A worker answers the job it has, and is ready for the next.
LEMMA WorkerSendsKeeps ==
  ASSUME IInv, NEW w \in Workers, WorkerSends(w)
  PROVE  IInv'
<1> DEFINE j == wk[w].job
<1>1. /\ wk \in [Workers -> WorkerRecord] /\ results \in [Jobs -> Statuses]
      /\ wk[w].pc = "sending" /\ wk[w].status \in Statuses \ {"none"}
      /\ j \in Jobs /\ Unanswered(j) /\ Holds(w, j)
  BY DEF IInv, TypeOK, WorkerRecord, Outcomes, OnePlace, WorkerSends, InLoop, Holds
<1>2. /\ wk' \in [Workers -> WorkerRecord]
      /\ wk'[w] = Fresh /\ \A v \in Workers \ {w} : wk'[v] = wk[v]
      /\ results' \in [Jobs -> Statuses]
      /\ results'[j] # "none" /\ \A k \in Jobs \ {j} : results'[k] = results[k]
  BY <1>1, StartedWorker DEF WorkerSends
<1>3. Fresh.pc = "select" /\ Fresh.job = NoJob
  BY StartedWorker
<1> HIDE DEF j
<1>4. Counters'
  <2>1. wk'[w].pc \in CountedAt /\ wk[w].pc \in CountedAt
        /\ wk'[w].pc \notin ActiveAt /\ wk[w].pc \notin ActiveAt
    BY <1>1, <1>2, <1>3 DEF CountedAt, ActiveAt, InLoop
  <2> QED BY <1>2, <2>1, CountedStep DEF IInv, WorkerSends, Counters
<1>5. TypeOK'
  <2>1. (activeWorkers \in 0 .. Cardinality(Workers))' /\ (totalWorkers \in Int)'
    BY <1>4, CountersType, PTL
  <2> QED BY <1>2, <2>1 DEF IInv, TypeOK, WorkerRecord, WorkerSends
<1>6. Outcomes'
  <2>1. \A v \in Workers : Outcome(wk'[v])
    BY <1>2, StartedWorker DEF IInv, Outcomes, Outcome
  <2> QED BY <2>1 DEF Outcomes, Outcome, WorkerSends
<1>7. NoSendOnClosed'
  BY DEF IInv, NoSendOnClosed, WorkerSends
<1>8. OnePlace'
  <2>1. \A v \in Workers : \A k \in Jobs : Holds(v, k)' => Holds(v, k) /\ k # j
    BY <1>1, <1>2, <1>3, NoJobAssumption DEF Holds, IInv, OnePlace
  <2>2. \A k \in Jobs : k # j /\ Unanswered(k) => Unanswered(k)'
    BY <1>2 DEF Unanswered, WorkerSends
  <2>3. \A i \in 1 .. Len(jobs) : jobs[i] \in Jobs /\ jobs[i] # j
    BY <1>1 DEF IInv, OnePlace, TypeOK
  <2>4. \A v \in Workers : wk'[v].pc \in InLoop \ {"select"} =>
          wk'[v].job \in Jobs /\ wk'[v].job # j /\ Unanswered(wk'[v].job)
    BY <1>1, <1>2, <1>3 DEF IInv, OnePlace, Holds
  <2>5. jobs' = jobs /\ sub' = sub
    BY DEF WorkerSends
  <2>6. \A k \in Jobs : results'[k] # "none" => sub[k] = "accepted"
    BY <1>1, <1>2 DEF IInv, OnePlace, Unanswered
  <2>7. \A v \in Workers : wk'[v].pc \in InLoop \ {"select"} =>
          /\ wk'[v].job \in Jobs
          /\ sub[wk'[v].job] = "accepted" /\ results'[wk'[v].job] = "none"
    BY <1>2, <2>4 DEF Unanswered
  <2>8. \A i \in 1 .. Len(jobs) :
          /\ sub[jobs[i]] = "accepted" /\ results'[jobs[i]] = "none"
          /\ \A v \in Workers : \A k \in Jobs : k = jobs[i] => ~ Holds(v, k)'
    BY <1>2, <2>1, <2>3 DEF IInv, OnePlace, Unanswered
  <2>9. \A u, v \in Workers : \A k \in Jobs : Holds(u, k)' /\ Holds(v, k)' => u = v
    BY <2>1 DEF IInv, OnePlace
  <2> QED BY <2>3, <2>5, <2>6, <2>7, <2>8, <2>9 DEF IInv, OnePlace, Unanswered, Holds
<1> QED BY <1>4, <1>5, <1>6, <1>7, <1>8 DEF IInv

----------------------------------------------------------------------------
\* Steps that leave the workers and the counters alone, and the queue too.
LEMMA CallerMoveKeeps ==
  ASSUME IInv,
         UNCHANGED <<jobs, totalWorkers, activeWorkers, wk, results>>,
         isClosed' \in BOOLEAN, ctxDone' \in BOOLEAN, keptLock' \in BOOLEAN,
         ctxDone => ctxDone',
         scaler' \in [pc : {"idle", "read", "adding", "counting", "closing", "stopped"},
                      jobs : 0 .. BufferSize],
         scaler'.pc = "counting" <=> scaler.pc = "counting",
         scaler'.pc \in {"adding", "counting"} => totalWorkers < MaxWorkers,
         sub' \in [Jobs -> {"idle", "begun", "sending", "accepted", "refused"}],
         shut' \in [Closers -> {"idle", "begun", "waiting", "done", "timedOut", "skipped"}],
         \A j \in Jobs : sub'[j] = "accepted" <=> sub[j] = "accepted",
         \A j \in Jobs : sub'[j] = "sending" => ~ isClosed'
  PROVE  IInv'
<1>1. TypeOK'
  BY DEF IInv, TypeOK
<1>2. NoSendOnClosed'
  BY DEF NoSendOnClosed
<1>3. Counters'
  BY DEF IInv, Counters, Counted, Active
<1>4. OnePlace'
  <2>1. \A i \in 1 .. Len(jobs) : jobs[i] \in Jobs
    BY DEF IInv, TypeOK
  <2> QED BY <2>1 DEF IInv, OnePlace, Unanswered, Holds
<1>5. Outcomes'
  BY DEF IInv, Outcomes
<1> QED BY <1>1, <1>2, <1>3, <1>4, <1>5 DEF IInv

\* A Submit that puts its job in the queue holds the read lock.
LEMMA SubmitSendKeeps ==
  ASSUME IInv, NEW j \in Jobs, SubmitSend(j)
  PROVE  IInv'
<1>1. /\ jobs \in Seq(Jobs) /\ Len(jobs) \in Nat /\ jobs' = Append(jobs, j)
      /\ sub \in [Jobs -> {"idle", "begun", "sending", "accepted", "refused"}]
      /\ sub[j] = "sending" /\ sub' = [sub EXCEPT ![j] = "accepted"]
      /\ wk' = wk /\ results' = results
  BY DEF IInv, TypeOK, SubmitSend
<1>2. /\ jobs' \in Seq(Jobs) /\ Len(jobs') = Len(jobs) + 1
      /\ jobs'[Len(jobs) + 1] = j
      /\ \A i \in 1 .. Len(jobs) : jobs'[i] = jobs[i] /\ jobs[i] \in Jobs
  BY <1>1
<1>3. TypeOK'
  <2>1. Len(jobs') <= BufferSize
    BY <1>1, <1>2, PoolConfigAssumption DEF SubmitSend
  <2> QED BY <1>1, <1>2, <2>1 DEF IInv, TypeOK, SubmitSend
<1>4. NoSendOnClosed'
  BY <1>1 DEF IInv, NoSendOnClosed, SubmitSend
<1>5. Counters'
  BY DEF IInv, Counters, Counted, Active, SubmitSend
<1>6. Outcomes'
  BY DEF IInv, Outcomes, SubmitSend
<1>7. OnePlace'
  <2>1. results[j] = "none" /\ (\A i \in 1 .. Len(jobs) : jobs[i] # j)
        /\ \A v \in Workers : ~ Holds(v, j)
    <3>1. ~ Unanswered(j) /\ results[j] = "none"
      BY <1>1 DEF IInv, OnePlace, Unanswered
    <3>2. \A v \in Workers : ~ Holds(v, j)
      BY <3>1, NoJobAssumption, StartedWorker
      DEF IInv, OnePlace, Holds, Outcomes
    <3> QED BY <3>1, <3>2 DEF IInv, OnePlace
  <2>2. \A k \in Jobs : Unanswered(k)' <=> Unanswered(k) \/ k = j
    BY <1>1, <2>1 DEF Unanswered
  <2>3. \A i \in 1 .. Len(jobs') : i \in 1 .. Len(jobs) \/ i = Len(jobs) + 1
    BY <1>1, <1>2
  <2>4. \A i, k \in 1 .. Len(jobs') : jobs'[i] = jobs'[k] => i = k
    BY <1>2, <2>1, <2>3 DEF IInv, OnePlace
  <2>5. \A i \in 1 .. Len(jobs') : \A k \in Jobs : k = jobs'[i] =>
          Unanswered(k)' /\ \A v \in Workers : ~ Holds(v, k)
    BY <1>2, <2>1, <2>2, <2>3 DEF IInv, OnePlace
  <2>6. \A i \in 1 .. Len(jobs') : jobs'[i] \in Jobs
    BY <1>2, <2>3
  <2> QED BY <1>1, <2>1, <2>2, <2>4, <2>5, <2>6 DEF IInv, OnePlace, Unanswered, Holds
<1> QED BY <1>3, <1>4, <1>5, <1>6, <1>7 DEF IInv

\* The other steps of Submit, Shutdown and cancellation.
LEMMA CallerStepKeeps ==
  ASSUME IInv,
         \/ \E j \in Jobs : SubmitBegin(j) \/ SubmitLock(j) \/ SubmitCancelled(j)
         \/ \E x \in Closers : ShutdownBegin(x) \/ ShutdownStep(x)
         \/ ParentCancel
  PROVE  IInv'
<1>1. /\ isClosed \in BOOLEAN /\ ctxDone \in BOOLEAN /\ keptLock \in BOOLEAN
      /\ scaler \in [pc : {"idle", "read", "adding", "counting", "closing", "stopped"},
                     jobs : 0 .. BufferSize]
      /\ sub \in [Jobs -> {"idle", "begun", "sending", "accepted", "refused"}]
      /\ shut \in [Closers -> {"idle", "begun", "waiting", "done", "timedOut", "skipped"}]
      /\ scaler.pc \in {"adding", "counting"} => totalWorkers < MaxWorkers
      /\ \A j \in Jobs : sub[j] = "sending" => ~ isClosed
  BY DEF IInv, TypeOK, Counters, NoSendOnClosed
<1>2. ASSUME NEW j \in Jobs, SubmitBegin(j) \/ SubmitLock(j) \/ SubmitCancelled(j)
      PROVE  IInv'
  BY <1>1, <1>2, CallerMoveKeeps DEF SubmitBegin, SubmitLock, SubmitCancelled
<1>3. ASSUME NEW x \in Closers, ShutdownBegin(x) \/ ShutdownStep(x)
      PROVE  IInv'
  <2>1. CASE ShutdownBegin(x)
    BY <1>1, <2>1, CallerMoveKeeps DEF ShutdownBegin
  <2>2. CASE ShutdownLock(x)
    <3>1. \A j \in Jobs : sub'[j] = sub[j] /\ sub'[j] # "sending"
      BY <2>2 DEF ShutdownLock, CanLock
    <3>2. /\ isClosed' \in BOOLEAN /\ keptLock' \in BOOLEAN
          /\ shut' \in [Closers -> {"idle", "begun", "waiting", "done", "timedOut", "skipped"}]
      BY <1>1, <2>2 DEF ShutdownLock
    <3> QED BY <1>1, <2>2, <3>1, <3>2, CallerMoveKeeps DEF ShutdownLock
  <2>3. CASE ShutdownDone(x)
    BY <1>1, <2>3, CallerMoveKeeps DEF ShutdownDone
  <2>4. CASE ShutdownTimeout(x)
    BY <1>1, <2>4, CallerMoveKeeps DEF ShutdownTimeout
  <2> QED BY <1>3, <2>1, <2>2, <2>3, <2>4 DEF ShutdownStep
<1>4. CASE ParentCancel
  BY <1>1, <1>4, CallerMoveKeeps DEF ParentCancel
<1> QED BY <1>2, <1>3, <1>4

----------------------------------------------------------------------------
\* A worker begins before it is counted.
LEMMA ScalerAddsKeeps ==
  ASSUME IInv, ScalerAdds
  PROVE  IInv'
<1>1. PICK w \in Workers : wk[w].pc = "none" /\ wk' = [wk EXCEPT ![w] = Fresh]
  BY DEF ScalerAdds
<1>2. /\ wk \in [Workers -> WorkerRecord] /\ totalWorkers < MaxWorkers
      /\ scaler \in [pc : {"idle", "read", "adding", "counting", "closing", "stopped"},
                     jobs : 0 .. BufferSize]
      /\ scaler.pc = "adding" /\ scaler' = [scaler EXCEPT !.pc = "counting"]
  BY DEF IInv, TypeOK, WorkerRecord, Counters, ScalerAdds
<1>3. /\ scaler' \in [pc : {"idle", "read", "adding", "counting", "closing", "stopped"},
                      jobs : 0 .. BufferSize]
      /\ scaler'.pc = "counting"
  BY <1>2
<1>4. /\ wk'[w] = Fresh /\ \A v \in Workers \ {w} : wk'[v] = wk[v]
      /\ Fresh.pc = "select"
  BY <1>1, <1>2, StartedWorker
<1>5. Counters'
  <2>1. wk'[w].pc \in CountedAt /\ wk[w].pc \notin CountedAt
        /\ wk'[w].pc \notin ActiveAt /\ wk[w].pc \notin ActiveAt
    BY <1>1, <1>4 DEF CountedAt, ActiveAt, InLoop
  <2>2. /\ Cardinality(Counted) \in Nat /\ Cardinality(Active) \in Nat
        /\ Cardinality(Counted') = Cardinality(Counted) + 1
        /\ Cardinality(Active') = Cardinality(Active)
    BY <1>4, <2>1, CountedStep
  <2> QED BY <1>2, <1>3, <2>2 DEF IInv, ScalerAdds, Counters
<1> QED BY <1>1, <1>3, <1>4, <1>5, StartedWorker, WorkerMoveKeeps DEF ScalerAdds

\* The worker that was added is counted.
LEMMA ScalerCountsKeeps ==
  ASSUME IInv, ScalerCounts
  PROVE  IInv'
<1>1. /\ totalWorkers < MaxWorkers /\ totalWorkers \in Int
      /\ scaler \in [pc : {"idle", "read", "adding", "counting", "closing", "stopped"},
                     jobs : 0 .. BufferSize]
      /\ scaler.pc = "counting" /\ scaler' = [scaler EXCEPT !.pc = "idle"]
  BY DEF IInv, TypeOK, Counters, ScalerCounts
<1>2. /\ scaler' \in [pc : {"idle", "read", "adding", "counting", "closing", "stopped"},
                      jobs : 0 .. BufferSize]
      /\ scaler'.pc = "idle"
  BY <1>1
<1>3. Cardinality(Counted) \in Nat /\ Cardinality(Counted') = Cardinality(Counted)
      /\ Cardinality(Active') = Cardinality(Active)
  BY CountedSets, AtType DEF ScalerCounts, Counted, Active
<1>4. Counters'
  BY <1>1, <1>2, <1>3, PoolConfigAssumption DEF IInv, Counters, ScalerCounts
<1>5. TypeOK'
  BY <1>1, <1>2 DEF IInv, TypeOK, ScalerCounts
<1>6. NoSendOnClosed' /\ OnePlace' /\ Outcomes'
  BY DEF IInv, NoSendOnClosed, OnePlace, Outcomes, Unanswered, Holds, ScalerCounts
<1> QED BY <1>4, <1>5, <1>6 DEF IInv

\* What the scaler reads and decides lets it add a worker only below maxWorkers.
LEMMA ScalerReadKeeps ==
  ASSUME IInv, ScalerTick \/ ScalerDecides \/ ScalerCancelled
  PROVE  IInv'
<1>1. /\ isClosed \in BOOLEAN /\ ctxDone \in BOOLEAN /\ keptLock \in BOOLEAN
      /\ scaler \in [pc : {"idle", "read", "adding", "counting", "closing", "stopped"},
                     jobs : 0 .. BufferSize]
      /\ sub \in [Jobs -> {"idle", "begun", "sending", "accepted", "refused"}]
      /\ shut \in [Closers -> {"idle", "begun", "waiting", "done", "timedOut", "skipped"}]
      /\ \A j \in Jobs : sub[j] = "sending" => ~ isClosed
      /\ Len(jobs) \in 0 .. BufferSize
  BY PoolConfigAssumption DEF IInv, TypeOK, NoSendOnClosed
<1>2. CASE ScalerTick
  BY <1>1, <1>2, CallerMoveKeeps DEF ScalerTick
<1>3. CASE ScalerDecides
  <2>1. PICK p \in {"adding", "closing", "idle"} :
          /\ scaler' = [scaler EXCEPT !.pc = p]
          /\ p = "adding" => totalWorkers < MaxWorkers
    BY <1>3 DEF ScalerDecides, ScalesUp
  <2>2. /\ scaler' \in [pc : {"idle", "read", "adding", "counting", "closing", "stopped"},
                        jobs : 0 .. BufferSize]
        /\ scaler'.pc = p /\ scaler.pc = "read"
    BY <1>1, <1>3, <2>1 DEF ScalerDecides
  <2> QED BY <1>1, <1>3, <2>1, <2>2, CallerMoveKeeps DEF ScalerDecides
<1>4. CASE ScalerCancelled
  <2>1. /\ scaler' \in [pc : {"idle", "read", "adding", "counting", "closing", "stopped"},
                        jobs : 0 .. BufferSize]
        /\ scaler'.pc = "stopped" /\ scaler.pc # "counting"
    BY <1>1, <1>4 DEF ScalerCancelled
  <2> QED BY <1>1, <1>4, <2>1, CallerMoveKeeps DEF ScalerCancelled
<1> QED BY <1>2, <1>3, <1>4

\* Nothing changes.
LEMMA StutterKeeps ==
  ASSUME IInv, UNCHANGED vars
  PROVE  IInv'
BY DEF vars, IInv, TypeOK, NoSendOnClosed, Counters, Counted, Active, OnePlace, Outcomes,
       Unanswered, Holds

\* IInv is inductive.
LEMMA NextIInv ==
  ASSUME IInv, [Next]_vars
  PROVE  IInv'
<1>1. ASSUME NEW j \in Jobs, SubmitBegin(j) \/ SubmitStep(j)
      PROVE  IInv'
  BY <1>1, SubmitSendKeeps, CallerStepKeeps DEF SubmitStep
<1>2. ASSUME NEW x \in Closers, ShutdownBegin(x) \/ ShutdownStep(x)
      PROVE  IInv'
  BY <1>2, CallerStepKeeps
<1>3. CASE ParentCancel
  BY <1>3, CallerStepKeeps
<1>4. ASSUME NEW w \in Workers, WorkerStep(w)
      PROVE  IInv'
  BY <1>4, TakeKeeps, WorkerSendsKeeps, WorkerStepKeeps DEF WorkerStep
<1>5. CASE ScalerStep
  BY <1>5, ScalerAddsKeeps, ScalerCountsKeeps, ScalerReadKeeps DEF ScalerStep
<1>6. CASE UNCHANGED vars
  BY <1>6, StutterKeeps
<1> QED BY <1>1, <1>2, <1>3, <1>4, <1>5, <1>6 DEF Next

----------------------------------------------------------------------------
\* Every reachable state of the pool satisfies the inductive invariant, however
\* many jobs, workers and callers of Shutdown there are.
THEOREM PoolInvariance == Spec => []IInv
<1>1. Init => IInv
  BY InitIInv
<1>2. IInv /\ [Next]_vars => IInv'
  BY NextIInv
<1> QED BY <1>1, <1>2, PTL DEF Spec

\* The pool's variables keep their types: activeWorkers never drops below zero
\* and the queue never holds more than its capacity.
THEOREM PoolTypeCorrect == Spec => []TypeOK
<1>1. IInv => TypeOK
  BY DEF IInv
<1> QED BY <1>1, PoolInvariance, PTL

\* totalWorkers is at most maxWorkers, and counts every worker in its loop but
\* the one being added.
LEMMA CountersBoundWorkers == IInv => WorkersBounded
<1> SUFFICES ASSUME IInv
             PROVE  WorkersBounded
  OBVIOUS
<1> DEFINE L == {w \in Workers : wk[w].pc \in InLoop}
<1>1. Cardinality(Counted) \in Nat /\ IsFiniteSet(Counted)
  BY CountedSets, AtType
<1>2. Cardinality(Counted) <= MaxWorkers
  BY <1>1, PoolConfigAssumption DEF IInv, TypeOK, Counters
<1>3. L \in SUBSET Counted
  BY DEF Counted
<1>4. Cardinality(L) <= Cardinality(Counted) /\ Cardinality(L) \in Nat
  BY <1>1, <1>3, FS_Subset, FS_CardinalityType
<1> QED BY <1>1, <1>2, <1>4, PoolConfigAssumption DEF WorkersBounded

\* However scaler and workers interleave, no more than maxWorkers goroutines
\* take jobs.
THEOREM AtMostMaxWorkers == Spec => []WorkersBounded
BY CountersBoundWorkers, PoolInvariance, PTL

\* Submit never sends on the channel that Shutdown has closed.
THEOREM ClosedMeansNoSender == Spec => []NoSendOnClosed
<1>1. IInv => NoSendOnClosed
  BY DEF IInv
<1> QED BY <1>1, PoolInvariance, PTL

----------------------------------------------------------------------------
(* The pool implements JobQueue: under the mapping of module WorkerPool its  *)
(* initial states are JobQueue's, and each of its steps is a step of         *)
(* JobQueue or changes nothing a submitter could tell.                       *)

InQueue(j) == \E i \in DOMAIN jobs : jobs[i] = j

\* What StateOf and TriesOf say of a job that a worker has.
LEMMA HeldJob ==
  IInv => \A v \in Workers : wk[v].pc \in InLoop \ {"select"} =>
            /\ wk[v].job \in Jobs /\ StateOf(wk[v].job) = "running"
            /\ TriesOf(wk[v].job) = wk[v].tries
            /\ Holders(wk[v].job) = {v}
<1> SUFFICES ASSUME IInv, NEW w \in Workers, wk[w].pc \in InLoop \ {"select"}
             PROVE  /\ wk[w].job \in Jobs /\ StateOf(wk[w].job) = "running"
                    /\ TriesOf(wk[w].job) = wk[w].tries
                    /\ Holders(wk[w].job) = {w}
  OBVIOUS
<1> DEFINE j == wk[w].job
<1>1. j \in Jobs /\ Unanswered(j) /\ Holds(w, j)
  BY DEF IInv, OnePlace, Holds
<1>2. Holders(j) = {w}
  <2>1. Holders(j) = {v \in Workers : Holds(v, j)}
    BY DEF Holders, Holds
  <2>2. \A v \in Workers : Holds(v, j) => v = w
    BY <1>1 DEF IInv, OnePlace
  <2> QED BY <1>1, <2>1, <2>2
<1>3. ~ \E i \in DOMAIN jobs : jobs[i] = j
  <2>1. DOMAIN jobs = 1 .. Len(jobs)
    BY DEF IInv, TypeOK
  <2> QED BY <1>1, <2>1 DEF IInv, OnePlace
<1>4. StateOf(j) = "running"
  BY <1>1, <1>2, <1>3 DEF StateOf, Unanswered
<1>5. TriesOf(j) = wk[w].tries
  <2>1. (CHOOSE v \in Holders(j) : TRUE) = w
    BY <1>2
  <2> QED BY <1>4, <2>1 DEF TriesOf
<1> QED BY <1>1, <1>2, <1>4, <1>5

\* A job in the queue.
LEMMA QueuedJob ==
  IInv => \A i \in 1 .. Len(jobs) :
            jobs[i] \in Jobs /\ StateOf(jobs[i]) = "queued" /\ TriesOf(jobs[i]) = 0
<1> SUFFICES ASSUME IInv, NEW i \in 1 .. Len(jobs)
             PROVE  jobs[i] \in Jobs /\ StateOf(jobs[i]) = "queued" /\ TriesOf(jobs[i]) = 0
  OBVIOUS
<1>1. DOMAIN jobs = 1 .. Len(jobs) /\ jobs[i] \in Jobs
  BY DEF IInv, TypeOK
<1>2. Unanswered(jobs[i])
  BY DEF IInv, OnePlace
<1>3. StateOf(jobs[i]) = "queued"
  BY <1>1, <1>2 DEF StateOf, Unanswered
<1> QED BY <1>1, <1>3 DEF TriesOf

\* A job whose Submit has not ended.
LEMMA NewJob ==
  ASSUME IInv, NEW j \in Jobs, sub[j] \notin {"accepted", "refused"}
  PROVE  StateOf(j) = "new" /\ TriesOf(j) = 0
<1>1. results[j] = "none"
  BY DEF IInv, OnePlace
<1> QED BY <1>1 DEF StateOf, TriesOf

\* A job is left as it is by a step that keeps its Submit's outcome, its result,
\* its place and its tries.
LEMMA JobFrame ==
  ASSUME IInv, NEW j \in Jobs,
         results'[j] = results[j],
         \/ sub'[j] = sub[j]
         \/ {sub'[j], sub[j]} \cap {"accepted", "refused"} = {},
         InQueue(j)' <=> InQueue(j),
         \A w \in Workers : Holds(w, j)' <=> Holds(w, j),
         \A w \in Workers : Holds(w, j) => wk'[w].tries = wk[w].tries
  PROVE  StateOf(j)' = StateOf(j) /\ TriesOf(j)' = TriesOf(j)
<1>1. Holders(j)' = Holders(j)
  BY DEF Holders, Holds
<1>2. StateOf(j)' = StateOf(j)
  BY <1>1 DEF StateOf, InQueue
<1>3. TriesOf(j)' = TriesOf(j)
  <2>1. CASE StateOf(j) = "running"
    <3> DEFINE w == CHOOSE v \in Holders(j) : TRUE
    <3>1. Holders(j) # {}
      <4>1. results[j] # "running"
        BY DEF IInv, TypeOK, Statuses
      <4> QED BY <2>1, <4>1 DEF StateOf
    <3>2. w \in Workers /\ Holds(w, j)
      BY <3>1 DEF Holders, Holds
    <3>3. wk'[w].tries = wk[w].tries
      BY <3>2
    <3> QED BY <1>1, <1>2, <2>1, <3>3 DEF TriesOf
  <2>2. CASE StateOf(j) # "running"
    BY <1>2, <2>2 DEF TriesOf
  <2> QED BY <2>1, <2>2
<1> QED BY <1>2, <1>3

\* No job's outcome, place or tries change.
Same == \A j \in Jobs : StateOf(j)' = StateOf(j) /\ TriesOf(j)' = TriesOf(j)

\* The frame of every job.
LEMMA SameJobs ==
  ASSUME IInv, UNCHANGED <<jobs, results>>,
         \A j \in Jobs : \/ sub'[j] = sub[j]
                         \/ {sub'[j], sub[j]} \cap {"accepted", "refused"} = {},
         \A w \in Workers : \A j \in Jobs :
           /\ Holds(w, j)' <=> Holds(w, j)
           /\ Holds(w, j) => wk'[w].tries = wk[w].tries
  PROVE  Same
BY JobFrame DEF Same, InQueue

\* Then only closing and cancelling can be seen.
LEMMA SameMaps ==
  ASSUME Same, UNCHANGED jobs,
         \/ UNCHANGED <<isClosed, ctxDone>>
         \/ UNCHANGED isClosed /\ ~ ctxDone /\ ctxDone' = TRUE
         \/ UNCHANGED ctxDone /\ ~ isClosed /\ isClosed' = TRUE
  PROVE  [Queue!Next]_(Queue!queueVars)
<1>1. /\ [j \in Jobs |-> StateOf(j)]' = [j \in Jobs |-> StateOf(j)]
      /\ [j \in Jobs |-> TriesOf(j)]' = [j \in Jobs |-> TriesOf(j)]
  BY DEF Same
<1> QED BY <1>1 DEF Queue!Next, Queue!queueVars, Queue!Close, Queue!Cancel

\* The state of one job changes.
LEMMA StateStep ==
  ASSUME NEW j \in Jobs, NEW s, StateOf(j)' = s,
         \A k \in Jobs \ {j} : StateOf(k)' = StateOf(k)
  PROVE  [k \in Jobs |-> StateOf(k)]' = [[k \in Jobs |-> StateOf(k)] EXCEPT ![j] = s]
OBVIOUS

\* The tries of one job change.
LEMMA TriesStep ==
  ASSUME NEW j \in Jobs, NEW s, TriesOf(j)' = s,
         \A k \in Jobs \ {j} : TriesOf(k)' = TriesOf(k)
  PROVE  [k \in Jobs |-> TriesOf(k)]' = [[k \in Jobs |-> TriesOf(k)] EXCEPT ![j] = s]
OBVIOUS

----------------------------------------------------------------------------
\* The pool begins as an empty queue.
LEMMA InitMaps == Init => Queue!Init
<1> SUFFICES ASSUME Init
             PROVE  Queue!Init
  OBVIOUS
<1>1. IInv
  BY InitIInv
<1>2. \A j \in Jobs : StateOf(j) = "new" /\ TriesOf(j) = 0
  BY <1>1, NewJob DEF Init
<1> QED BY <1>2 DEF Init, Queue!Init

\* Submit accepts or refuses.
LEMMA SubmitMaps ==
  ASSUME IInv, IInv', NEW j \in Jobs, SubmitBegin(j) \/ SubmitStep(j)
  PROVE  [Queue!Next]_(Queue!queueVars)
<1>1. /\ sub \in [Jobs -> {"idle", "begun", "sending", "accepted", "refused"}]
      /\ jobs \in Seq(Jobs) /\ Len(jobs) \in Nat /\ DOMAIN jobs = 1 .. Len(jobs)
  BY DEF IInv, TypeOK
<1>2. \A w \in Workers : \A k \in Jobs :
        UNCHANGED wk => (Holds(w, k)' <=> Holds(w, k)) /\ wk'[w].tries = wk[w].tries
  BY DEF Holds
<1>3. CASE SubmitBegin(j)
  <2>1. Same
    BY <1>1, <1>2, <1>3, SameJobs DEF SubmitBegin
  <2> QED BY <1>3, <2>1, SameMaps DEF SubmitBegin
<1>4. CASE SubmitLock(j) /\ ~ isClosed
  <2>1. Same
    BY <1>1, <1>2, <1>4, SameJobs DEF SubmitLock
  <2> QED BY <1>4, <2>1, SameMaps DEF SubmitLock
<1>5. CASE (SubmitLock(j) /\ isClosed) \/ SubmitCancelled(j)
  <2>1. /\ sub' = [sub EXCEPT ![j] = "refused"] /\ sub[j] \in {"begun", "sending"}
        /\ isClosed \/ ctxDone
        /\ UNCHANGED <<jobs, isClosed, ctxDone, wk, results>>
    BY <1>5 DEF SubmitLock, SubmitCancelled
  <2>2. \A k \in Jobs \ {j} : StateOf(k)' = StateOf(k) /\ TriesOf(k)' = TriesOf(k)
    BY <1>1, <1>2, <2>1, JobFrame DEF InQueue
  <2>3. StateOf(j) = "new" /\ TriesOf(j) = 0 /\ results[j] = "none"
    BY <2>1, NewJob DEF IInv, OnePlace
  <2>4. StateOf(j)' = "refused" /\ TriesOf(j)' = 0
    BY <1>1, <2>1, <2>3 DEF StateOf, TriesOf
  <2>5. /\ [k \in Jobs |-> StateOf(k)]' = [[k \in Jobs |-> StateOf(k)] EXCEPT ![j] = "refused"]
        /\ [k \in Jobs |-> TriesOf(k)]' = [k \in Jobs |-> TriesOf(k)]
    BY <2>2, <2>3, <2>4, StateStep
  <2>6. Queue!Refuse(j)
    BY <2>1, <2>3, <2>5 DEF Queue!Refuse
  <2> QED BY <2>6 DEF Queue!Next
<1>6. CASE SubmitSend(j)
  <2>1. /\ sub' = [sub EXCEPT ![j] = "accepted"] /\ sub[j] = "sending"
        /\ Len(jobs) < BufferSize /\ jobs' = Append(jobs, j)
        /\ UNCHANGED <<isClosed, ctxDone, wk, results>>
    BY <1>6 DEF SubmitSend
  <2>2. /\ Len(jobs') = Len(jobs) + 1 /\ jobs'[Len(jobs) + 1] = j
        /\ DOMAIN jobs' = 1 .. Len(jobs) + 1
        /\ \A i \in 1 .. Len(jobs) : jobs'[i] = jobs[i]
    BY <1>1, <2>1
  <2>3. \A k \in Jobs \ {j} : InQueue(k)' <=> InQueue(k)
    BY <1>1, <2>2 DEF InQueue
  <2>4. \A k \in Jobs \ {j} : StateOf(k)' = StateOf(k) /\ TriesOf(k)' = TriesOf(k)
    BY <1>1, <1>2, <2>1, <2>3, JobFrame
  <2>5. StateOf(j) = "new" /\ TriesOf(j) = 0 /\ ~ isClosed
    BY <2>1, NewJob DEF IInv, NoSendOnClosed
  <2>6. StateOf(j)' = "queued" /\ TriesOf(j)' = 0
    <3>1. Len(jobs) + 1 \in (1 .. Len(jobs))'
      BY <1>1, <2>2
    <3>2. (\A i \in 1 .. Len(jobs) :
             jobs[i] \in Jobs /\ StateOf(jobs[i]) = "queued" /\ TriesOf(jobs[i]) = 0)'
      BY QueuedJob, PTL
    <3> QED BY <2>2, <3>1, <3>2
  <2>7. /\ [k \in Jobs |-> StateOf(k)]' = [[k \in Jobs |-> StateOf(k)] EXCEPT ![j] = "queued"]
        /\ [k \in Jobs |-> TriesOf(k)]' = [k \in Jobs |-> TriesOf(k)]
    BY <2>4, <2>5, <2>6, StateStep
  <2>8. Queue!Submit(j)
    BY <2>1, <2>5, <2>7 DEF Queue!Submit
  <2> QED BY <2>8 DEF Queue!Next
<1> QED BY <1>3, <1>4, <1>5, <1>6 DEF SubmitStep

\* Shutdown and cancellation close and cancel the queue, or are not seen by it.
LEMMA ShutdownMaps ==
  ASSUME IInv, (\E x \in Closers : ShutdownBegin(x) \/ ShutdownStep(x)) \/ ParentCancel
  PROVE  [Queue!Next]_(Queue!queueVars)
<1>1. isClosed \in BOOLEAN /\ ctxDone \in BOOLEAN
  BY DEF IInv, TypeOK
<1>2. /\ UNCHANGED <<jobs, wk, sub, results>>
      /\ \/ UNCHANGED <<isClosed, ctxDone>>
         \/ UNCHANGED isClosed /\ ctxDone' = TRUE
         \/ UNCHANGED ctxDone /\ ~ isClosed /\ isClosed' = TRUE
  BY DEF ShutdownBegin, ShutdownStep, ShutdownLock, ShutdownDone, ShutdownTimeout, ParentCancel
<1>3. Same
  BY <1>2, SameJobs DEF Holds
<1> QED BY <1>1, <1>2, <1>3, SameMaps

\* The scaler is not seen by the queue: a worker that it adds has no job.
LEMMA ScalerMaps ==
  ASSUME IInv, IInv', ScalerStep
  PROVE  [Queue!Next]_(Queue!queueVars)
<1>1. UNCHANGED <<jobs, sub, results, isClosed, ctxDone>>
  BY DEF ScalerStep, ScalerTick, ScalerDecides, ScalerAdds, ScalerCounts, ScalerCancelled
<1>2. \A v \in Workers : \A j \in Jobs :
        (Holds(v, j)' <=> Holds(v, j)) /\ (Holds(v, j) => wk'[v].tries = wk[v].tries)
  <2>1. CASE UNCHANGED wk
    BY <2>1 DEF Holds
  <2>2. CASE ScalerAdds
    <3>1. PICK w \in Workers : wk[w].pc = "none" /\ wk' = [wk EXCEPT ![w] = Fresh]
      BY <2>2 DEF ScalerAdds
    <3>2. wk'[w] = Fresh /\ \A v \in Workers \ {w} : wk'[v] = wk[v]
      BY <3>1 DEF IInv, TypeOK
    <3>3. \A j \in Jobs : ~ Holds(w, j)' /\ ~ Holds(w, j)
      BY <3>1, <3>2, StartedWorker, NoJobAssumption DEF Holds, InLoop
    <3> QED BY <3>2, <3>3 DEF Holds
  <2> QED BY <2>1, <2>2 DEF ScalerStep, ScalerTick, ScalerDecides, ScalerCounts,
                            ScalerCancelled
<1>3. Same
  BY <1>1, <1>2, SameJobs
<1> QED BY <1>1, <1>3, SameMaps

----------------------------------------------------------------------------
\* A running job has a worker, so no more than maxWorkers jobs run: with one
\* worker still at its select, fewer.
LEMMA RoomToStart ==
  ASSUME IInv, NEW w \in Workers, wk[w].pc = "select"
  PROVE  Cardinality(Queue!Running) < MaxWorkers
<1> DEFINE L == {v \in Workers : wk[v].pc \in InLoop}
           H == L \ {w}
           R == Queue!Running
           f == [j \in R |-> CHOOSE v \in Holders(j) : TRUE]
<1>1. R = {j \in Jobs : StateOf(j) = "running"}
  BY DEF Queue!Running
<1>2. \A j \in R : f[j] \in H /\ wk[f[j]].job = j
  <2> SUFFICES ASSUME NEW j \in R
               PROVE  f[j] \in H /\ wk[f[j]].job = j
    OBVIOUS
  <2>1. j \in Jobs /\ results[j] # "running" /\ StateOf(j) = "running"
    BY <1>1 DEF IInv, TypeOK, Statuses
  <2>2. Holders(j) # {}
    BY <2>1 DEF StateOf
  <2>3. f[j] \in Holders(j)
    BY <2>2
  <2>4. f[j] \in Workers /\ wk[f[j]].pc \in InLoop /\ wk[f[j]].job = j
    BY <2>3 DEF Holders
  <2>5. wk[w].job = NoJob
    BY StartedWorker DEF IInv, Outcomes
  <2> QED BY <2>1, <2>4, <2>5, NoJobAssumption
<1>3. f \in Injection(R, H)
  <2>1. f \in [R -> H]
    BY <1>2
  <2>2. \A j, k \in R : f[j] = f[k] => j = k
    BY <1>2
  <2> HIDE DEF f, H, R
  <2> QED BY <2>1, <2>2 DEF Injection, IsInjective
<1>4. IsFiniteSet(L) /\ Cardinality(L) \in Nat /\ Cardinality(L) <= MaxWorkers
  <2>1. L \in SUBSET Workers
    OBVIOUS
  <2>2. IsFiniteSet(L)
    BY <2>1, WorkersAssumption, FS_Subset
  <2>3. Cardinality(L) <= MaxWorkers
    BY CountersBoundWorkers DEF WorkersBounded
  <2> QED BY <2>2, <2>3, FS_CardinalityType
<1>5. w \in L
  BY DEF InLoop
<1> HIDE DEF f, R, L
<1>6. IsFiniteSet(H) /\ Cardinality(H) = Cardinality(L) - 1
  BY <1>4, <1>5, FS_RemoveElement
<1> HIDE DEF H
<1>7. IsFiniteSet(R) /\ Cardinality(R) <= Cardinality(H)
  BY <1>3, <1>6, FS_Injection
<1>8. Cardinality(R) \in Nat
  BY <1>7, FS_CardinalityType
<1> QED BY <1>4, <1>6, <1>7, <1>8, PoolConfigAssumption DEF R

\* The queue counts as the pool does.
LEMMA SameCount == ASSUME NEW S PROVE Queue!Cardinality(S) = Cardinality(S)
BY Zenon DEF Queue!Cardinality, Cardinality, Queue!IsFiniteSet, IsFiniteSet

\* A worker takes the oldest job.
LEMMA TakeMaps ==
  ASSUME IInv, IInv', NEW w \in Workers, Take(w)
  PROVE  [Queue!Next]_(Queue!queueVars)
<1>0. PICK j \in Jobs : j = Head(jobs)
  BY DEF IInv, TypeOK, Take
<1>1. /\ jobs \in Seq(Jobs) /\ jobs # << >> /\ Len(jobs) \in Nat \ {0}
      /\ DOMAIN jobs = 1 .. Len(jobs)
      /\ j = jobs[1] /\ jobs' = Tail(jobs) /\ DOMAIN jobs' = 1 .. Len(jobs) - 1
      /\ \A i \in 1 .. Len(jobs) - 1 : jobs'[i] = jobs[i + 1] /\ i + 1 \in 1 .. Len(jobs)
  BY <1>0 DEF IInv, TypeOK, Take
<1>2. j \in Jobs /\ StateOf(j) = "queued" /\ TriesOf(j) = 0
  BY <1>1, QueuedJob
<1>3. /\ wk[w].pc = "select" /\ wk' = [wk EXCEPT ![w].pc = "taken", ![w].job = j]
      /\ UNCHANGED <<isClosed, ctxDone, sub, results>>
  BY <1>0 DEF Take
<1>4. /\ wk'[w].pc = "taken" /\ wk'[w].job = j
      /\ \A v \in Workers \ {w} : wk'[v] = wk[v]
      /\ wk[w].tries = 0 /\ wk[w].job = NoJob
  BY <1>3, StartedWorker DEF IInv, TypeOK, Outcomes
<1>5. wk'[w].tries = 0
  BY <1>4 DEF IInv, Outcomes
<1>6. \A k \in Jobs \ {j} : InQueue(k)' <=> InQueue(k)
  <2>1. \A k \in Jobs \ {j} : \A i \in 1 .. Len(jobs) : jobs[i] = k =>
          i - 1 \in 1 .. Len(jobs) - 1 /\ jobs'[i - 1] = k
    <3> SUFFICES ASSUME NEW k \in Jobs \ {j}, NEW i \in 1 .. Len(jobs), jobs[i] = k
                 PROVE  i - 1 \in 1 .. Len(jobs) - 1 /\ jobs'[i - 1] = k
      OBVIOUS
    <3>1. i # 1
      BY <1>1
    <3>2. i - 1 \in 1 .. Len(jobs) - 1 /\ (i - 1) + 1 = i
      BY <1>1, <3>1
    <3> QED BY <1>1, <3>2
  <2>2. ASSUME NEW k \in Jobs \ {j}, InQueue(k)
        PROVE  InQueue(k)'
    <3>1. DOMAIN jobs = 1 .. Len(jobs) /\ DOMAIN jobs' = 1 .. Len(jobs) - 1
      BY <1>1
    <3>2. PICK i \in 1 .. Len(jobs) : jobs[i] = k
      BY <2>2, <3>1, Zenon DEF InQueue
    <3>3. i - 1 \in DOMAIN jobs' /\ jobs'[i - 1] = k
      BY <2>1, <3>1, <3>2, Zenon
    <3> QED BY <3>3, Zenon DEF InQueue
  <2>3. ASSUME NEW k \in Jobs \ {j}, InQueue(k)'
        PROVE  InQueue(k)
    <3>1. DOMAIN jobs = 1 .. Len(jobs) /\ DOMAIN jobs' = 1 .. Len(jobs) - 1
      BY <1>1
    <3>2. PICK i \in 1 .. Len(jobs) - 1 : jobs'[i] = k
      BY <2>3, <3>1, Zenon DEF InQueue
    <3>3. i + 1 \in DOMAIN jobs /\ jobs[i + 1] = k
      <4>1. jobs'[i] = jobs[i + 1] /\ i + 1 \in 1 .. Len(jobs)
        BY <1>1, <3>2, Zenon
      <4> QED BY <3>1, <3>2, <4>1, Zenon
    <3> QED BY <3>3, Zenon DEF InQueue
  <2> QED BY <2>2, <2>3
<1>7. \A k \in Jobs \ {j} : StateOf(k)' = StateOf(k) /\ TriesOf(k)' = TriesOf(k)
  <2>1. \A k \in Jobs \ {j} : \A v \in Workers :
          (Holds(v, k)' <=> Holds(v, k)) /\ (Holds(v, k) => wk'[v].tries = wk[v].tries)
    BY <1>4, NoJobAssumption DEF Holds
  <2> QED BY <1>3, <1>6, <2>1, JobFrame
<1>8. StateOf(j)' = "running" /\ TriesOf(j)' = 0
  <2>1. (\A v \in Workers : wk[v].pc \in InLoop \ {"select"} =>
            /\ wk[v].job \in Jobs /\ StateOf(wk[v].job) = "running"
            /\ TriesOf(wk[v].job) = wk[v].tries
            /\ Holders(wk[v].job) = {v})'
    BY HeldJob, PTL
  <2>2. wk'[w].pc \in InLoop \ {"select"}
    BY <1>4 DEF InLoop
  <2> QED BY <1>4, <1>5, <2>1, <2>2
<1>9. /\ [k \in Jobs |-> StateOf(k)]' = [[k \in Jobs |-> StateOf(k)] EXCEPT ![j] = "running"]
      /\ [k \in Jobs |-> TriesOf(k)]' = [k \in Jobs |-> TriesOf(k)]
  BY <1>2, <1>7, <1>8, StateStep
<1>10. Queue!Cardinality(Queue!Running) < MaxWorkers
  <2>1. Cardinality(Queue!Running) < MaxWorkers
    BY <1>3, RoomToStart
  <2>2. Queue!Cardinality(Queue!Running) = Cardinality(Queue!Running)
    BY SameCount
  <2> HIDE DEF Queue!Running
  <2> QED BY <2>1, <2>2
<1>11. Queue!Start(j)
  <2>1. jobs # << >> /\ j = Head(jobs) /\ jobs' = Tail(jobs)
        /\ isClosed' = isClosed /\ ctxDone' = ctxDone
    BY <1>0, <1>1, <1>3
  <2> QED BY <1>9, <1>10, <2>1, Zenon DEF Queue!Start
<1> QED BY <1>2, <1>11 DEF Queue!Next

\* A worker that keeps its job and its tries, or that has no job.
LEMMA QuietWorkerMaps ==
  ASSUME IInv, NEW w \in Workers, NEW p \in InLoop \cup {"none", "exiting", "exited"},
         \/ wk[w].pc \in InLoop /\ p \in InLoop
         \/ wk[w].pc \notin InLoop \ {"select"} /\ p \notin InLoop,
         \A v \in Workers \ {w} : wk'[v] = wk[v],
         wk'[w].pc = p,
         p \in InLoop => wk'[w].job = wk[w].job /\ wk'[w].tries = wk[w].tries,
         UNCHANGED <<jobs, isClosed, ctxDone, sub, results>>
  PROVE  [Queue!Next]_(Queue!queueVars)
<1>1. wk[w].pc \notin InLoop \ {"select"} => \A j \in Jobs : ~ Holds(w, j)
  BY StartedWorker, NoJobAssumption DEF IInv, Outcomes, Holds
<1>2. \A v \in Workers : \A j \in Jobs :
        (Holds(v, j)' <=> Holds(v, j)) /\ (Holds(v, j) => wk'[v].tries = wk[v].tries)
  BY <1>1 DEF Holds
<1>3. Same
  BY <1>2, SameJobs
<1> QED BY <1>3, SameMaps

\* A worker leaves with its job: the job is lost.
LEMMA LostMaps ==
  ASSUME IInv, NEW w \in Workers, ctxDone, wk[w].pc = "sending",
         \A v \in Workers \ {w} : wk'[v] = wk[v], wk'[w].pc = "exiting",
         UNCHANGED <<jobs, isClosed, ctxDone, sub, results>>
  PROVE  [Queue!Next]_(Queue!queueVars)
<1>0. PICK j : j = wk[w].job
  OBVIOUS
<1>1. wk[w].pc \in InLoop \ {"select"} /\ wk'[w].pc \notin InLoop
  BY DEF InLoop
<1>2. /\ j \in Jobs /\ StateOf(j) = "running" /\ Unanswered(j)
      /\ \A v \in Workers \ {w} : ~ Holds(v, j)
  BY <1>0, <1>1, HeldJob DEF IInv, OnePlace, Holds
<1>3. ~ \E i \in DOMAIN jobs : jobs[i] = j
  <2>1. DOMAIN jobs = 1 .. Len(jobs)
    BY DEF IInv, TypeOK
  <2> QED BY <1>0, <1>1, <2>1 DEF IInv, OnePlace, Holds
<1>4. \A k \in Jobs \ {j} : StateOf(k)' = StateOf(k) /\ TriesOf(k)' = TriesOf(k)
  <2>1. \A k \in Jobs \ {j} : \A v \in Workers :
          (Holds(v, k)' <=> Holds(v, k)) /\ (Holds(v, k) => wk'[v].tries = wk[v].tries)
    BY <1>0, <1>1 DEF Holds
  <2> QED BY <2>1, JobFrame DEF InQueue
<1>5. StateOf(j)' = "lost" /\ TriesOf(j)' = 0
  <2>1. Holders(j)' = {}
    BY <1>1, <1>2 DEF Holders, Holds
  <2>2. results'[j] = "none" /\ sub'[j] = "accepted"
        /\ ~ \E i \in DOMAIN jobs' : jobs'[i] = j
    BY <1>2, <1>3 DEF Unanswered
  <2> QED BY <2>1, <2>2 DEF StateOf, TriesOf
<1>6. /\ [k \in Jobs |-> StateOf(k)]' = [[k \in Jobs |-> StateOf(k)] EXCEPT ![j] = "lost"]
      /\ [k \in Jobs |-> TriesOf(k)]' = [[k \in Jobs |-> TriesOf(k)] EXCEPT ![j] = 0]
  BY <1>2, <1>4, <1>5, StateStep, TriesStep
<1>7. Queue!Abandon(j)
  BY <1>2, <1>6 DEF Queue!Abandon, Queue!Ends
<1> QED BY <1>2, <1>7 DEF Queue!Next

\* An attempt fails and another one follows.
LEMMA RetryMaps ==
  ASSUME IInv, IInv', NEW w \in Workers, wk[w].pc = "working", Retries(w),
         wk' = [wk EXCEPT ![w].pc = "trying", ![w].tries = @ + 1],
         UNCHANGED <<jobs, isClosed, ctxDone, sub, results>>
  PROVE  [Queue!Next]_(Queue!queueVars)
<1>0. PICK j : j = wk[w].job
  OBVIOUS
<1>1. /\ wk'[w].pc = "trying" /\ wk'[w].job = j /\ wk'[w].tries = wk[w].tries + 1
      /\ \A v \in Workers \ {w} : wk'[v] = wk[v]
  BY <1>0 DEF IInv, TypeOK
<1>2. wk[w].pc \in InLoop \ {"select"} /\ wk'[w].pc \in InLoop \ {"select"}
  BY <1>1 DEF InLoop
<1>3. j \in Jobs /\ StateOf(j) = "running" /\ TriesOf(j) = wk[w].tries
  BY <1>0, <1>2, HeldJob
<1>4. StateOf(j)' = "running" /\ TriesOf(j)' = wk[w].tries + 1
  <2>1. (\A v \in Workers : wk[v].pc \in InLoop \ {"select"} =>
            /\ wk[v].job \in Jobs /\ StateOf(wk[v].job) = "running"
            /\ TriesOf(wk[v].job) = wk[v].tries
            /\ Holders(wk[v].job) = {v})'
    BY HeldJob, PTL
  <2> QED BY <1>1, <1>2, <2>1
<1>5. \A k \in Jobs \ {j} : StateOf(k)' = StateOf(k) /\ TriesOf(k)' = TriesOf(k)
  <2>1. \A k \in Jobs \ {j} : \A v \in Workers :
          (Holds(v, k)' <=> Holds(v, k)) /\ (Holds(v, k) => wk'[v].tries = wk[v].tries)
    BY <1>0, <1>1 DEF Holds
  <2> QED BY <2>1, JobFrame DEF InQueue
<1>6. /\ [k \in Jobs |-> StateOf(k)]' = [k \in Jobs |-> StateOf(k)]
      /\ [k \in Jobs |-> TriesOf(k)]'
           = [[k \in Jobs |-> TriesOf(k)] EXCEPT ![j] = TriesOf(j) + 1]
  BY <1>3, <1>4, <1>5, TriesStep
<1>7. Queue!Retry(j)
  BY <1>3, <1>6 DEF Queue!Retry, Retries
<1> QED BY <1>3, <1>7 DEF Queue!Next

\* A worker answers its job with the outcome of the last attempt.
LEMMA WorkerSendsMaps ==
  ASSUME IInv, IInv', NEW w \in Workers, WorkerSends(w)
  PROVE  [Queue!Next]_(Queue!queueVars)
<1>0. PICK j, s : j = wk[w].job /\ s = wk[w].status
  OBVIOUS
<1>1. /\ wk[w].pc = "sending" /\ wk' = [wk EXCEPT ![w] = Fresh]
      /\ results' = [results EXCEPT ![j] = s]
      /\ UNCHANGED <<jobs, isClosed, ctxDone, sub>>
  BY <1>0 DEF WorkerSends
<1>2. /\ wk'[w] = Fresh /\ \A v \in Workers \ {w} : wk'[v] = wk[v]
      /\ wk[w].pc \in InLoop \ {"select"}
  BY <1>1 DEF IInv, TypeOK, InLoop
<1>3. /\ j \in Jobs /\ StateOf(j) = "running" /\ TriesOf(j) = wk[w].tries
      /\ \A v \in Workers \ {w} : ~ Holds(v, j)
  BY <1>0, <1>2, HeldJob DEF IInv, OnePlace, Holds
<1>4. /\ s \in Statuses \ {"none"}
      /\ s = "failed" => wk[w].tries = MaxRetries
      /\ s = "cancelled" => ctxDone
  BY <1>0, <1>1 DEF IInv, TypeOK, Outcomes
<1>5. results'[j] = s /\ \A k \in Jobs \ {j} : results'[k] = results[k]
  BY <1>1, <1>3 DEF IInv, TypeOK
<1>6. \A k \in Jobs \ {j} : StateOf(k)' = StateOf(k) /\ TriesOf(k)' = TriesOf(k)
  <2>1. \A k \in Jobs \ {j} : \A v \in Workers :
          (Holds(v, k)' <=> Holds(v, k)) /\ (Holds(v, k) => wk'[v].tries = wk[v].tries)
    BY <1>0, <1>2, StartedWorker, NoJobAssumption DEF Holds
  <2> QED BY <1>1, <1>5, <2>1, JobFrame DEF InQueue
<1>7. StateOf(j)' = s /\ TriesOf(j)' = 0
  BY <1>4, <1>5 DEF StateOf, TriesOf, Statuses
<1>8. /\ [k \in Jobs |-> StateOf(k)]' = [[k \in Jobs |-> StateOf(k)] EXCEPT ![j] = s]
      /\ [k \in Jobs |-> TriesOf(k)]' = [[k \in Jobs |-> TriesOf(k)] EXCEPT ![j] = 0]
  BY <1>3, <1>6, <1>7, StateStep, TriesStep
<1>9. Queue!Ends(j, s)
  BY <1>1, <1>3, <1>8 DEF Queue!Ends
<1>10. Queue!Succeed(j) \/ Queue!Fail(j) \/ Queue!Abandon(j)
  <2>1. CASE s = "success"
    BY <1>9, <2>1 DEF Queue!Succeed
  <2>2. CASE s = "failed"
    BY <1>3, <1>4, <1>9, <2>2 DEF Queue!Fail
  <2>3. CASE s = "cancelled"
    BY <1>4, <1>9, <2>3 DEF Queue!Abandon
  <2> QED BY <1>4, <2>1, <2>2, <2>3 DEF Statuses
<1> QED BY <1>3, <1>10 DEF Queue!Next

\* Each step of a worker.
LEMMA WorkerMaps ==
  ASSUME IInv, IInv', NEW w \in Workers, WorkerStep(w)
  PROVE  [Queue!Next]_(Queue!queueVars)
<1>1. wk \in [Workers -> WorkerRecord]
  BY DEF IInv, TypeOK, WorkerRecord
<1>2. ASSUME NEW a, NEW p, Step(w, a, p)
      PROVE  /\ wk[w].pc = a /\ wk'[w].pc = p
             /\ wk'[w].job = wk[w].job /\ wk'[w].tries = wk[w].tries
             /\ \A v \in Workers \ {w} : wk'[v] = wk[v]
  BY <1>1, <1>2 DEF Step, WorkerRecord
<1>3. ASSUME NEW a, NEW o, Finish(w, a, o)
      PROVE  /\ wk[w].pc = a /\ wk'[w].pc = "finished"
             /\ wk'[w].job = wk[w].job /\ wk'[w].tries = wk[w].tries
             /\ \A v \in Workers \ {w} : wk'[v] = wk[v]
  BY <1>1, <1>3 DEF Finish, WorkerRecord
<1>4. CASE Take(w)
  BY <1>4, TakeMaps
<1>5. CASE WorkerSends(w)
  BY <1>5, WorkerSendsMaps
<1>6. CASE WorkerCancelled(w)
  <2>1. CASE Step(w, "select", "exiting")
    BY <1>2, <1>6, <2>1, QuietWorkerMaps DEF WorkerCancelled, InLoop
  <2>2. CASE Step(w, "sending", "exiting")
    BY <1>2, <1>6, <2>2, LostMaps DEF WorkerCancelled
  <2> QED BY <1>6, <2>1, <2>2 DEF WorkerCancelled
<1>7. CASE WorkerClosed(w) \/ WorkerToClose(w)
  <2>1. Step(w, "select", "exiting") /\ UNCHANGED <<jobs, isClosed, ctxDone, sub, results>>
    BY <1>7 DEF WorkerClosed, WorkerToClose
  <2> QED BY <1>2, <2>1, QuietWorkerMaps DEF InLoop
<1>8. CASE WorkerActive(w)
  BY <1>2, <1>8, QuietWorkerMaps DEF WorkerActive, InLoop
<1>9. CASE AttemptBegins(w)
  BY <1>2, <1>9, QuietWorkerMaps DEF AttemptBegins, InLoop
<1>10. CASE AttemptCancelled(w)
  BY <1>3, <1>10, QuietWorkerMaps DEF AttemptCancelled, InLoop
<1>11. CASE AttemptEnds(w)
  <2>1. UNCHANGED <<jobs, isClosed, ctxDone, sub, results>>
    BY <1>11 DEF AttemptEnds
  <2>2. CASE Finish(w, "working", "success") \/ Finish(w, "working", "failed")
    BY <1>3, <2>1, <2>2, QuietWorkerMaps DEF InLoop
  <2>3. CASE /\ Retries(w)
             /\ wk[w].pc = "working"
             /\ wk' = [wk EXCEPT ![w].pc = "trying", ![w].tries = @ + 1]
    BY <2>1, <2>3, RetryMaps
  <2> QED BY <1>11, <2>2, <2>3 DEF AttemptEnds
<1>12. CASE WorkerInactive(w)
  BY <1>2, <1>12, QuietWorkerMaps DEF WorkerInactive, InLoop
<1>13. CASE WorkerUncounted(w)
  BY <1>2, <1>13, QuietWorkerMaps DEF WorkerUncounted, InLoop
<1>14. CASE WorkerEnds(w)
  <2>1. wk'[w] = NoWorker /\ NoWorker.pc = "none" /\ \A v \in Workers \ {w} : wk'[v] = wk[v]
    BY <1>1, <1>14 DEF WorkerEnds, NoWorker
  <2> QED BY <1>14, <2>1, QuietWorkerMaps DEF WorkerEnds, InLoop
<1> QED BY <1>4, <1>5, <1>6, <1>7, <1>8, <1>9, <1>10, <1>11, <1>12, <1>13, <1>14
        DEF WorkerStep

----------------------------------------------------------------------------
\* Nothing the pool does can be told from a job queue that starts jobs in the
\* order of acceptance, at most maxWorkers at a time, tries each at most
\* maxRetries + 1 times, answers it once and loses it only when cancelled.
THEOREM PoolIsJobQueue == Spec => ImplementsQueue
<1>1. Init => Queue!Init
  BY InitMaps
<1>2. IInv /\ IInv' /\ [Next]_vars => [Queue!Next]_(Queue!queueVars)
  <2> SUFFICES ASSUME IInv, IInv', [Next]_vars
               PROVE  [Queue!Next]_(Queue!queueVars)
    OBVIOUS
  <2>1. ASSUME NEW j \in Jobs, SubmitBegin(j) \/ SubmitStep(j)
        PROVE  [Queue!Next]_(Queue!queueVars)
    BY <2>1, SubmitMaps
  <2>2. CASE (\E x \in Closers : ShutdownBegin(x) \/ ShutdownStep(x)) \/ ParentCancel
    BY <2>2, ShutdownMaps
  <2>3. ASSUME NEW w \in Workers, WorkerStep(w)
        PROVE  [Queue!Next]_(Queue!queueVars)
    BY <2>3, WorkerMaps
  <2>4. CASE ScalerStep
    BY <2>4, ScalerMaps
  <2>5. CASE UNCHANGED vars
    <3>1. UNCHANGED <<jobs, wk, sub, results, isClosed, ctxDone>>
      BY <2>5 DEF vars
    <3>2. Same
      BY <3>1, SameJobs DEF Holds
    <3> QED BY <3>1, <3>2, SameMaps
  <2> QED BY <2>1, <2>2, <2>3, <2>4, <2>5 DEF Next
<1> QED BY <1>1, <1>2, PoolInvariance, PTL DEF Spec, ImplementsQueue, Queue!Spec

=============================================================================
