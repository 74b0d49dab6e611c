--------------------------- MODULE MetaServerProofs ---------------------------
(***************************************************************************)
(* What is proved of the metadata server for every configuration:          *)
(*                                                                         *)
(*   1. it uses its log as module WAL says, hence what is proved of the    *)
(*      log holds in the server;                                           *)
(*   2. the folds that the model is written with, Restore, Apply and       *)
(*      ReadAllEntries, in steps: FoldLeft and FlattenSeq are expanded to  *)
(*      the function they are, and what holds after every step is shown by *)
(*      the least step after which it would not;                           *)
(*   3. the types of the server's state;                                   *)
(*   4. operators: what an operation that is logged, applied, copied or    *)
(*      cleaned up does to what is known of the others.                    *)
(***************************************************************************)
EXTENDS MetaServer, WALProofs

JobTypes == job \in [Callers -> Data \cup {NoJob}]

\* A handler logs a record or nothing.
LEMMA JobsTyped == MetaSpec => []JobTypes
<1>1. MetaInit => JobTypes
  BY DEF MetaInit, JobTypes
<1>2. JobTypes /\ [MetaNext]_allVars => JobTypes'
  <2> SUFFICES ASSUME JobTypes, [MetaNext]_allVars
               PROVE  JobTypes'
    OBVIOUS
  <2>1. CASE MetaBoot \/ MetaBootFails \/ ApplyInMemory \/ MetaRestored
    BY <2>1 DEF MetaBoot, MetaBootFails, ApplyInMemory, MetaRestored, allVars, storeVars, JobTypes
  <2>2. ASSUME NEW d \in Data, ApplyDelete(d)
        PROVE  JobTypes'
    BY <2>2 DEF ApplyDelete, JobTypes
  <2>3. ASSUME NEW h \in Handlers, NEW d \in Data, AddFileMetadata(h, d) \/ DeleteLookup(h, d)
        PROVE  JobTypes'
    BY <2>3 DEF AddFileMetadata, DeleteLookup, JobTypes
  <2>4. ASSUME NEW h \in Handlers, DeleteAppend(h)
        PROVE  JobTypes'
    BY <2>4 DEF DeleteAppend, JobTypes
  <2>5. ASSUME NEW c \in Callers, Finish(c)
        PROVE  JobTypes'
    BY <2>5 DEF Finish, JobTypes
  <2>6. CASE \/ MetaFlushTick \/ MetaSnapBegin \/ Snapshot \/ MetaSnapFails \/ MetaSnapRename
             \/ MetaSnapPublish \/ MetaSnapList \/ MetaCleanStep
    BY <2>6 DEF MetaFlushTick, MetaSnapBegin, Snapshot, MetaSnapFails, MetaSnapRename,
                MetaSnapPublish, MetaSnapList, MetaCleanStep, storeVars, JobTypes
  <2>7. CASE LoseStore
    BY <2>7 DEF LoseStore, JobTypes
  <2>8. CASE UNCHANGED allVars
    BY <2>8 DEF allVars, storeVars, JobTypes
  <2> QED BY <2>1, <2>2, <2>3, <2>4, <2>5, <2>6, <2>7, <2>8
          DEF MetaNext, MetaCrash, MetaCrashInRoll
<1> QED BY <1>1, <1>2, PTL DEF MetaSpec

\* Start-up and restore, seen from the log.
LEMMA BootSteps ==
  ASSUME MetaBoot \/ MetaBootFails \/ ApplyInMemory \/ MetaRestored
         \/ (\E d \in Data : ApplyDelete(d))
  PROVE  [Next]_vars
<1>1. CASE MetaBoot \/ MetaBootFails \/ MetaRestored
  BY <1>1 DEF MetaBoot, MetaBootFails, MetaRestored, Next, allVars
<1>2. CASE ApplyInMemory
  BY <1>2 DEF ApplyInMemory
<1>3. ASSUME NEW d \in Data, ApplyDelete(d)
      PROVE  [Next]_vars
  BY <1>3, RestorerAssumption DEF ApplyDelete, Next
<1> QED BY <1>1, <1>2, <1>3

\* Handlers, seen from the log.
LEMMA HandlerSteps ==
  ASSUME JobTypes,
         \/ \E h \in Handlers, d \in Data : AddFileMetadata(h, d) \/ DeleteLookup(h, d)
         \/ \E h \in Handlers : DeleteAppend(h)
         \/ \E c \in Callers : Finish(c)
  PROVE  [Next]_vars
<1>1. ASSUME NEW h \in Handlers, NEW d \in Data, AddFileMetadata(h, d) \/ DeleteLookup(h, d)
      PROVE  [Next]_vars
  BY <1>1 DEF AddFileMetadata, DeleteLookup, Handlers, Next
<1>2. ASSUME NEW h \in Handlers, DeleteAppend(h)
      PROVE  [Next]_vars
  BY <1>2 DEF DeleteAppend, Handlers, Next, JobTypes
<1>3. ASSUME NEW c \in Callers, Finish(c)
      PROVE  [Next]_vars
  BY <1>3 DEF Finish, Next
<1> QED BY <1>1, <1>2, <1>3

\* Every step of the server is a step of the log or leaves the log alone.
LEMMA StepsOfLog == JobTypes /\ [MetaNext]_allVars => [Next]_vars
<1> SUFFICES ASSUME JobTypes, [MetaNext]_allVars
             PROVE  [Next]_vars
  OBVIOUS
<1>1. CASE \/ MetaFlushTick \/ MetaSnapBegin \/ Snapshot \/ MetaSnapFails \/ MetaSnapRename
           \/ MetaSnapPublish \/ MetaSnapList \/ MetaCleanStep
  BY <1>1 DEF MetaFlushTick, MetaSnapBegin, Snapshot, MetaSnapFails, MetaSnapRename,
              MetaSnapPublish, MetaSnapList, MetaCleanStep, Next
<1>2. CASE MetaCrash \/ \E c \in Callers, d \in Data : MetaCrashInRoll(c, d)
  BY <1>2 DEF MetaCrash, MetaCrashInRoll, Next
<1>3. CASE UNCHANGED allVars
  BY <1>3 DEF allVars
<1> QED BY <1>1, <1>2, <1>3, BootSteps, HandlerSteps DEF MetaNext

----------------------------------------------------------------------------
\* The server uses its log as the module WAL allows: FileStore calls
\* AppendEntry, takeSnapshot and restore in no other order.
THEOREM ServerImplementsLog == MetaSpec => Spec
<1>1. MetaInit => Init
  BY DEF MetaInit
<1> QED BY <1>1, JobsTyped, StepsOfLog, PTL DEF MetaSpec, Spec

\* The server replays its log in the order in which the operations were logged.
THEOREM ServerReplayOrder == ASSUME MaxSegments # 1 PROVE MetaSpec => []LogOrdered
BY ServerImplementsLog, ReplayOrder, PTL

\* No operation a client was told of leaves the log before a snapshot has a
\* header at or above it.
THEOREM ServerKeepsAcked == ASSUME MaxSegments # 1 PROVE MetaSpec => []NoAckedEntryDropped
BY ServerImplementsLog, AckedEntriesKept, PTL

\* No operation a client was told of shares its number with a later one.
THEOREM ServerNumbersOnce == ASSUME MaxSegments # 1 PROVE MetaSpec => []AckedBelowNext
BY ServerImplementsLog, AckedNumbersNotReissued, PTL

----------------------------------------------------------------------------
(* Restore, Apply and ReadAllEntries in steps *)

\* A step of Restore or, with entries of the log, of Apply.
FoldStep(kind, F, r) == IF kind = "entries" THEN Applied(F, r) ELSE Added(F, r)

\* The equation by which MapThenFoldSet defines FoldLeft(Added, F, s) and
\* FoldLeft(Applied, F, s), for the subsets of 1 .. n.
FoldOver(kind, n, F, s, it) ==
  it = [t \in SUBSET (1 .. n) |->
          IF t = {} THEN F ELSE FoldStep(kind, it[t \ {Max(t)}], s[Max(t)])]

\* A set of naturals that is not empty has a least element.
LEMMA LeastExists ==
  ASSUME NEW T \in SUBSET Nat, T # {}
  PROVE  \E x \in T : \A y \in T : x <= y
<1> DEFINE R == OpToRel(<, Nat)
<1>1. IsWellFoundedOn(R, Nat)
  BY NatLessThanWellFounded
<1> HIDE DEF R
<1>2. PICK x \in T : \A y \in T : ~ (<<y, x>> \in R)
  BY <1>1, WFMin, Zenon
<1>3. \A y \in T : x <= y
  <2> TAKE y \in T
  <2>1. x \in Nat /\ y \in Nat
    OBVIOUS
  <2>2. ~ (y < x)
    BY <1>2, <2>1 DEF R, OpToRel
  <2> QED BY <2>1, <2>2
<1> QED BY <1>3

\* From the equation for 1 .. n to the one for 1 .. n + 1.
LEMMA FoldExtend ==
  ASSUME NEW kind, NEW n \in Nat, NEW F, NEW s, NEW it, FoldOver(kind, n, F, s, it)
  PROVE  \E jt : FoldOver(kind, n + 1, F, s, jt)
<1> DEFINE jt == [t \in SUBSET (1 .. n + 1) |->
                    IF n + 1 \in t
                    THEN FoldStep(kind, it[t \ {n + 1}], s[n + 1])
                    ELSE it[t]]
<1>1. ASSUME NEW t \in SUBSET (1 .. n + 1)
      PROVE  jt[t] = IF t = {} THEN F ELSE FoldStep(kind, jt[t \ {Max(t)}], s[Max(t)])
  <2>1. CASE n + 1 \in t
    <3>1. t \in SUBSET Nat /\ \A y \in t : y <= n + 1
      OBVIOUS
    <3>2. Max(t) = n + 1
      BY <2>1, <3>1, MaxIs
    <3>3. t \ {n + 1} \in SUBSET (1 .. n + 1) /\ n + 1 \notin t \ {n + 1}
      OBVIOUS
    <3>4. jt[t \ {n + 1}] = it[t \ {n + 1}]
      BY <3>3
    <3>5. jt[t] = FoldStep(kind, it[t \ {n + 1}], s[n + 1])
      BY <2>1
    <3> QED BY <2>1, <3>2, <3>4, <3>5
  <2>2. CASE n + 1 \notin t
    <3>1. t \in SUBSET (1 .. n)
      BY <2>2
    <3>2. jt[t] = it[t]
      BY <2>2
    <3>3. it[t] = IF t = {} THEN F ELSE FoldStep(kind, it[t \ {Max(t)}], s[Max(t)])
      BY <3>1 DEF FoldOver
    <3>4. t \ {Max(t)} \in SUBSET (1 .. n + 1) /\ n + 1 \notin t \ {Max(t)}
      BY <2>2
    <3>5. jt[t \ {Max(t)}] = it[t \ {Max(t)}]
      BY <3>4
    <3> QED BY <3>2, <3>3, <3>5
  <2> QED BY <2>1, <2>2
<1>2. jt = [t \in SUBSET (1 .. n + 1) |-> jt[t]]
  OBVIOUS
<1> HIDE DEF jt
<1>3. FoldOver(kind, n + 1, F, s, jt)
  BY <1>1, <1>2 DEF FoldOver
<1> QED BY <1>3

\* Hence the equation has a solution for every n.
LEMMA FoldExists ==
  ASSUME NEW kind, NEW n \in Nat, NEW F, NEW s
  PROVE  \E it : FoldOver(kind, n, F, s, it)
<1> DEFINE T == {k \in Nat : ~ \E it : FoldOver(kind, k, F, s, it)}
<1>1. CASE T = {}
  BY <1>1
<1>2. CASE T # {}
  <2>1. PICK k \in T : \A y \in T : k <= y
    BY <1>2, LeastExists, Zenon
  <2>2. CASE k = 0
    <3> DEFINE it == [t \in SUBSET (1 .. 0) |-> F]
    <3>1. SUBSET (1 .. 0) = {{}}
      OBVIOUS
    <3>2. \A t \in SUBSET (1 .. 0) : t = {} /\ it[t] = F
      BY <3>1
    <3>3. FoldOver(kind, 0, F, s, it)
      BY <3>2 DEF FoldOver
    <3> QED BY <2>1, <2>2, <3>3
  <2>3. CASE k # 0
    <3>1. k - 1 \in Nat /\ (k - 1) + 1 = k /\ ~ (k <= k - 1)
      BY <2>1, <2>3
    <3>2. k - 1 \notin T
      BY <2>1, <3>1
    <3>3. PICK it : FoldOver(kind, k - 1, F, s, it)
      BY <3>1, <3>2
    <3>4. \E jt : FoldOver(kind, (k - 1) + 1, F, s, jt)
      BY <3>1, <3>3, FoldExtend
    <3> QED BY <2>1, <3>1, <3>4
  <2> QED BY <2>2, <2>3
<1> QED BY <1>1, <1>2

\* Each intermediate result from the one before.
LEMMA FoldInSteps ==
  ASSUME NEW kind, NEW n \in Nat, NEW F, NEW s, NEW it, FoldOver(kind, n, F, s, it),
         NEW k \in 1 .. n
  PROVE  it[1 .. k] = FoldStep(kind, it[1 .. (k - 1)], s[k])
<1>1. 1 .. k \in SUBSET Nat /\ k \in 1 .. k /\ \A y \in 1 .. k : y <= k
  OBVIOUS
<1>2. Max(1 .. k) = k
  BY <1>1, MaxIs
<1>3. (1 .. k) \ {k} = 1 .. (k - 1) /\ 1 .. k \in SUBSET (1 .. n) /\ 1 .. k # {}
  OBVIOUS
<1>4. it[1 .. k] = FoldStep(kind, it[(1 .. k) \ {Max(1 .. k)}], s[Max(1 .. k)])
  BY <1>3 DEF FoldOver
<1> QED BY <1>2, <1>3, <1>4

\* g is what the map F has become after each of the records s, all n in the end.
AddSteps(g, n, F, s) ==
  /\ g[0] = F
  /\ \A k \in 1 .. n : g[k] = Added(g[k - 1], s[k])
  /\ g[n] = FoldLeft(Added, F, s)

\* What Restore has made of the map F after each of the records s.
LEMMA AddsInSteps ==
  ASSUME NEW n \in Nat, NEW s, DOMAIN s = 1 .. n, NEW F
  PROVE  \E g : AddSteps(g, n, F, s)
<1> DEFINE it == CHOOSE i : i = [t \in SUBSET (1 .. n) |->
                                   IF t = {} THEN F ELSE Added(i[t \ {Max(t)}], s[Max(t)])]
<1>1. \E i : i = [t \in SUBSET (1 .. n) |->
                    IF t = {} THEN F ELSE Added(i[t \ {Max(t)}], s[Max(t)])]
  <2>1. PICK i : FoldOver("records", n, F, s, i)
    BY FoldExists, Zenon
  <2>2. i = [t \in SUBSET (1 .. n) |->
               IF t = {} THEN F ELSE Added(i[t \ {Max(t)}], s[Max(t)])]
    BY <2>1 DEF FoldOver, FoldStep
  <2> QED BY <2>2
<1>2. it = [t \in SUBSET (1 .. n) |->
              IF t = {} THEN F ELSE Added(it[t \ {Max(t)}], s[Max(t)])]
  BY <1>1
<1>3. FoldLeft(Added, F, s) = it[1 .. n]
  BY DEF FoldLeft, MapThenFoldSet
<1> HIDE DEF it
<1>4. FoldOver("records", n, F, s, it)
  BY <1>2 DEF FoldOver, FoldStep
<1>5. it[1 .. 0] = F
  <2>1. 1 .. 0 = {} /\ {} \in SUBSET (1 .. n)
    OBVIOUS
  <2> QED BY <1>2, <2>1
<1> DEFINE g == [k \in 0 .. n |-> it[1 .. k]]
<1>6. g[0] = F /\ g[n] = it[1 .. n]
  BY <1>5
<1>7. ASSUME NEW k \in 1 .. n
      PROVE  g[k] = Added(g[k - 1], s[k])
  <2>1. g[k] = it[1 .. k] /\ g[k - 1] = it[1 .. (k - 1)]
    OBVIOUS
  <2>2. it[1 .. k] = FoldStep("records", it[1 .. (k - 1)], s[k])
    BY <1>4, FoldInSteps
  <2>3. it[1 .. k] = Added(it[1 .. (k - 1)], s[k])
    BY <2>2 DEF FoldStep
  <2> HIDE DEF g
  <2> QED BY <2>1, <2>3
<1> HIDE DEF g
<1>8. AddSteps(g, n, F, s)
  BY <1>3, <1>6, <1>7 DEF AddSteps
<1> QED BY <1>8

\* g is what the map F has become after each of the entries s, all n in the end.
ApplySteps(g, n, F, s) ==
  /\ g[0] = F
  /\ \A k \in 1 .. n : g[k] = Applied(g[k - 1], s[k])
  /\ g[n] = FoldLeft(Applied, F, s)

\* What restore has made of the map F after each of the entries s.
LEMMA AppliesInSteps ==
  ASSUME NEW n \in Nat, NEW s, DOMAIN s = 1 .. n, NEW F
  PROVE  \E g : ApplySteps(g, n, F, s)
<1> DEFINE it == CHOOSE i : i = [t \in SUBSET (1 .. n) |->
                                   IF t = {} THEN F ELSE Applied(i[t \ {Max(t)}], s[Max(t)])]
<1>1. \E i : i = [t \in SUBSET (1 .. n) |->
                    IF t = {} THEN F ELSE Applied(i[t \ {Max(t)}], s[Max(t)])]
  <2>1. PICK i : FoldOver("entries", n, F, s, i)
    BY FoldExists, Zenon
  <2>2. i = [t \in SUBSET (1 .. n) |->
               IF t = {} THEN F ELSE Applied(i[t \ {Max(t)}], s[Max(t)])]
    BY <2>1 DEF FoldOver, FoldStep
  <2> QED BY <2>2
<1>2. it = [t \in SUBSET (1 .. n) |->
              IF t = {} THEN F ELSE Applied(it[t \ {Max(t)}], s[Max(t)])]
  BY <1>1
<1>3. FoldLeft(Applied, F, s) = it[1 .. n]
  BY DEF FoldLeft, MapThenFoldSet
<1> HIDE DEF it
<1>4. FoldOver("entries", n, F, s, it)
  BY <1>2 DEF FoldOver, FoldStep
<1>5. it[1 .. 0] = F
  <2>1. 1 .. 0 = {} /\ {} \in SUBSET (1 .. n)
    OBVIOUS
  <2> QED BY <1>2, <2>1
<1> DEFINE g == [k \in 0 .. n |-> it[1 .. k]]
<1>6. g[0] = F /\ g[n] = it[1 .. n]
  BY <1>5
<1>7. ASSUME NEW k \in 1 .. n
      PROVE  g[k] = Applied(g[k - 1], s[k])
  <2>1. g[k] = it[1 .. k] /\ g[k - 1] = it[1 .. (k - 1)]
    OBVIOUS
  <2>2. it[1 .. k] = FoldStep("entries", it[1 .. (k - 1)], s[k])
    BY <1>4, FoldInSteps
  <2>3. it[1 .. k] = Applied(it[1 .. (k - 1)], s[k])
    BY <2>2 DEF FoldStep
  <2> HIDE DEF g
  <2> QED BY <2>1, <2>3
<1> HIDE DEF g
<1>8. ApplySteps(g, n, F, s)
  BY <1>3, <1>6, <1>7 DEF ApplySteps
<1> QED BY <1>8

----------------------------------------------------------------------------
\* FlattenSeq's own recursion, over the first n of the sequences s.
FlatOver(n, s, f) ==
  f = [i \in 1 .. n |-> IF i = 1 THEN s[i] ELSE f[i - 1] \o s[i]]

\* It has a solution for every n.
LEMMA FlatExists ==
  ASSUME NEW n \in Nat, NEW s
  PROVE  \E f : FlatOver(n, s, f)
<1> DEFINE T == {k \in Nat : ~ \E f : FlatOver(k, s, f)}
<1>1. CASE T = {}
  BY <1>1
<1>2. CASE T # {}
  <2>1. PICK k \in T : \A y \in T : k <= y
    BY <1>2, LeastExists, Zenon
  <2>2. CASE k = 0
    <3> DEFINE f == [i \in 1 .. 0 |-> s[i]]
    <3>1. FlatOver(0, s, f)
      BY DEF FlatOver
    <3> QED BY <2>1, <2>2, <3>1
  <2>3. CASE k # 0
    <3>1. k \in Nat /\ k - 1 \in Nat /\ ~ (k <= k - 1)
      BY <2>1, <2>3
    <3>2. k - 1 \notin T
      BY <2>1, <3>1
    <3>3. PICK f : FlatOver(k - 1, s, f)
      BY <3>1, <3>2
    <3> DEFINE h == [i \in 1 .. k |-> IF i < k THEN f[i]
                                      ELSE IF k = 1 THEN s[k] ELSE f[k - 1] \o s[k]]
    <3>4. ASSUME NEW i \in 1 .. k
          PROVE  h[i] = IF i = 1 THEN s[i] ELSE h[i - 1] \o s[i]
      <4>1. CASE i < k
        <5>1. i \in 1 .. (k - 1)
          BY <3>1, <4>1
        <5>2. f[i] = IF i = 1 THEN s[i] ELSE f[i - 1] \o s[i]
          BY <3>3, <5>1 DEF FlatOver
        <5>3. i # 1 => i - 1 \in 1 .. k /\ i - 1 < k
          BY <3>1, <5>1
        <5>4. h[i] = f[i] /\ (i # 1 => h[i - 1] = f[i - 1])
          BY <4>1, <5>3
        <5> QED BY <5>2, <5>4
      <4>2. CASE i = k
        <5>1. k # 1 => k - 1 \in 1 .. k /\ k - 1 < k
          BY <3>1, <2>3
        <5>2. h[k] = (IF k = 1 THEN s[k] ELSE f[k - 1] \o s[k]) /\ (k # 1 => h[k - 1] = f[k - 1])
          BY <3>1, <4>2, <5>1
        <5> QED BY <4>2, <5>2
      <4> QED BY <3>1, <4>1, <4>2
    <3>5. h = [i \in 1 .. k |-> h[i]]
      OBVIOUS
    <3> HIDE DEF h
    <3>6. FlatOver(k, s, h)
      BY <3>4, <3>5 DEF FlatOver
    <3> QED BY <2>1, <3>6
  <2> QED BY <2>2, <2>3
<1> QED BY <1>1, <1>2

\* The records read after each of the files s.
LEMMA FlatInSteps ==
  ASSUME NEW n \in Nat \ {0}, NEW s, DOMAIN s = 1 .. n, Len(s) = n
  PROVE  \E f : /\ f[1] = s[1]
                /\ \A k \in 2 .. n : f[k] = f[k - 1] \o s[k]
                /\ f[n] = FlattenSeq(s)
<1> DEFINE f == CHOOSE e : e = [i \in 1 .. n |-> IF i = 1 THEN s[i] ELSE e[i - 1] \o s[i]]
<1>1. \E e : e = [i \in 1 .. n |-> IF i = 1 THEN s[i] ELSE e[i - 1] \o s[i]]
  BY FlatExists DEF FlatOver
<1>2. f = [i \in 1 .. n |-> IF i = 1 THEN s[i] ELSE f[i - 1] \o s[i]]
  BY <1>1
<1>3. FlattenSeq(s) = f[n]
  BY DEF FlattenSeq
<1> HIDE DEF f
<1>4. \A k \in 1 .. n : f[k] = IF k = 1 THEN s[k] ELSE f[k - 1] \o s[k]
  BY <1>2
<1>5. 1 \in 1 .. n /\ \A k \in 2 .. n : k \in 1 .. n /\ k # 1
  OBVIOUS
<1>6. f[1] = s[1] /\ \A k \in 2 .. n : f[k] = f[k - 1] \o s[k]
  BY <1>4, <1>5
<1> QED BY <1>3, <1>6

----------------------------------------------------------------------------
(* Types of the state *)

FileMap == [Names -> Metas \cup {None}]

\* The log is loaded with records of files.
LEMMA DataFields ==
  ASSUME NEW d \in Data
  PROVE  d.name \in Names /\ d.meta \in Metas /\ d.del \in BOOLEAN /\ d # NoJob
<1>1. d \in [name : Names, meta : Metas, del : BOOLEAN]
  BY DataAssumption
<1> QED BY <1>1 DEF NoJob

\* Restore and Apply keep the map a map of files.
LEMMA AddedTyped ==
  ASSUME NEW F \in FileMap, NEW r, r.name \in Names, r.meta \in Metas
  PROVE  Added(F, r) \in FileMap
BY DEF Added, FileMap

\* An entry of the log is applied to a map.
LEMMA AppliedTyped ==
  ASSUME NEW F \in FileMap, NEW e \in Entry
  PROVE  Applied(F, e) \in FileMap
<1>1. e.data \in Data
  BY DEF Entry
<1>2. e.data.name \in Names /\ e.data.meta \in Metas
  BY <1>1, DataFields
<1> QED BY <1>2 DEF Applied, Added, FileMap

\* The map that Restore makes of a snapshot file.
LEMMA RestoredTyped ==
  ASSUME NEW s \in Seq(Cell)
  PROVE  RestoreFrom(s) \in FileMap
<1> DEFINE n == Len(s)
<1>1. n \in Nat /\ DOMAIN s = 1 .. n /\ \A k \in 1 .. n : s[k] \in Cell
  OBVIOUS
<1> HIDE DEF n
<1>2. PICK g : AddSteps(g, n, NoFiles, s)
  BY <1>1, AddsInSteps, Zenon
<1> DEFINE T == {k \in 0 .. n : g[k] \notin FileMap}
<1>3. T = {}
  <2> SUFFICES ASSUME T # {} PROVE FALSE
    OBVIOUS
  <2>1. T \in SUBSET Nat
    BY <1>1
  <2>2. PICK k \in T : \A y \in T : k <= y
    BY <2>1, LeastExists, Zenon
  <2>3. k \in 0 .. n /\ g[k] \notin FileMap
    OBVIOUS
  <2>4. k # 0
    BY <1>2, <2>3 DEF NoFiles, FileMap, AddSteps
  <2>5. k \in 1 .. n /\ k - 1 \in 0 .. n /\ ~ (k <= k - 1)
    BY <1>1, <2>3, <2>4
  <2>6. g[k - 1] \in FileMap
    BY <2>2, <2>5
  <2>7. s[k].name \in Names /\ s[k].meta \in Metas
    BY <1>1, <2>5 DEF Cell
  <2>8. g[k] = Added(g[k - 1], s[k])
    BY <1>2, <2>5 DEF AddSteps
  <2>9. Added(g[k - 1], s[k]) \in FileMap
    BY <2>6, <2>7, AddedTyped
  <2> QED BY <2>3, <2>8, <2>9
<1>4. n \in 0 .. n
  BY <1>1
<1> QED BY <1>2, <1>3, <1>4 DEF RestoreFrom, AddSteps

\* The cells of a record.
LEMMA CellsTyped ==
  ASSUME NEW r \in FileRec
  PROVE  /\ CellsOf(r) \in Seq(Cell) /\ Len(CellsOf(r)) = Length[r]
         /\ Length[r] \in Nat \ {0} /\ DOMAIN CellsOf(r) = 1 .. Length[r]
<1>1. Length[r] \in Nat \ {0}
  BY LengthAssumption
<1>2. r.name \in Names /\ r.meta \in Metas
  BY DEF FileRec
<1>3. \A i \in 1 .. Length[r] : [name |-> r.name, meta |-> r.meta, at |-> i] \in Cell
  BY <1>1, <1>2 DEF Cell
<1>4. CellsOf(r) = [i \in 1 .. Length[r] |-> [name |-> r.name, meta |-> r.meta, at |-> i]]
  BY DEF CellsOf
<1> QED BY <1>1, <1>3, <1>4

\* FlattenSeq of sequences over R.
LEMMA FlatTyped ==
  ASSUME NEW R, NEW n \in Nat, NEW s, s \in [1 .. n -> Seq(R)]
  PROVE  FlattenSeq(s) \in Seq(R)
<1>0. Len(s) = n /\ DOMAIN s = 1 .. n
  OBVIOUS
<1>1. CASE n = 0
  <2>1. s = << >>
    BY <1>1
  <2>2. FlattenSeq(s) = s
    BY <1>0, <1>1 DEF FlattenSeq
  <2>3. << >> \in Seq(R)
    OBVIOUS
  <2> QED BY <2>1, <2>2, <2>3, Zenon
<1>2. CASE n # 0
  <2>1. PICK f : /\ f[1] = s[1]
                 /\ \A k \in 2 .. n : f[k] = f[k - 1] \o s[k]
                 /\ f[n] = FlattenSeq(s)
    <3>1. n \in Nat \ {0}
      BY <1>2
    <3> QED BY <1>0, <3>1, FlatInSteps, Zenon
  <2> DEFINE T == {k \in 1 .. n : f[k] \notin Seq(R)}
  <2>2. T = {}
    <3> SUFFICES ASSUME T # {} PROVE FALSE
      OBVIOUS
    <3>1. T \in SUBSET Nat
      OBVIOUS
    <3>2. PICK k \in T : \A y \in T : k <= y
      BY <3>1, LeastExists, Zenon
    <3>3. k \in 1 .. n /\ f[k] \notin Seq(R)
      OBVIOUS
    <3>4. k # 1
      BY <2>1, <3>3
    <3>5. k \in 2 .. n /\ k - 1 \in 1 .. n /\ ~ (k <= k - 1)
      BY <3>3, <3>4
    <3>6. f[k - 1] \in Seq(R) /\ s[k] \in Seq(R)
      BY <3>2, <3>3, <3>5
    <3>7. f[k - 1] \o s[k] \in Seq(R)
      BY <3>6, ConcatProperties
    <3> QED BY <2>1, <3>3, <3>5, <3>7
  <2>3. n \in 1 .. n
    BY <1>2
  <2> QED BY <2>1, <2>2, <2>3
<1> QED BY <1>1, <1>2

\* The directory has a last file, and finitely many.
LEMMA LastFile ==
  ASSUME NEW S, IsDirectory(S), NEW n \in DOMAIN S, \A m \in DOMAIN S : m <= n
  PROVE  findLastSegmentNumber(S) = n /\ n \in Nat \ {0} /\ countLogFiles(S) \in Nat
<1>1. DOMAIN S \subseteq Nat /\ n \in Nat \ {0}
  BY DEF IsDirectory
<1>2. findLastSegmentNumber(S) = n
  BY <1>1, MaxIs DEF findLastSegmentNumber
<1>3. IsFiniteSet(0 .. n) /\ DOMAIN S \subseteq 0 .. n
  BY <1>1, FS_Interval
<1>4. IsFiniteSet(DOMAIN S)
  BY <1>3, FS_Subset
<1>5. countLogFiles(S) \in Nat
  BY <1>4, FS_CardinalityType DEF countLogFiles
<1> QED BY <1>1, <1>2, <1>5

\* The records of files that are there.
LEMMA EntriesOfTyped ==
  ASSUME NEW S, IsDirectory(S), NEW start \in Int, NEW n \in Nat,
         \A i \in 1 .. n : start + i - 1 \in DOMAIN S
  PROVE  EntriesOf(S, start, n) \in Seq(Entry)
<1> DEFINE s == [i \in 1 .. n |-> S[start + i - 1].recs]
<1>1. \A m \in DOMAIN S : S[m].recs \in Seq(Entry)
  BY DEF IsDirectory, SegmentFile
<1>2. s \in [1 .. n -> Seq(Entry)]
  BY <1>1
<1>3. EntriesOf(S, start, n) = FlattenSeq(s)
  BY DEF EntriesOf
<1> HIDE DEF s
<1> QED BY <1>2, <1>3, FlatTyped

\* ReadAllEntries of a directory a process can start from.
LEMMA EntriesTyped ==
  ASSUME NEW S, IsDirectory(S),
         S # EmptyDirectory => Readable(S) /\ \E n \in DOMAIN S : \A m \in DOMAIN S : m <= n
  PROVE  AllEntries(S) \in Seq(Entry)
<1> DEFINE last == findLastSegmentNumber(S)
           n == countLogFiles(S)
           start == last - n + 1
<1>1. CASE S = EmptyDirectory
  <2>1. n = 0
    BY <1>1, FS_EmptySet DEF EmptyDirectory, countLogFiles
  <2>2. AllEntries(S) = FlattenSeq([i \in 1 .. n |-> S[start + i - 1].recs])
    BY DEF AllEntries, EntriesOf
  <2> HIDE DEF n, start
  <2>3. [i \in 1 .. n |-> S[start + i - 1].recs] \in [1 .. n -> Seq(Entry)]
    BY <2>1
  <2> QED BY <2>1, <2>2, <2>3, FlatTyped
<1>2. CASE S # EmptyDirectory
  <2>1. n \in Nat /\ last \in Nat
    BY <1>2, LastFile
  <2>2. DOMAIN S = start .. last
    BY <1>2 DEF Readable
  <2> HIDE DEF n, last
  <2>3. start \in Int /\ \A i \in 1 .. n : start + i - 1 \in DOMAIN S
    BY <2>1, <2>2
  <2>4. AllEntries(S) = EntriesOf(S, start, n)
    BY DEF AllEntries, n, last
  <2> HIDE DEF start
  <2> QED BY <2>1, <2>3, <2>4, EntriesOfTyped
<1> QED BY <1>1, <1>2

----------------------------------------------------------------------------
\* A caller that is in AppendEntry logs a record, and if it is restore that
\* calls, there is an entry it replays.
JobsInLog ==
  /\ \A c \in Callers : pc[c] # "idle" => job[c] # NoJob
  /\ pc[Restorer] # "idle" => replay # << >>

StoreInv == StoreTypeOK /\ JobsInLog

\* Both initial states of the server.
LEMMA InitStoreInv == MetaInit => StoreInv
<1> SUFFICES ASSUME MetaInit
             PROVE  StoreInv
  OBVIOUS
<1>1. /\ files \in [Names -> Metas \cup {None}]
      /\ job \in [Callers -> Data \cup {NoJob}]
      /\ replay \in Seq(Entry) /\ tmp \in Seq(Cell) /\ copied \in BOOLEAN
      /\ crashes \in 0 .. MaxCrashes /\ snapshots \in 0 .. MaxSnapshots
  <2>1. /\ files = NoFiles /\ job = [c \in Callers |-> NoJob] /\ replay = << >> /\ tmp = << >>
        /\ copied = FALSE /\ crashes = 0 /\ snapshots = 0
    BY DEF MetaInit
  <2>2. files \in [Names -> Metas \cup {None}]
    BY <2>1 DEF NoFiles
  <2>3. job \in [Callers -> Data \cup {NoJob}]
    BY <2>1
  <2>4. replay \in Seq(Entry) /\ tmp \in Seq(Cell)
    BY <2>1
  <2>5. crashes \in 0 .. MaxCrashes /\ snapshots \in 0 .. MaxSnapshots
    BY <2>1, StoreBoundsAssumption
  <2> QED BY <2>1, <2>2, <2>3, <2>4, <2>5, Zenon
<1>2. snapFile \in Seq(Cell) /\ (\A e \in hist : e \in Entry) /\ again = {}
  <2>1. CASE StartSegment = 0
    BY <2>1 DEF MetaInit
  <2>2. CASE StartSegment # 0
    <3>1. PICK d \in Data :
            segs = With(EmptyDirectory, StartSegment,
                        [recs |-> <<[lsn |-> StartSegment, data |-> d]>>, size |-> Size[d]])
      BY <2>2 DEF MetaInit, Init, InitialSegs
    <3>2. segs[StartSegment].recs[1] = [lsn |-> StartSegment, data |-> d]
      BY <3>1 DEF With, EmptyDirectory
    <3>3. /\ snapFile = CellsOf([name |-> d.name, meta |-> d.meta])
          /\ hist = {[lsn |-> StartSegment, data |-> d]}
      BY <2>2, <3>2 DEF MetaInit
    <3>4. [name |-> d.name, meta |-> d.meta] \in FileRec
      BY DataFields DEF FileRec
    <3>5. [lsn |-> StartSegment, data |-> d] \in Entry
      BY StartAssumption DEF Entry
    <3> QED BY <3>3, <3>4, <3>5, CellsTyped DEF MetaInit
  <2> QED BY <2>1, <2>2
<1>3. JobsInLog
  BY RestorerAssumption DEF MetaInit, Init, Down, JobsInLog
<1> QED BY <1>1, <1>2, <1>3 DEF StoreInv, StoreTypeOK

\* Start-up and restore.
LEMMA BootStore ==
  ASSUME IInv, StoreInv, MetaBoot
  PROVE  StoreInv'
<1>1. CanBoot /\ IsDirectory(segs) /\ HasLast /\ mode = "down"
  BY DEF MetaBoot, Boot, IInv, TypeOK
<1>2. replay' \in Seq(Entry)
  <2>1. CASE snapshot = NoSnapshot
    BY <2>1 DEF MetaBoot
  <2>2. CASE snapshot # NoSnapshot
    <3>1. AllEntries(segs) \in Seq(Entry)
      BY <1>1, <2>2, EntriesTyped DEF CanBoot, HasLast
    <3> QED BY <2>2, <3>1 DEF MetaBoot
  <2> QED BY <2>1, <2>2
<1>3. files' \in [Names -> Metas \cup {None}]
  <2>1. RestoreFrom(snapFile) \in FileMap
    BY RestoredTyped DEF StoreInv, StoreTypeOK
  <2>2. NoFiles \in FileMap
    BY DEF NoFiles, FileMap
  <2> QED BY <2>1, <2>2 DEF MetaBoot, FileMap
<1>4. pc' = [c \in Callers |-> "idle"]
  BY <1>1 DEF MetaBoot, Boot, IInv, Idle
<1> QED BY <1>2, <1>3, <1>4, RestorerAssumption
        DEF StoreInv, StoreTypeOK, JobsInLog, MetaBoot

\* What the log does for a handler or restore.
LEMMA LoggedStore ==
  ASSUME IInv', NEW H, \A e \in H : e \in Entry, NEW h \in Callers, NEW d \in Data
  PROVE  \A e \in Logged(H, h, d) : e \in Entry
<1>1. [lsn |-> lsn'[h], data |-> d] \in Entry
  BY DEF IInv, TypeOK, Entry
<1> QED BY <1>1 DEF Logged

\* The other steps of restore.
LEMMA RestoreStore ==
  ASSUME IInv, IInv', StoreInv, 
         MetaBootFails \/ ApplyInMemory \/ MetaRestored \/ \E d \in Data : ApplyDelete(d)
  PROVE  StoreInv'
<1>1. CASE MetaBootFails
  BY <1>1 DEF StoreInv, StoreTypeOK, JobsInLog, MetaBootFails, allVars, vars, storeVars
<1>2. CASE MetaRestored
  BY <1>2 DEF StoreInv, StoreTypeOK, JobsInLog, MetaRestored, Restored, storeVars
<1>3. CASE ApplyInMemory
  <2>1. replay # << >> /\ replay \in Seq(Entry) /\ pc[Restorer] = "idle"
    BY <1>3 DEF ApplyInMemory, StoreInv, StoreTypeOK
  <2>2. Head(replay) \in Entry /\ Tail(replay) \in Seq(Entry)
    BY <2>1, HeadTailProperties
  <2>3. Head(replay).data \in Data
    BY <2>2 DEF Entry
  <2>4. Head(replay).data.name \in Names /\ Head(replay).data.meta \in Metas
    BY <2>3, DataFields
  <2>5. files \in FileMap
    BY DEF StoreInv, StoreTypeOK, FileMap
  <2>6. Added(files, Head(replay).data) \in FileMap
    BY <2>4, <2>5, AddedTyped
  <2>7. files' \in FileMap /\ replay' = Tail(replay)
    BY <1>3, <2>5, <2>6 DEF ApplyInMemory
  <2>8. pc' = pc /\ job' = job /\ UNCHANGED <<tmp, copied, snapFile, hist, again, crashes, snapshots>>
    BY <1>3 DEF ApplyInMemory, vars
  <2> QED BY <2>1, <2>2, <2>7, <2>8 DEF StoreInv, StoreTypeOK, JobsInLog, FileMap
<1>4. ASSUME NEW d \in Data, ApplyDelete(d)
      PROVE  StoreInv'
  <2>1. d # NoJob /\ replay # << >> /\ replay' = replay
    BY <1>4, DataFields DEF ApplyDelete, DeleteToReplay
  <2>2. \A c \in Callers : pc'[c] # "idle" => c = Restorer \/ pc[c] # "idle"
    BY <1>4 DEF ApplyDelete, AppendEntry, AppendFailsFirst, AppendFailsSecond, AppendSucceeds,
                Released, Waiting, IInv, TypeOK
  <2>3. \A e \in again' : e \in Entry
    <3>1. \A e \in again : e \in Entry
      BY DEF StoreInv, StoreTypeOK
    <3> QED BY <1>4, <3>1, LoggedStore, RestorerAssumption DEF ApplyDelete
  <2> QED BY <1>4, <2>1, <2>2, <2>3, RestorerAssumption
          DEF ApplyDelete, StoreInv, StoreTypeOK, JobsInLog
<1> QED BY <1>1, <1>2, <1>3, <1>4

\* Handlers.
LEMMA HandlerStore ==
  ASSUME IInv, IInv', StoreInv,
         \/ \E h \in Handlers, d \in Data : AddFileMetadata(h, d) \/ DeleteLookup(h, d)
         \/ \E h \in Handlers : DeleteAppend(h)
         \/ \E c \in Callers : Finish(c)
  PROVE  StoreInv'
<1>0. ASSUME NEW h \in Handlers, NEW d \in Data, AppendEntry(h, d)
      PROVE  /\ \A c \in Callers : pc'[c] # "idle" => c = h \/ pc[c] # "idle"
             /\ pc'[Restorer] # "idle" => pc[Restorer] # "idle"
  BY <1>0, RestorerAssumption
  DEF AppendEntry, AppendFailsFirst, AppendFailsSecond, AppendSucceeds,
      Released, Waiting, IInv, TypeOK, Handlers
<1>1. ASSUME NEW h \in Handlers, NEW d \in Data, AddFileMetadata(h, d)
      PROVE  StoreInv'
  <2>1. \A e \in hist' : e \in Entry
    <3>1. \A e \in hist : e \in Entry
      BY DEF StoreInv, StoreTypeOK
    <3> QED BY <1>1, <3>1, LoggedStore DEF AddFileMetadata, Handlers
  <2>2. d # NoJob
    BY DataFields
  <2> QED BY <1>0, <1>1, <2>1, <2>2
          DEF AddFileMetadata, StoreInv, StoreTypeOK, JobsInLog, Handlers
<1>2. ASSUME NEW h \in Handlers, NEW d \in Data, DeleteLookup(h, d)
      PROVE  StoreInv'
  <2>1. d # NoJob
    BY DataFields
  <2> QED BY <1>2, <2>1
          DEF DeleteLookup, vars, StoreInv, StoreTypeOK, JobsInLog, Handlers
<1>3. ASSUME NEW h \in Handlers, DeleteAppend(h)
      PROVE  StoreInv'
  <2>1. job[h] \in Data /\ job[h] # NoJob
    BY <1>3 DEF DeleteAppend, StoreInv, StoreTypeOK, Handlers
  <2>2. \A e \in hist' : e \in Entry
    <3>1. \A e \in hist : e \in Entry
      BY DEF StoreInv, StoreTypeOK
    <3> QED BY <1>3, <2>1, <3>1, LoggedStore DEF DeleteAppend, Handlers
  <2>3. /\ \A c \in Callers : pc'[c] # "idle" => c = h \/ pc[c] # "idle"
        /\ pc'[Restorer] # "idle" => pc[Restorer] # "idle"
    BY <1>0, <1>3, <2>1 DEF DeleteAppend
  <2> QED BY <1>3, <2>1, <2>2, <2>3
          DEF DeleteAppend, StoreInv, StoreTypeOK, JobsInLog, Handlers
<1>4. ASSUME NEW c \in Callers, Finish(c)
      PROVE  StoreInv'
  <2>1. pc[c] \in {"released", "failed"} /\ pc' = [pc EXCEPT ![c] = "idle"]
    BY <1>4 DEF Finish, Return
  <2>2. job[c] \in Data
    BY <2>1 DEF StoreInv, StoreTypeOK, JobsInLog
  <2>3. job[c].name \in Names /\ job[c].meta \in Metas
    BY <2>2, DataFields
  <2>4. files \in FileMap
    BY DEF StoreInv, StoreTypeOK, FileMap
  <2>5. Added(files, job[c]) \in FileMap
    BY <2>3, <2>4, AddedTyped
  <2>6. files' \in FileMap
    BY <1>4, <2>3, <2>4, <2>5 DEF Finish, FileMap
  <2>7. pc'[Restorer] = "idle" \/ c # Restorer
    BY <2>1, RestorerAssumption DEF IInv, TypeOK
  <2>8. replay' \in Seq(Entry) /\ (c # Restorer => replay' = replay)
    <3>1. CASE c = Restorer
      <4>1. replay # << >> /\ replay \in Seq(Entry)
        BY <2>1, <3>1 DEF StoreInv, StoreTypeOK, JobsInLog
      <4>2. replay' = Tail(replay)
        BY <1>4, <3>1 DEF Finish
      <4> QED BY <3>1, <4>1, <4>2, HeadTailProperties
    <3>2. CASE c # Restorer
      BY <1>4, <3>2 DEF Finish, StoreInv, StoreTypeOK
    <3> QED BY <3>1, <3>2
  <2>9. job' = [job EXCEPT ![c] = NoJob] /\ UNCHANGED <<tmp, copied, snapFile, hist, again, crashes, snapshots>>
    BY <1>4 DEF Finish
  <2>10. JobsInLog'
    BY <2>1, <2>7, <2>8, <2>9, RestorerAssumption
    DEF JobsInLog, StoreInv, StoreTypeOK, IInv, TypeOK
  <2> QED BY <2>6, <2>8, <2>9, <2>10 DEF StoreInv, StoreTypeOK, FileMap
<1> QED BY <1>1, <1>2, <1>3, <1>4

\* The records that a copy of the map consists of.
RecordsIn(F) == {[name |-> n, meta |-> F[n]] : n \in {m \in Names : F[m] # None}}

\* There are finitely many of them, in every order.
LEMMA CopyRecords ==
  ASSUME NEW F \in FileMap
  PROVE  /\ RecordsIn(F) \subseteq FileRec /\ IsFiniteSet(RecordsIn(F))
         /\ Cardinality(RecordsIn(F)) \in Nat
         /\ \A s \in Copies(F) : \E t \in [1 .. Cardinality(RecordsIn(F)) -> RecordsIn(F)] :
              /\ \A i, j \in DOMAIN t : i # j => t[i] # t[j]
              /\ s = FlattenSeq([i \in 1 .. Cardinality(RecordsIn(F)) |-> CellsOf(t[i])])
<1> DEFINE X == {m \in Names : F[m] # None}
           f == [n \in X |-> [name |-> n, meta |-> F[n]]]
           R == RecordsIn(F)
<1>1. R \subseteq FileRec
  BY DEF RecordsIn, FileRec, FileMap
<1>2. IsFiniteSet(X)
  BY NamesAssumption, FS_Subset
<1>3. f \in [X -> R] /\ \A r \in R : \E n \in X : f[n] = r
  BY DEF RecordsIn
<1> HIDE DEF X, f, R
<1>4. f \in Surjection(X, R)
  BY <1>3 DEF Surjection
<1>5. IsFiniteSet(R)
  BY <1>2, <1>4, FS_Surjection
<1>6. Cardinality(R) \in Nat
  BY <1>5, FS_CardinalityType
<1>7. ASSUME NEW s \in Copies(F)
      PROVE  \E t \in [1 .. Cardinality(R) -> R] :
               /\ \A i, j \in DOMAIN t : i # j => t[i] # t[j]
               /\ s = FlattenSeq([i \in 1 .. Cardinality(R) |-> CellsOf(t[i])])
  <2>1. PICK t \in SetToSeqs(R) : s = FlattenSeq([i \in DOMAIN t |-> CellsOf(t[i])])
    BY DEF Copies, R, RecordsIn
  <2>2. t \in [1 .. Cardinality(R) -> R] /\ \A i, j \in 1 .. Cardinality(R) : i # j => t[i] # t[j]
    BY DEF SetToSeqs
  <2>3. DOMAIN t = 1 .. Cardinality(R)
    BY <2>2
  <2> QED BY <2>1, <2>2, <2>3
<1> QED BY <1>1, <1>5, <1>6, <1>7 DEF R

\* The copy of the map, in any order.
LEMMA CopyTyped ==
  ASSUME NEW F \in FileMap, NEW s \in Copies(F)
  PROVE  s \in Seq(Cell)
<1> DEFINE R == RecordsIn(F)
           n == Cardinality(R)
<1>1. R \subseteq FileRec /\ n \in Nat
  BY CopyRecords
<1>2. PICK t \in [1 .. n -> R] : s = FlattenSeq([i \in 1 .. n |-> CellsOf(t[i])])
  BY CopyRecords
<1> HIDE DEF R, n
<1>3. [i \in 1 .. n |-> CellsOf(t[i])] \in [1 .. n -> Seq(Cell)]
  BY <1>1, CellsTyped
<1> QED BY <1>1, <1>2, <1>3, FlatTyped

\* What is written over the file, with what was behind it.
LEMMA OverTyped ==
  ASSUME tmp \in Seq(Cell), NEW s \in Seq(Cell)
  PROVE  Over(s) \in Seq(Cell)
<1>1. \A k \in Len(s) + 1 .. Len(tmp) : tmp[k] \in Cell
  OBVIOUS
<1>2. Len(s) + 1 \in Int /\ Len(tmp) \in Int
  OBVIOUS
<1>3. SubSeq(tmp, Len(s) + 1, Len(tmp)) \in Seq(Cell)
  BY <1>1, <1>2, SubSeqProperties, Zenon
<1> QED BY <1>3, ConcatProperties, Zenon DEF Over

\* A whole copy or the beginning of one.
LEMMA SnapshotStore ==
  ASSUME StoreInv, Snapshot \/ MetaSnapFails
  PROVE  StoreInv'
<1>1. tmp \in Seq(Cell) /\ files \in FileMap
  BY DEF StoreInv, StoreTypeOK, FileMap
<1>2. CASE Snapshot
  <2>1. PICK s \in Copies(files) : tmp' = Over(s)
    BY <1>2 DEF Snapshot
  <2>2. tmp' \in Seq(Cell)
    BY <1>1, <2>1, CopyTyped, OverTyped
  <2> QED BY <1>2, <2>2 DEF Snapshot, vars, StoreInv, StoreTypeOK, JobsInLog
<1>3. CASE MetaSnapFails
  <2>1. tmp' \in Seq(Cell)
    <3>1. CASE copied
      BY <1>1, <1>3, <3>1 DEF MetaSnapFails
    <3>2. CASE ~ copied
      <4>1. PICK s \in Copies(files) : \E k \in 0 .. Len(s) : tmp' = Over(SubSeq(s, 1, k))
        BY <1>3, <3>2 DEF MetaSnapFails
      <4>2. PICK k \in 0 .. Len(s) : tmp' = Over(SubSeq(s, 1, k))
        BY <4>1
      <4>3. s \in Seq(Cell)
        BY <1>1, CopyTyped
      <4>4. 1 \in Int /\ k \in Int /\ \A i \in 1 .. k : s[i] \in Cell
        BY <4>2, <4>3
      <4>5. SubSeq(s, 1, k) \in Seq(Cell)
        BY <4>4, SubSeqProperties, Zenon
      <4> QED BY <1>1, <4>2, <4>5, OverTyped
    <3> QED BY <3>1, <3>2
  <2> QED BY <1>3, <2>1 DEF MetaSnapFails, SnapFails, StoreInv, StoreTypeOK, JobsInLog
<1> QED BY <1>2, <1>3

\* Flushes, snapshots and cleanups.
LEMMA LogStore ==
  ASSUME IInv, StoreInv,
         \/ MetaFlushTick \/ MetaSnapBegin \/ MetaSnapRename
         \/ MetaSnapPublish \/ MetaSnapList \/ MetaCleanStep
  PROVE  StoreInv'
<1>1. CASE MetaFlushTick
  <2>1. \A c \in Callers : pc'[c] # "idle" => pc[c] # "idle"
    BY <1>1 DEF MetaFlushTick, FlushTick, Released, Waiting, IInv, TypeOK
  <2>2. UNCHANGED storeVars
    BY <1>1 DEF MetaFlushTick
  <2> QED BY <2>1, <2>2, RestorerAssumption DEF storeVars, StoreInv, StoreTypeOK, JobsInLog
<1>2. CASE MetaSnapBegin
  <2>1. snapshots' \in 0 .. MaxSnapshots
    BY <1>2, StoreBoundsAssumption DEF MetaSnapBegin, StoreInv, StoreTypeOK
  <2> QED BY <1>2, <2>1 DEF MetaSnapBegin, SnapBegin, StoreInv, StoreTypeOK, JobsInLog
<1>3. CASE MetaSnapPublish \/ MetaSnapList \/ MetaCleanStep
  BY <1>3 DEF MetaSnapPublish, MetaSnapList, MetaCleanStep, SnapPublish, SnapList, CleanStep, storeVars, StoreInv, StoreTypeOK, JobsInLog
<1>4. CASE MetaSnapRename
  BY <1>4 DEF MetaSnapRename, SnapRename, StoreInv, StoreTypeOK, JobsInLog
<1> QED BY <1>1, <1>2, <1>3, <1>4

\* Crashes.
LEMMA CrashStore ==
  ASSUME StoreInv, LoseStore, LoseMemory
  PROVE  StoreInv'
<1>1. crashes' \in 0 .. MaxCrashes
  BY StoreBoundsAssumption DEF LoseStore, StoreInv, StoreTypeOK
<1>2. files' \in [Names -> Metas \cup {None}]
  BY DEF LoseStore, NoFiles
<1>3. /\ job' \in [Callers -> Data \cup {NoJob}] /\ replay' \in Seq(Entry)
      /\ copied' \in BOOLEAN /\ hist' \subseteq hist /\ again' \subseteq again
      /\ UNCHANGED <<tmp, snapFile, snapshots>>
  <2>1. /\ job' = [c \in Callers |-> NoJob] /\ replay' = << >> /\ copied' = FALSE
        /\ hist' \subseteq hist /\ again' \subseteq again
        /\ UNCHANGED <<tmp, snapFile, snapshots>>
    BY DEF LoseStore
  <2>2. job' \in [Callers -> Data \cup {NoJob}]
    BY <2>1
  <2>3. replay' \in Seq(Entry)
    BY <2>1
  <2> QED BY <2>1, <2>2, <2>3
<1>4. JobsInLog'
  BY RestorerAssumption DEF LoseMemory, JobsInLog
<1> QED BY <1>1, <1>2, <1>3, <1>4 DEF StoreInv, StoreTypeOK

\* Every step of the server keeps the types of its state.
LEMMA NextStoreInv == IInv /\ IInv' /\ StoreInv /\ [MetaNext]_allVars => StoreInv'
<1> SUFFICES ASSUME IInv, IInv', StoreInv, [MetaNext]_allVars
             PROVE  StoreInv'
  OBVIOUS
<1>1. CASE MetaBoot
  BY <1>1, BootStore
<1>2. CASE MetaBootFails \/ ApplyInMemory \/ MetaRestored \/ \E d \in Data : ApplyDelete(d)
  BY <1>2, RestoreStore
<1>3. CASE \/ \E h \in Handlers, d \in Data : AddFileMetadata(h, d) \/ DeleteLookup(h, d)
           \/ \E h \in Handlers : DeleteAppend(h)
           \/ \E c \in Callers : Finish(c)
  BY <1>3, HandlerStore
<1>4. CASE \/ MetaFlushTick \/ MetaSnapBegin \/ MetaSnapRename
           \/ MetaSnapPublish \/ MetaSnapList \/ MetaCleanStep
  BY <1>4, LogStore
<1>5. CASE Snapshot \/ MetaSnapFails
  BY <1>5, SnapshotStore
<1>6. CASE MetaCrash \/ \E c \in Callers, d \in Data : MetaCrashInRoll(c, d)
  BY <1>6, CrashStore DEF MetaCrash, MetaCrashInRoll, Crash, CrashInRoll
<1>7. CASE UNCHANGED allVars
  BY <1>7 DEF allVars, vars, storeVars, StoreInv, StoreTypeOK, JobsInLog
<1> QED BY <1>1, <1>2, <1>3, <1>4, <1>5, <1>6, <1>7 DEF MetaNext

\* The state of the server keeps its types: restore reads back what the snapshot
\* and the log wrote as files and entries, and a caller of the log has a record.
THEOREM ServerTyped == ASSUME MaxSegments # 1 PROVE MetaSpec => []StoreTypeOK
<1>1. MetaSpec => []IInv
  BY ServerImplementsLog, Invariance, PTL
<1>2. MetaInit => StoreInv
  BY InitStoreInv
<1>3. IInv /\ IInv' /\ StoreInv /\ [MetaNext]_allVars => StoreInv'
  BY NextStoreInv
<1>4. MetaSpec => []StoreInv
  BY <1>1, <1>2, <1>3, PTL DEF MetaSpec
<1>5. StoreInv => StoreTypeOK
  BY DEF StoreInv
<1> QED BY <1>4, <1>5, PTL

----------------------------------------------------------------------------
(* Operations: logged, applied, copied *)

\* What the operation d leaves of its file.
Eff(d) == IF d.del THEN None ELSE d.meta

\* Of the operations O, e is the last on its file.
LastIn(O, e) == \A f \in O : f.data.name = e.data.name => f.lsn <= e.lsn

\* The map F, and then the operations P, are all there is to know of the
\* operations O: the last one on a file is in P or in F, and then P says the same
\* of the file.
Restores(O, P, F) ==
  \A e \in O : LastIn(O, e) =>
    \/ e \in P
    \/ /\ F[e.data.name] = Eff(e.data)
       /\ \A p \in P : p.data.name = e.data.name => Eff(p.data) = Eff(e.data)

\* The map F has every last operation up to the number H.
Covers(O, H, F) == \A e \in O : LastIn(O, e) /\ e.lsn <= H => F[e.data.name] = Eff(e.data)

\* Operations differ in their numbers.
Numbered(O) == O \subseteq Entry /\ \A e, f \in O : e.lsn = f.lsn => e = f

\* Every operation of B was numbered after all of O.
Later(O, B) == \A e \in O, b \in B : e.lsn < b.lsn

\* Of the operations O and B, which follow them, the last on a file of O is no
\* other than before.
LEMMA LastOfBoth ==
  ASSUME NEW O, NEW B, O \subseteq Entry, B \subseteq Entry, Later(O, B),
         NEW e \in O, LastIn(O \cup B, e)
  PROVE  LastIn(O, e) /\ \A b \in B : b.data.name # e.data.name
<1>1. LastIn(O, e)
  BY DEF LastIn
<1>2. ASSUME NEW b \in B, b.data.name = e.data.name
      PROVE  FALSE
  <2>1. e.lsn \in Nat /\ b.lsn \in Nat /\ e.lsn < b.lsn
    BY DEF Entry, Later
  <2>2. b.lsn <= e.lsn
    BY <1>2 DEF LastIn
  <2> QED BY <2>1, <2>2
<1> QED BY <1>1, <1>2

\* Later operations are flushed and wait to be applied.
LEMMA RestoresMore ==
  ASSUME NEW O, NEW B, O \subseteq Entry, B \subseteq Entry, Later(O, B),
         NEW P, NEW F, Restores(O, P, F)
  PROVE  Restores(O \cup B, P \cup B, F)
<1> SUFFICES ASSUME NEW e \in O, LastIn(O \cup B, e), e \notin P \cup B
             PROVE  /\ F[e.data.name] = Eff(e.data)
                    /\ \A p \in P \cup B : p.data.name = e.data.name => Eff(p.data) = Eff(e.data)
  BY DEF Restores
<1>1. LastIn(O, e) /\ \A b \in B : b.data.name # e.data.name
  BY LastOfBoth
<1> QED BY <1>1 DEF Restores

\* They are not what a header below them covers.
LEMMA CoversMore ==
  ASSUME NEW O, NEW B, O \subseteq Entry, B \subseteq Entry, Later(O, B),
         NEW H \in Int, \A b \in B : H < b.lsn, NEW F, Covers(O, H, F)
  PROVE  Covers(O \cup B, H, F)
<1> SUFFICES ASSUME NEW e \in O \cup B, LastIn(O \cup B, e), e.lsn <= H
             PROVE  F[e.data.name] = Eff(e.data)
  BY DEF Covers
<1>1. e \in O
  BY DEF Entry
<1>2. LastIn(O, e)
  BY <1>1, LastOfBoth
<1> QED BY <1>1, <1>2 DEF Covers

\* What an entry of the log makes of a map.
LEMMA AppliedIs ==
  ASSUME NEW F \in FileMap, NEW r \in Entry
  PROVE  /\ Applied(F, r) \in FileMap /\ r.data.name \in Names
         /\ \A x \in Names : Applied(F, r)[x] = IF x = r.data.name THEN Eff(r.data) ELSE F[x]
<1>1. r.data \in Data
  BY DEF Entry
<1>2. r.data.name \in Names
  BY <1>1, DataFields
<1> QED BY <1>2, AppliedTyped DEF Applied, Added, Eff, FileMap

\* The earliest of the operations that wait is applied.
LEMMA RestoresApplied ==
  ASSUME NEW O, NEW P, NEW Q, NEW F \in FileMap, NEW r \in Entry,
         O \subseteq Entry, P = Q \cup {r}, P \subseteq O,
         \A q \in Q : r.lsn < q.lsn,
         Restores(O, P, F)
  PROVE  Restores(O, Q, Applied(F, r))
<1> DEFINE G == Applied(F, r)
<1>1. \A x \in Names : G[x] = IF x = r.data.name THEN Eff(r.data) ELSE F[x]
  BY AppliedIs
<1>2. \A e \in O : e.data.name \in Names
  BY AppliedIs
<1> HIDE DEF G
<1>3. ASSUME NEW e \in O, LastIn(O, e), e \notin Q
      PROVE  /\ G[e.data.name] = Eff(e.data)
             /\ \A p \in Q : p.data.name = e.data.name => Eff(p.data) = Eff(e.data)
  <2>1. CASE e = r
    <3>1. ASSUME NEW p \in Q, p.data.name = e.data.name
          PROVE  FALSE
      <4>1. p \in O /\ p.lsn \in Nat /\ r.lsn \in Nat /\ r.lsn < p.lsn
        BY DEF Entry
      <4>2. p.lsn <= r.lsn
        BY <1>3, <2>1, <3>1, <4>1 DEF LastIn
      <4> QED BY <4>1, <4>2
    <3> QED BY <1>1, <1>2, <2>1, <3>1
  <2>2. CASE e # r
    <3>1. e \notin P
      BY <1>3, <2>2
    <3>2. /\ F[e.data.name] = Eff(e.data)
          /\ \A p \in P : p.data.name = e.data.name => Eff(p.data) = Eff(e.data)
      BY <1>3, <3>1 DEF Restores
    <3> QED BY <1>1, <1>2, <3>2
  <2> QED BY <2>1, <2>2
<1> QED BY <1>3 DEF Restores, G

\* The last operation on its file is carried out, and with it all that waited
\* there or nothing else was to come of it.
LEMMA RestoresLast ==
  ASSUME NEW O, NEW P, NEW Q, NEW F \in FileMap, NEW r \in O, Numbered(O),
         LastIn(O, r), Q \subseteq P,
         \A p \in P : p \in Q \/ p.data.name = r.data.name,
         \A q \in Q : q.data.name = r.data.name => Eff(q.data) = Eff(r.data),
         Restores(O, P, F)
  PROVE  Restores(O, Q, Applied(F, r))
<1> DEFINE G == Applied(F, r)
<1>1. \A x \in Names : G[x] = IF x = r.data.name THEN Eff(r.data) ELSE F[x]
  BY AppliedIs DEF Numbered
<1>2. \A e \in O : e.data.name \in Names
  BY AppliedIs DEF Numbered
<1> HIDE DEF G
<1>3. ASSUME NEW e \in O, LastIn(O, e), e \notin Q
      PROVE  /\ G[e.data.name] = Eff(e.data)
             /\ \A p \in Q : p.data.name = e.data.name => Eff(p.data) = Eff(e.data)
  <2>1. CASE e.data.name = r.data.name
    <3>1. e.lsn \in Nat /\ r.lsn \in Nat
      BY DEF Entry, Numbered
    <3>2. e.lsn <= r.lsn /\ r.lsn <= e.lsn
      BY <1>3, <2>1 DEF LastIn
    <3>3. e = r
      BY <3>1, <3>2 DEF Numbered
    <3> QED BY <1>1, <1>2, <3>3
  <2>2. CASE e.data.name # r.data.name
    <3>1. e \notin P
      BY <1>3, <2>2
    <3>2. /\ F[e.data.name] = Eff(e.data)
          /\ \A p \in P : p.data.name = e.data.name => Eff(p.data) = Eff(e.data)
      BY <1>3, <3>1 DEF Restores
    <3> QED BY <1>1, <1>2, <2>2, <3>2
  <2> QED BY <2>1, <2>2
<1> QED BY <1>3 DEF Restores, G

\* Every operation has a last one on its file.
LEMMA LastExists ==
  ASSUME NEW O, O \subseteq Entry, NEW b \in Nat, \A e \in O : e.lsn <= b,
         NEW e \in O
  PROVE  \E f \in O : f.data.name = e.data.name /\ LastIn(O, f)
<1> DEFINE T == {f.lsn : f \in {g \in O : g.data.name = e.data.name}}
<1>1. T \in SUBSET Nat /\ (\A x \in T : x <= b) /\ T # {}
  BY DEF Entry
<1>2. PICK x \in T : \A y \in T : y <= x
  BY <1>1, MaxExists
<1>3. PICK f \in O : f.data.name = e.data.name /\ f.lsn = x
  OBVIOUS
<1>4. LastIn(O, f)
  BY <1>2, <1>3 DEF LastIn
<1> QED BY <1>3, <1>4

----------------------------------------------------------------------------
(* The files of the log, as restore reads them *)

RecordsOf(S, T) == UNION {ToSet(S[n].recs) : n \in T}

Reached(S) == RecordsOf(S, Reach(S))

\* The files S hold operations of O only, all of those above the header H can be
\* read, and what can be read of O is a last part of it.
DiskInv(S, O, H) ==
  /\ RecordsOf(S, DOMAIN S) \subseteq O
  /\ \A e \in O : e.lsn > H => e \in Reached(S)
  /\ \A p \in Reached(S), e \in O : p.lsn < e.lsn => e \in Reached(S)

\* With a snapshot that has the rest, they are all there is to know of O.
LEMMA DiskRestores ==
  ASSUME NEW S, NEW O, Numbered(O), NEW H \in Int, NEW F, DiskInv(S, O, H), Covers(O, H, F)
  PROVE  Restores(O, Reached(S), F) /\ Reached(S) \subseteq O
<1>1. Reached(S) \subseteq O
  BY DEF DiskInv, Reached, RecordsOf, Reach
<1> SUFFICES ASSUME NEW e \in O, LastIn(O, e), e \notin Reached(S)
             PROVE  /\ F[e.data.name] = Eff(e.data)
                    /\ \A p \in Reached(S) : p.data.name = e.data.name
                                               => Eff(p.data) = Eff(e.data)
  BY <1>1 DEF Restores
<1>2. e.lsn \in Nat
  BY DEF Numbered, Entry
<1>3. F[e.data.name] = Eff(e.data)
  BY <1>2 DEF DiskInv, Covers
<1>4. ASSUME NEW p \in Reached(S), p.data.name = e.data.name
      PROVE  FALSE
  <2>1. p \in O /\ p.lsn \in Nat
    BY <1>1 DEF Numbered, Entry
  <2>2. p.lsn <= e.lsn
    BY <1>4, <2>1 DEF LastIn
  <2>3. p.lsn # e.lsn
    BY <2>1 DEF Numbered
  <2>4. p.lsn < e.lsn
    BY <1>2, <2>1, <2>2, <2>3
  <2> QED BY <2>4 DEF DiskInv
<1> QED BY <1>3, <1>4

\* A file is reached when no file is missing from there on.
LEMMA ReachFrom ==
  ASSUME NEW S, DOMAIN S \subseteq Nat, NEW l \in DOMAIN S, \A m \in DOMAIN S : m <= l,
         NEW n \in DOMAIN S, n .. l \subseteq DOMAIN S
  PROVE  n \in Reach(S)
<1>1. \A m \in DOMAIN S : n .. m \subseteq n .. l
  OBVIOUS
<1> QED BY <1>1 DEF Reach

\* So the last one is.
LEMMA ReachLast ==
  ASSUME NEW S, DOMAIN S \subseteq Nat, NEW n \in DOMAIN S, \A m \in DOMAIN S : m <= n
  PROVE  n \in Reach(S)
<1>1. \A m \in DOMAIN S : n .. m \subseteq {n}
  OBVIOUS
<1> QED BY <1>1 DEF Reach

\* An empty file behind the last one adds no records.
LEMMA CreateDisk ==
  ASSUME NEW S, DOMAIN S \subseteq Nat, NEW l \in Nat, \A m \in DOMAIN S : m <= l,
         l \in DOMAIN S \/ DOMAIN S = {},
         NEW O, NEW H, DiskInv(S, O, H)
  PROVE  DiskInv(With(S, l + 1, EmptyFile), O, H)
<1> DEFINE T == With(S, l + 1, EmptyFile)
<1>1. /\ DOMAIN T = DOMAIN S \cup {l + 1} /\ \A n \in DOMAIN S : T[n] = S[n]
      /\ ToSet(T[l + 1].recs) = {} /\ l + 1 \notin DOMAIN S
  <2>1. l + 1 \notin DOMAIN S
    OBVIOUS
  <2> QED BY <2>1 DEF With, EmptyFile, ToSet
<1> HIDE DEF T
<1>2. ASSUME NEW n \in DOMAIN S
      PROVE  n \in Reach(T) <=> n \in Reach(S)
  <2>1. ASSUME n \in Reach(T), NEW m \in DOMAIN S, NEW i \in n .. m
        PROVE  i \in DOMAIN S
    <3>1. i \in DOMAIN T /\ i <= l
      BY <1>1, <2>1 DEF Reach
    <3> QED BY <1>1, <3>1
  <2>2. ASSUME n \in Reach(S), NEW m \in DOMAIN T, NEW i \in n .. m
        PROVE  i \in DOMAIN T
    <3>1. l \in DOMAIN S /\ m \in DOMAIN S \cup {l + 1}
      BY <1>1
    <3>2. CASE i <= l
      <4>1. i \in n .. l
        BY <3>2
      <4> QED BY <1>1, <2>2, <3>1, <4>1 DEF Reach
    <3>3. CASE i > l
      BY <1>1, <3>1, <3>3
    <3> QED BY <3>2, <3>3
  <2> QED BY <1>1, <2>1, <2>2 DEF Reach
<1>3. Reached(T) = Reached(S)
  BY <1>1, <1>2 DEF Reached, RecordsOf, Reach
<1>4. RecordsOf(T, DOMAIN T) = RecordsOf(S, DOMAIN S)
  BY <1>1 DEF RecordsOf
<1> QED BY <1>3, <1>4 DEF DiskInv, T

\* The elements of a concatenation.
LEMMA ToSetConcat ==
  ASSUME NEW R, NEW s \in Seq(R), NEW t \in Seq(R)
  PROVE  ToSet(s \o t) = ToSet(s) \cup ToSet(t)
<1>1. /\ DOMAIN (s \o t) = 1 .. (Len(s) + Len(t))
      /\ DOMAIN s = 1 .. Len(s) /\ DOMAIN t = 1 .. Len(t)
      /\ Len(s) \in Nat /\ Len(t) \in Nat
      /\ \A i \in 1 .. Len(s) : (s \o t)[i] = s[i]
      /\ \A i \in 1 .. Len(t) : (s \o t)[Len(s) + i] = t[i]
  BY ConcatProperties
<1>2. \A x \in ToSet(s \o t) : x \in ToSet(s) \cup ToSet(t)
  <2> SUFFICES ASSUME NEW i \in 1 .. (Len(s) + Len(t))
               PROVE  (s \o t)[i] \in ToSet(s) \cup ToSet(t)
    BY <1>1 DEF ToSet
  <2>1. CASE i <= Len(s)
    BY <1>1, <2>1 DEF ToSet
  <2>2. CASE Len(s) < i
    <3>1. i - Len(s) \in 1 .. Len(t) /\ Len(s) + (i - Len(s)) = i
      BY <1>1, <2>2
    <3>2. (s \o t)[i] = t[i - Len(s)]
      BY <1>1, <3>1
    <3> QED BY <1>1, <3>1, <3>2 DEF ToSet
  <2> QED BY <1>1, <2>1, <2>2
<1>3. \A x \in ToSet(s) : x \in ToSet(s \o t)
  <2> SUFFICES ASSUME NEW i \in 1 .. Len(s)
               PROVE  s[i] \in ToSet(s \o t)
    BY <1>1 DEF ToSet
  <2>1. i \in 1 .. (Len(s) + Len(t))
    BY <1>1
  <2> QED BY <1>1, <2>1 DEF ToSet
<1>4. \A x \in ToSet(t) : x \in ToSet(s \o t)
  <2> SUFFICES ASSUME NEW i \in 1 .. Len(t)
               PROVE  t[i] \in ToSet(s \o t)
    BY <1>1 DEF ToSet
  <2>1. Len(s) + i \in 1 .. (Len(s) + Len(t))
    BY <1>1
  <2> QED BY <1>1, <2>1 DEF ToSet
<1> QED BY <1>2, <1>3, <1>4

\* A flush adds its records to what can be read.
LEMMA FlushDisk ==
  ASSUME NEW S, NEW L, IsDirectory(S), L.buf \in Seq(Entry), L.last \in Reach(S),
         NEW O, Later(O, ToSet(L.buf)), Numbered(O), NEW H, DiskInv(S, O, H)
  PROVE  DiskInv(FlushTo(S, L), O \cup ToSet(L.buf), H)
<1> DEFINE l == L.last
           B == ToSet(L.buf)
           T == FlushTo(S, L)
<1>1. l \in DOMAIN S
  BY DEF Reach
<1>2. S[l].recs \in Seq(Entry)
  BY <1>1 DEF IsDirectory, SegmentFile
<1>3. /\ DOMAIN T = DOMAIN S /\ \A n \in DOMAIN S : n # l => T[n] = S[n]
      /\ T[l].recs = S[l].recs \o L.buf
  BY <1>1 DEF FlushTo, With
<1>4. ToSet(T[l].recs) = ToSet(S[l].recs) \cup B
  BY <1>2, <1>3, ToSetConcat
<1>5. Reach(T) = Reach(S)
  BY <1>3 DEF Reach
<1>6. B \subseteq Entry
  BY DEF ToSet
<1> HIDE DEF T, B
<1>7. ASSUME NEW X \in SUBSET DOMAIN S, l \in X
      PROVE  RecordsOf(T, X) = RecordsOf(S, X) \cup B
  <2>1. \A r \in RecordsOf(T, X) : r \in RecordsOf(S, X) \cup B
    <3> TAKE r \in RecordsOf(T, X)
    <3>1. PICK n \in X : r \in ToSet(T[n].recs)
      BY DEF RecordsOf
    <3>2. r \in ToSet(S[n].recs) \/ r \in B
      BY <1>3, <1>4, <3>1
    <3> QED BY <3>2 DEF RecordsOf
  <2>2. \A r \in RecordsOf(S, X) : r \in RecordsOf(T, X)
    BY <1>3, <1>4 DEF RecordsOf
  <2>3. \A r \in B : r \in RecordsOf(T, X)
    BY <1>4, <1>7 DEF RecordsOf
  <2> QED BY <2>1, <2>2, <2>3
<1>8. Reached(T) = Reached(S) \cup B /\ RecordsOf(T, DOMAIN T) = RecordsOf(S, DOMAIN S) \cup B
  BY <1>1, <1>3, <1>5, <1>7 DEF Reached, Reach
<1>9. ASSUME NEW p \in Reached(S) \cup B, NEW e \in O \cup B, p.lsn < e.lsn
      PROVE  e \in Reached(S) \cup B
  <2>1. CASE p \in B /\ e \in O
    <3>1. p.lsn \in Nat /\ e.lsn \in Nat /\ e.lsn < p.lsn
      BY <1>6, <2>1 DEF Numbered, Entry, Later, B
    <3> QED BY <1>9, <3>1
  <2>2. CASE p \in Reached(S) /\ e \in O
    BY <1>9, <2>2 DEF DiskInv
  <2> QED BY <2>1, <2>2
<1> QED BY <1>8, <1>9 DEF DiskInv, T, B

\* The number that removeLogFile finds is above all in the file and before it.
LEMMA FoundIsHighest ==
  ASSUME NEW S, IsDirectory(S), OrderedDirectory(S), NEW n \in Nat \ {0}, ~ RemoveFails(S, n)
  PROVE  /\ findLastSequenceNumberInLogFile(S, n) \in Nat
         /\ \A k \in DOMAIN S : k <= n =>
              \A x \in Lsns(S[k].recs) : x <= findLastSequenceNumberInLogFile(S, n)
<1> DEFINE j == Max(WalkStops(S, n))
           q == findLastSequenceNumberInLogFile(S, n)
<1>1. j \in WalkStops(S, n) /\ \A i \in WalkStops(S, n) : i <= j
  BY WalkStopsMax
<1>2. /\ j \in 0 .. n /\ (j = 0 \/ j \notin DOMAIN S \/ S[j].recs # << >>)
      /\ \A i \in 0 .. n : i = 0 \/ i \notin DOMAIN S \/ S[i].recs # << >> => i <= j
  BY <1>1 DEF WalkStops
<1>3. q = IF j = 0 THEN 0 ELSE IF j \notin DOMAIN S THEN NoFile ELSE S[j].recs[Len(S[j].recs)].lsn
  BY DEF findLastSequenceNumberInLogFile
<1>4. q # NoFile
  BY DEF RemoveFails
<1> HIDE DEF j, q
<1>5. \A k \in DOMAIN S : k \in Nat \ {0} /\ S[k].recs \in Seq(Entry) /\ Ordered(S[k].recs)
  BY DEF IsDirectory, SegmentFile, OrderedDirectory
<1>6. \A k \in DOMAIN S : j < k /\ k <= n => S[k].recs = << >>
  BY <1>2, <1>5
<1>7. Lsns(<< >>) = {}
  BY DEF Lsns
<1>8. CASE j = 0
  BY <1>3, <1>5, <1>6, <1>7, <1>8 DEF q
<1>9. CASE j # 0
  <2>1. j \in DOMAIN S /\ S[j].recs # << >> /\ q = S[j].recs[Len(S[j].recs)].lsn
    BY <1>2, <1>3, <1>4, <1>9
  <2>2. q \in Lsns(S[j].recs) /\ \A x \in Lsns(S[j].recs) : x <= q
    BY <1>5, <2>1, LastIsHighest
  <2>3. \A k \in DOMAIN S : Lsns(S[k].recs) \subseteq Nat
    BY <1>5, LsnsType
  <2>4. ASSUME NEW k \in DOMAIN S, k <= n, NEW x \in Lsns(S[k].recs)
        PROVE  x <= q
    <3>1. ~ (j < k)
      BY <1>6, <1>7, <2>4
    <3>2. k \in Nat /\ j \in Nat
      BY <1>5, <2>1
    <3>3. CASE k < j
      <4>1. x < q
        BY <2>1, <2>2, <2>4, <3>3 DEF OrderedDirectory
      <4>2. x \in Nat /\ q \in Nat
        BY <2>1, <2>2, <2>3, <2>4
      <4> QED BY <4>1, <4>2
    <3>4. CASE k = j
      BY <2>2, <2>4, <3>4
    <3> QED BY <3>1, <3>2, <3>3, <3>4
  <2> QED BY <2>1, <2>2, <2>3, <2>4 DEF q
<1> QED BY <1>8, <1>9

\* The number a file is compared with when it is to be removed.
Published(O, ls, H) == ls <= H \/ (ls = 0 /\ \A e \in O : e.lsn # 0)

\* A file that is not the last and has no record above the header is removed.
LEMMA RemoveDisk ==
  ASSUME NEW S, IsDirectory(S), OrderedDirectory(S), NEW n \in Nat \ {0}, ~ RemoveFails(S, n),
         NEW m \in DOMAIN S, n < m,
         NEW O, Numbered(O), NEW H \in Int, NEW ls \in Nat, Published(O, ls, H), DiskInv(S, O, H)
  PROVE  DiskInv(removeLogFile(S, n, ls), O, H)
<1> DEFINE q == findLastSequenceNumberInLogFile(S, n)
           T == Without(S, n)
<1>1. CASE q > ls
  BY <1>1 DEF removeLogFile
<1>2. CASE ~ (q > ls)
  <2>1. q \in Nat /\ \A k \in DOMAIN S : k <= n => \A x \in Lsns(S[k].recs) : x <= q
    BY FoundIsHighest
  <2> HIDE DEF q
  <2>2. DOMAIN S \subseteq Nat /\ n \in DOMAIN S
    BY RemovableExists DEF IsDirectory
  <2>3. DOMAIN T = DOMAIN S \ {n} /\ \A k \in DOMAIN T : T[k] = S[k]
    BY DEF Without
  <2> HIDE DEF T
  <2>4. ASSUME NEW k \in DOMAIN S, k <= n, NEW e \in ToSet(S[k].recs)
        PROVE  e \in O /\ e.lsn \in Nat /\ e.lsn <= H
    <3>1. e \in O
      BY <2>4 DEF DiskInv, RecordsOf
    <3>2. e.lsn \in Lsns(S[k].recs) /\ e.lsn \in Nat
      BY <2>4, <3>1 DEF ToSet, Lsns, Numbered, Entry
    <3>3. e.lsn <= q
      BY <2>1, <2>4, <3>2
    <3>4. e.lsn <= ls
      BY <1>2, <2>1, <3>2, <3>3
    <3>5. ls <= H
      <4>1. e.lsn # 0 => ls # 0
        BY <3>2, <3>4
      <4> QED BY <3>1, <4>1 DEF Published
    <3> QED BY <3>1, <3>2, <3>4, <3>5
  <2>5. ASSUME NEW k \in Reach(T)
        PROVE  k \in Reach(S) /\ n < k
    <3>1. k \in DOMAIN T /\ k \in DOMAIN S /\ k # n /\ k \in Nat
      BY <2>2, <2>3 DEF Reach
    <3>2. m \in DOMAIN T
      BY <2>2, <2>3
    <3>3. k .. m \subseteq DOMAIN T
      BY <3>2 DEF Reach
    <3>4. n < k
      BY <2>2, <2>3, <3>1, <3>3
    <3>5. \A x \in DOMAIN S : k .. x \subseteq DOMAIN S
      <4> SUFFICES ASSUME NEW x \in DOMAIN S, NEW y \in k .. x
                   PROVE  y \in DOMAIN S
        OBVIOUS
      <4>1. x \in DOMAIN T
        BY <2>2, <2>3, <3>1, <3>4
      <4> QED BY <2>3, <4>1 DEF Reach
    <3> QED BY <3>1, <3>4, <3>5 DEF Reach
  <2>6. ASSUME NEW k \in Reach(S), n < k
        PROVE  k \in Reach(T)
    <3>1. k \in DOMAIN S /\ k \in Nat
      BY <2>2 DEF Reach
    <3>2. k \in DOMAIN T
      BY <2>2, <2>3, <2>6, <3>1
    <3>3. \A x \in DOMAIN T : k .. x \subseteq DOMAIN T
      BY <2>2, <2>3, <2>6, <3>1 DEF Reach
    <3> QED BY <3>2, <3>3 DEF Reach
  <2>7. RecordsOf(T, DOMAIN T) \subseteq O
    BY <2>3 DEF RecordsOf, DiskInv
  <2>8. ASSUME NEW e \in Reached(S), e.lsn > H
        PROVE  e \in Reached(T)
    <3>1. PICK k \in Reach(S) : e \in ToSet(S[k].recs)
      BY DEF Reached, RecordsOf
    <3>2. k \in DOMAIN S /\ k \in Nat
      BY <2>2 DEF Reach
    <3>3. n < k
      BY <2>2, <2>4, <2>8, <3>1, <3>2
    <3> QED BY <2>3, <2>6, <3>1, <3>3 DEF Reached, RecordsOf, Reach
  <2>9. ASSUME NEW p \in Reached(T), NEW e \in O, p.lsn < e.lsn
        PROVE  e \in Reached(T)
    <3>1. PICK k \in Reach(T) : p \in ToSet(T[k].recs)
      BY DEF Reached, RecordsOf
    <3>2. k \in Reach(S) /\ n < k /\ k \in DOMAIN S /\ T[k] = S[k]
      BY <2>3, <2>5 DEF Reach
    <3>3. p \in Reached(S)
      BY <3>1, <3>2 DEF Reached, RecordsOf
    <3>4. e \in Reached(S)
      BY <2>9, <3>3 DEF DiskInv
    <3>5. PICK i \in Reach(S) : e \in ToSet(S[i].recs)
      BY <3>4 DEF Reached, RecordsOf
    <3>6. i \in DOMAIN S /\ i \in Nat /\ k \in Nat
      BY <2>2, <3>2 DEF Reach
    <3>7. p.lsn \in Lsns(S[k].recs) /\ e.lsn \in Lsns(S[i].recs)
      BY <3>1, <3>2, <3>5 DEF ToSet, Lsns
    <3>8. p.lsn \in Nat /\ e.lsn \in Nat
      <4>1. p \in O
        BY <3>3 DEF DiskInv, Reached, RecordsOf, Reach
      <4> QED BY <4>1 DEF Numbered, Entry
    <3>9. ~ (i < k)
      <4>1. i < k => e.lsn < p.lsn
        BY <3>2, <3>6, <3>7 DEF OrderedDirectory
      <4> QED BY <2>9, <3>8, <4>1
    <3>10. n < i
      BY <3>2, <3>6, <3>9
    <3> QED BY <2>3, <2>6, <3>5, <3>10 DEF Reached, RecordsOf, Reach
  <2>10. DiskInv(T, O, H)
    BY <2>7, <2>8, <2>9 DEF DiskInv
  <2>11. removeLogFile(S, n, ls) = T
    BY <1>2 DEF removeLogFile, T, q
  <2> QED BY <2>10, <2>11
<1> QED BY <1>1, <1>2

\* The buffered records come after all that was acknowledged.
LEMMA BufferLater ==
  ASSUME NEW S, NEW b \in Seq(Entry), NEW A, NEW cov, DirInv(S, Lsns(b), A, cov),
         NEW O, \A e \in O : e.lsn \in A
  PROVE  Later(O, ToSet(b))
<1>1. ASSUME NEW e \in O, NEW r \in ToSet(b)
      PROVE  e.lsn < r.lsn
  <2>1. r.lsn \in Lsns(b) /\ e.lsn \in A
    BY DEF ToSet, Lsns
  <2> QED BY <2>1 DEF DirInv, Gone
<1> QED BY <1>1 DEF Later

\* A rollover removes, creates and flushes.
LEMMA RollDisk ==
  ASSUME NEW L, NEW A \in SUBSET Nat, NEW cov \in Nat, LogInv(L, A, cov),
         NEW ls \in Nat, ls <= cov, MaxSegments # 1, ~ RollFails(L),
         NEW O, Numbered(O), \A e \in O : e.lsn \in A,
         NEW H \in Int, Published(O, ls, H), DiskInv(L.segs, O, H)
  PROVE  /\ DiskInv(RollRemoved(L, ls), O, H)
         /\ DiskInv(RollCreated(L, ls), O, H)
         /\ DiskInv(addNewLogFile(L, ls).segs, O \cup ToSet(L.buf), H)
<1> DEFINE R == RollRemoved(L, ls)
           C == RollCreated(L, ls)
<1>1. /\ IsLog(L) /\ L.last \in DOMAIN L.segs /\ \A n \in DOMAIN L.segs : n <= L.last
      /\ DirInv(L.segs, Lsns(L.buf), A, cov)
  BY DEF LogInv
<1>2. /\ IsDirectory(L.segs) /\ OrderedDirectory(L.segs) /\ L.buf \in Seq(Entry) /\ L.last \in Nat
  BY <1>1 DEF IsLog, DirInv
<1>3. /\ L.last \in DOMAIN R /\ (\A n \in DOMAIN R : n <= L.last) /\ DirInv(R, Lsns(L.buf), A, cov)
      /\ DOMAIN C = DOMAIN R \cup {L.last + 1} /\ DirInv(C, Lsns(L.buf), A, cov)
  BY RollStagesKeep
<1>4. DiskInv(R, O, H)
  <2>1. CASE Full(L.segs)
    <3>1. removeLastLogFile(L.last) \in Nat \ {0} /\ removeLastLogFile(L.last) < L.last
      BY <1>1, <2>1, RemovesOlder
    <3>2. ~ RemoveFails(L.segs, removeLastLogFile(L.last))
      BY <2>1 DEF RollFails
    <3>3. R = removeLogFile(L.segs, removeLastLogFile(L.last), ls)
      BY <2>1 DEF RollRemoved
    <3> QED BY <1>1, <1>2, <3>1, <3>2, <3>3, RemoveDisk
  <2>2. CASE ~ Full(L.segs)
    BY <2>2 DEF RollRemoved
  <2> QED BY <2>1, <2>2
<1>5. C = With(R, L.last + 1, EmptyFile)
  BY DEF RollCreated
<1>6. addNewLogFile(L, ls).segs = FlushTo(C, L)
  BY DEF addNewLogFile
<1> HIDE DEF R, C
<1>7. DOMAIN R \subseteq Nat /\ DOMAIN C \subseteq Nat /\ IsDirectory(C)
  BY <1>3 DEF DirInv, IsDirectory
<1>8. DiskInv(C, O, H)
  BY <1>2, <1>3, <1>4, <1>5, <1>7, CreateDisk
<1>9. L.last \in Reach(C)
  <2>1. L.last + 1 \in DOMAIN C /\ L.last \in DOMAIN C /\ \A m \in DOMAIN C : m <= L.last + 1
    BY <1>2, <1>3, <1>7
  <2>2. L.last .. (L.last + 1) \subseteq DOMAIN C
    BY <1>2, <2>1
  <2> QED BY <1>7, <2>1, <2>2, ReachFrom
<1>10. Later(O, ToSet(L.buf))
  BY <1>1, <1>2, BufferLater
<1>11. DiskInv(FlushTo(C, L), O \cup ToSet(L.buf), H)
  BY <1>2, <1>7, <1>8, <1>9, <1>10, FlushDisk
<1> QED BY <1>4, <1>6, <1>8, <1>11 DEF R, C

\* What has been flushed once a log that was L is M.
Taken(L, O, rolled) == IF rolled THEN O \cup ToSet(L.buf) ELSE O

\* The rollovers of an append.
LEMMA AppendDisk ==
  ASSUME NEW L, NEW A \in SUBSET Nat, NEW cov \in Nat, LogInv(L, A, cov),
         NEW ls \in Nat, ls <= cov, MaxSegments # 1, ~ (RollsFirst(L) /\ RollFails(L)),
         NEW O, Numbered(O), Numbered(O \cup ToSet(L.buf)), \A e \in O : e.lsn \in A,
         NEW H \in Int, Published(O \cup ToSet(L.buf), ls, H), DiskInv(L.segs, O, H),
         NEW d \in Data
  PROVE  /\ DiskInv(AfterFirst(L, ls).segs, Taken(L, O, RollsFirst(L)), H)
         /\ RollsFirst(L) => /\ DiskInv(RollRemoved(L, ls), O, H)
                             /\ DiskInv(RollCreated(L, ls), O, H)
         /\ RollsSecond(L, d) /\ ~ RollFails(AfterFirst(L, ls)) =>
              /\ DiskInv(RollRemoved(AfterFirst(L, ls), ls), Taken(L, O, RollsFirst(L)), H)
              /\ DiskInv(RollCreated(AfterFirst(L, ls), ls), Taken(L, O, RollsFirst(L)), H)
              /\ DiskInv(AfterSecond(L, d, ls).segs, O \cup ToSet(L.buf), H)
         /\ ~ RollsSecond(L, d) => DiskInv(AfterSecond(L, d, ls).segs, O, H)
<1> DEFINE M == AfterFirst(L, ls)
           P == Taken(L, O, RollsFirst(L))
           A2 == IF RollsFirst(L) THEN A \cup Lsns(L.buf) ELSE A
<1>1. Published(O, ls, H)
  BY DEF Published
<1>2. L.buf \in Seq(Entry) /\ Lsns(L.buf) \subseteq Nat /\ L.size \in Nat
  <2>1. L.buf \in Seq(Entry) /\ L.size \in Nat
    BY DEF LogInv, IsLog
  <2> QED BY <2>1, LsnsType
<1>3. A2 \in SUBSET Nat /\ A2 \in SUBSET (A \cup Lsns(L.buf)) /\ (~ RollsFirst(L) => A2 \subseteq A)
  BY <1>2
<1>4. /\ LogInv(M, A2, cov)
      /\ RollsFirst(L) => M.buf = << >>
      /\ ~ RollsFirst(L) => M = L
  BY <1>3, AfterFirstKeeps
<1>5. RollsFirst(L) => /\ DiskInv(RollRemoved(L, ls), O, H) /\ DiskInv(RollCreated(L, ls), O, H)
                       /\ DiskInv(M.segs, O \cup ToSet(L.buf), H)
  <2> SUFFICES ASSUME RollsFirst(L)
               PROVE  /\ DiskInv(RollRemoved(L, ls), O, H) /\ DiskInv(RollCreated(L, ls), O, H)
                      /\ DiskInv(M.segs, O \cup ToSet(L.buf), H)
    OBVIOUS
  <2>1. M = addNewLogFile(L, ls)
    BY DEF AfterFirst
  <2> HIDE DEF M
  <2> QED BY <1>1, <2>1, RollDisk
<1>6. DiskInv(M.segs, P, H)
  BY <1>4, <1>5 DEF Taken
<1>7. Numbered(P) /\ Published(P, ls, H) /\ \A e \in P : e.lsn \in A2
  <2>1. \A e \in ToSet(L.buf) : e.lsn \in Lsns(L.buf)
    BY DEF ToSet, Lsns
  <2> QED BY <1>1, <2>1 DEF Taken
<1>8. P \cup ToSet(M.buf) = O \cup ToSet(L.buf)
  <2>1. ToSet(<< >>) = {}
    BY DEF ToSet
  <2> QED BY <1>4, <2>1 DEF Taken
<1>9. ASSUME RollsSecond(L, d), ~ RollFails(M)
      PROVE  /\ DiskInv(RollRemoved(M, ls), P, H)
             /\ DiskInv(RollCreated(M, ls), P, H)
             /\ DiskInv(AfterSecond(L, d, ls).segs, O \cup ToSet(L.buf), H)
  <2>1. AfterSecond(L, d, ls) = addNewLogFile(M, ls)
    BY <1>9 DEF AfterSecond
  <2> HIDE DEF M, P, A2
  <2>2. /\ DiskInv(RollRemoved(M, ls), P, H)
        /\ DiskInv(RollCreated(M, ls), P, H)
        /\ DiskInv(addNewLogFile(M, ls).segs, P \cup ToSet(M.buf), H)
    BY <1>3, <1>4, <1>6, <1>7, <1>9, RollDisk
  <2> QED BY <1>8, <2>1, <2>2
<1>10. ASSUME ~ RollsSecond(L, d)
       PROVE  DiskInv(AfterSecond(L, d, ls).segs, O, H)
  <2>1. ~ RollsFirst(L)
    <3>1. Size[d] \in Nat /\ MaxSegmentSize \in Nat
      BY SizeAssumption, MaxSegmentSizeAssumption
    <3> QED BY <1>2, <1>10, <3>1 DEF RollsFirst, RollsSecond
  <2> QED BY <1>4, <1>10, <2>1 DEF AfterSecond
<1> QED BY <1>5, <1>6, <1>9, <1>10

----------------------------------------------------------------------------
(* What is read of the log *)

\* Records that are read file after file, each numbered on from the one before.
LEMMA FlatRead ==
  ASSUME NEW n \in Nat \ {0}, NEW s \in [1 .. n -> Seq(Entry)],
         \A i \in 1 .. n : Ordered(s[i]),
         \A i, j \in 1 .. n : i < j => \A a \in Lsns(s[i]), b \in Lsns(s[j]) : a < b
  PROVE  /\ ToSet(FlattenSeq(s)) = UNION {ToSet(s[i]) : i \in 1 .. n}
         /\ Ordered(FlattenSeq(s))
<1>1. Len(s) = n /\ DOMAIN s = 1 .. n
  OBVIOUS
<1>2. PICK f : /\ f[1] = s[1]
               /\ \A k \in 2 .. n : f[k] = f[k - 1] \o s[k]
               /\ f[n] = FlattenSeq(s)
  BY <1>1, FlatInSteps
<1> DEFINE Good(k) == /\ f[k] \in Seq(Entry)
                      /\ ToSet(f[k]) = UNION {ToSet(s[i]) : i \in 1 .. k}
                      /\ Ordered(f[k])
           T == {k \in 1 .. n : ~ Good(k)}
<1>3. Good(1)
  <2>1. f[1] = s[1] /\ s[1] \in Seq(Entry) /\ Ordered(s[1]) /\ 1 .. 1 = {1}
    BY <1>2
  <2> QED BY <2>1
<1>4. ASSUME NEW k \in 2 .. n, Good(k - 1)
      PROVE  Good(k)
  <2> DEFINE a == f[k - 1]
             b == s[k]
  <2>0. k \in 1 .. n
    OBVIOUS
  <2>1. a \in Seq(Entry) /\ b \in Seq(Entry) /\ f[k] = a \o b /\ Ordered(a) /\ Ordered(b)
    BY <1>2, <1>4, <2>0, Zenon
  <2>2. ToSet(a) = UNION {ToSet(s[i]) : i \in 1 .. (k - 1)}
    BY <1>4
  <2>3. \A x \in Lsns(a), y \in Lsns(b) : x < y
    <3> TAKE x \in Lsns(a), y \in Lsns(b)
    <3>1. PICK r \in ToSet(a) : r.lsn = x
      BY DEF Lsns, ToSet
    <3>2. PICK i \in 1 .. (k - 1) : r \in ToSet(s[i])
      BY <2>2
    <3>3. x \in Lsns(s[i])
      BY <3>1, <3>2 DEF Lsns, ToSet
    <3>4. i \in 1 .. n /\ k \in 1 .. n /\ i < k
      OBVIOUS
    <3> QED BY <3>3, <3>4
  <2> HIDE DEF a, b
  <2>4. a \o b \in Seq(Entry) /\ Ordered(a \o b)
    BY <2>1, <2>3, OrderedConcat, ConcatProperties
  <2>5. ToSet(a \o b) = ToSet(a) \cup ToSet(b)
    BY <2>1, ToSetConcat
  <2>6. ToSet(f[k]) = UNION {ToSet(s[i]) : i \in 1 .. k}
    <3>1. 1 .. k = 1 .. (k - 1) \cup {k}
      OBVIOUS
    <3>2. ToSet(f[k]) = (UNION {ToSet(s[i]) : i \in 1 .. (k - 1)}) \cup ToSet(s[k])
      BY <2>1, <2>2, <2>5 DEF b
    <3> QED BY <3>1, <3>2
  <2> QED BY <2>1, <2>4, <2>6
<1>5. T = {}
  <2> SUFFICES ASSUME T # {} PROVE FALSE
    OBVIOUS
  <2>1. T \in SUBSET Nat
    OBVIOUS
  <2>2. PICK k \in T : \A y \in T : k <= y
    BY <2>1, LeastExists, Zenon
  <2>3. k \in 1 .. n /\ ~ Good(k)
    OBVIOUS
  <2> HIDE DEF Good
  <2>4. k \in 2 .. n
    BY <1>3, <2>3
  <2>5. k - 1 \in 1 .. n /\ ~ (k <= k - 1)
    BY <2>4
  <2>6. Good(k - 1)
    BY <2>2, <2>5
  <2> QED BY <1>4, <2>3, <2>4, <2>6
<1>6. n \in 1 .. n
  OBVIOUS
<1>7. Good(n)
  BY <1>5, <1>6
<1> QED BY <1>2, <1>7

\* Consecutive files are read in the order in which they were written.
LEMMA EntriesRead ==
  ASSUME NEW S, IsDirectory(S), OrderedDirectory(S), NEW start \in Nat, NEW last \in Nat,
         start <= last, start .. last \subseteq DOMAIN S
  PROVE  /\ EntriesOf(S, start, last - start + 1) \in Seq(Entry)
         /\ ToSet(EntriesOf(S, start, last - start + 1)) = RecordsOf(S, start .. last)
         /\ Ordered(EntriesOf(S, start, last - start + 1))
<1> DEFINE n == last - start + 1
           s == [i \in 1 .. n |-> S[start + i - 1].recs]
<1>1. n \in Nat \ {0}
  OBVIOUS
<1>2. \A i \in 1 .. n : start + i - 1 \in start .. last
  OBVIOUS
<1>3. \A m \in start .. last : m - start + 1 \in 1 .. n /\ start + (m - start + 1) - 1 = m
  OBVIOUS
<1> HIDE DEF n
<1>4. \A m \in start .. last : S[m].recs \in Seq(Entry) /\ Ordered(S[m].recs)
  BY DEF IsDirectory, SegmentFile, OrderedDirectory
<1>5. s \in [1 .. n -> Seq(Entry)]
  BY <1>2, <1>4
<1>6. \A i \in 1 .. n : Ordered(s[i])
  BY <1>2, <1>4
<1>7. \A i, j \in 1 .. n : i < j => \A a \in Lsns(s[i]), b \in Lsns(s[j]) : a < b
  <2> SUFFICES ASSUME NEW i \in 1 .. n, NEW j \in 1 .. n, i < j
               PROVE  \A a \in Lsns(s[i]), b \in Lsns(s[j]) : a < b
    OBVIOUS
  <2>1. start + i - 1 < start + j - 1
    BY <1>1
  <2>2. start + i - 1 \in DOMAIN S /\ start + j - 1 \in DOMAIN S
    BY <1>2
  <2> QED BY <2>1, <2>2 DEF OrderedDirectory
<1>8. EntriesOf(S, start, n) = FlattenSeq(s)
  BY DEF EntriesOf
<1>9. UNION {ToSet(s[i]) : i \in 1 .. n} = RecordsOf(S, start .. last)
  <2>1. \A i \in 1 .. n : s[i] = S[start + i - 1].recs
    OBVIOUS
  <2> HIDE DEF s
  <2>2. \A x \in UNION {ToSet(s[i]) : i \in 1 .. n} : x \in RecordsOf(S, start .. last)
    BY <1>2, <2>1 DEF RecordsOf
  <2>3. \A x \in RecordsOf(S, start .. last) : x \in UNION {ToSet(s[i]) : i \in 1 .. n}
    <3> TAKE x \in RecordsOf(S, start .. last)
    <3>1. PICK m \in start .. last : x \in ToSet(S[m].recs)
      BY DEF RecordsOf
    <3>2. PICK i \in 1 .. n : start + i - 1 = m
      BY <1>3
    <3>3. x \in ToSet(s[i])
      BY <2>1, <3>1, <3>2
    <3> QED BY <3>3
  <2> QED BY <2>2, <2>3
<1> HIDE DEF s
<1>10. ToSet(FlattenSeq(s)) = RecordsOf(S, start .. last) /\ Ordered(FlattenSeq(s))
  BY <1>1, <1>5, <1>6, <1>7, <1>9, FlatRead
<1>11. FlattenSeq(s) \in Seq(Entry)
  BY <1>1, <1>5, FlatTyped
<1> QED BY <1>8, <1>10, <1>11 DEF n

\* The files that no gap separates from the last one follow each other.
LEMMA ReachRange ==
  ASSUME NEW S, DOMAIN S \subseteq Nat, NEW l \in DOMAIN S, \A m \in DOMAIN S : m <= l
  PROVE  /\ Min(Reach(S)) \in Nat /\ Min(Reach(S)) <= l
         /\ Reach(S) = Min(Reach(S)) .. l
         /\ Cardinality(Reach(S)) = l - Min(Reach(S)) + 1
<1>1. Reach(S) \in SUBSET Nat /\ l \in Reach(S)
  BY ReachLast DEF Reach
<1>2. PICK k \in Reach(S) : \A y \in Reach(S) : k <= y
  BY <1>1, LeastExists
<1>3. k \in Nat /\ k \in DOMAIN S /\ l \in Nat /\ k <= l
  BY <1>1, <1>2 DEF Reach
<1>4. Min(Reach(S)) = k
  <2>1. \A x \in Reach(S) : (\A y \in Reach(S) : x <= y) => x <= k /\ k <= x /\ x \in Nat
    BY <1>1, <1>2
  <2>2. \A x \in Reach(S) : (\A y \in Reach(S) : x <= y) => x = k
    BY <1>3, <2>1
  <2> QED BY <1>2, <2>2 DEF Min
<1>5. k .. l \subseteq DOMAIN S
  BY <1>2 DEF Reach
<1>6. \A i \in k .. l : i \in Reach(S)
  <2> TAKE i \in k .. l
  <2>1. i \in DOMAIN S /\ i .. l \subseteq DOMAIN S
    BY <1>3, <1>5
  <2> QED BY <2>1, ReachFrom
<1>7. \A i \in Reach(S) : i \in k .. l
  BY <1>1, <1>2, <1>3 DEF Reach
<1>8. Reach(S) = k .. l
  BY <1>6, <1>7
<1>9. Cardinality(k .. l) = l - k + 1
  BY <1>3, FS_Interval
<1> QED BY <1>3, <1>4, <1>8, <1>9

\* They are read in the order in which they were numbered.
LEMMA ReachRead ==
  ASSUME NEW S, IsDirectory(S), OrderedDirectory(S), NEW l \in DOMAIN S, \A m \in DOMAIN S : m <= l
  PROVE  /\ ReachEntries(S) \in Seq(Entry)
         /\ ToSet(ReachEntries(S)) = Reached(S)
         /\ Ordered(ReachEntries(S))
<1>1. DOMAIN S \subseteq Nat
  BY DEF IsDirectory
<1>2. /\ Min(Reach(S)) \in Nat /\ Min(Reach(S)) <= l /\ l \in Nat
      /\ Reach(S) = Min(Reach(S)) .. l
      /\ Cardinality(Reach(S)) = l - Min(Reach(S)) + 1
  BY <1>1, ReachRange
<1>3. Min(Reach(S)) .. l \subseteq DOMAIN S
  BY <1>2 DEF Reach
<1> QED BY <1>2, <1>3, EntriesRead DEF ReachEntries, Reached

\* Where no file is missing, restore reads all of them.
LEMMA AllRead ==
  ASSUME NEW S, IsDirectory(S), Readable(S), NEW l \in DOMAIN S, \A m \in DOMAIN S : m <= l
  PROVE  AllEntries(S) = ReachEntries(S)
<1> DEFINE n == countLogFiles(S)
<1>1. findLastSegmentNumber(S) = l /\ l \in Nat \ {0} /\ n \in Nat
  BY LastFile
<1>2. DOMAIN S = (l - n + 1) .. l
  BY <1>1 DEF Readable
<1>3. DOMAIN S \subseteq Nat
  BY DEF IsDirectory
<1>4. Reach(S) = DOMAIN S
  <2>1. \A m, k \in DOMAIN S : m .. k \subseteq DOMAIN S
    BY <1>1, <1>2
  <2> QED BY <2>1 DEF Reach
<1>5. /\ Min(Reach(S)) \in Nat /\ Min(Reach(S)) <= l
      /\ Reach(S) = Min(Reach(S)) .. l
      /\ Cardinality(Reach(S)) = l - Min(Reach(S)) + 1
  BY <1>3, ReachRange
<1>6. n = l - Min(Reach(S)) + 1
  BY <1>4, <1>5 DEF countLogFiles
<1>7. Min(Reach(S)) = l - n + 1
  BY <1>1, <1>5, <1>6
<1> QED BY <1>1, <1>4, <1>7 DEF AllEntries, ReachEntries, countLogFiles

----------------------------------------------------------------------------
(* Snapshot files *)

\* Restore finds a file when a cell is of it, and what all its cells say.
LEMMA RestoredEach ==
  ASSUME NEW s \in Seq(Cell), NEW x \in Names, NEW v,
         \A j \in 1 .. Len(s) : s[j].name = x => s[j].meta = v
  PROVE  RestoreFrom(s)[x] = IF \E j \in 1 .. Len(s) : s[j].name = x THEN v ELSE None
<1> DEFINE n == Len(s)
           Shown(k) == IF \E j \in 1 .. k : s[j].name = x THEN v ELSE None
<1>1. n \in Nat /\ DOMAIN s = 1 .. n /\ \A k \in 1 .. n : s[k] \in Cell
  OBVIOUS
<1>2. \A j \in 1 .. n : s[j].name = x => s[j].meta = v
  OBVIOUS
<1> HIDE DEF n
<1>3. PICK g : AddSteps(g, n, NoFiles, s)
  BY <1>1, AddsInSteps, Zenon
<1> DEFINE T == {k \in 0 .. n : ~ (g[k] \in FileMap /\ g[k][x] = Shown(k))}
<1>4. T = {}
  <2> SUFFICES ASSUME T # {} PROVE FALSE
    OBVIOUS
  <2>1. T \in SUBSET Nat
    BY <1>1
  <2>2. PICK k \in T : \A y \in T : k <= y
    BY <2>1, LeastExists, Zenon
  <2>3. k \in 0 .. n /\ ~ (g[k] \in FileMap /\ g[k][x] = Shown(k))
    OBVIOUS
  <2>4. k # 0
    <3>1. ~ \E j \in 1 .. 0 : s[j].name = x
      OBVIOUS
    <3> QED BY <1>3, <2>3, <3>1 DEF NoFiles, FileMap, AddSteps
  <2>5. k \in 1 .. n /\ k - 1 \in 0 .. n /\ ~ (k <= k - 1)
    BY <1>1, <2>3, <2>4
  <2>6. g[k - 1] \in FileMap /\ g[k - 1][x] = Shown(k - 1)
    BY <2>2, <2>5
  <2>7. s[k].name \in Names /\ s[k].meta \in Metas
    BY <1>1, <2>5 DEF Cell
  <2>8. g[k] = Added(g[k - 1], s[k])
    BY <1>3, <2>5 DEF AddSteps
  <2>9. g[k] \in FileMap
    BY <2>6, <2>7, <2>8, AddedTyped
  <2>10. g[k][x] = IF s[k].name = x THEN s[k].meta ELSE g[k - 1][x]
    BY <2>6, <2>8 DEF Added, FileMap
  <2>11. (\E j \in 1 .. k : s[j].name = x) <=> s[k].name = x \/ \E j \in 1 .. (k - 1) : s[j].name = x
    BY <2>5
  <2>12. g[k][x] = Shown(k)
    BY <1>2, <2>5, <2>6, <2>10, <2>11
  <2> QED BY <2>3, <2>9, <2>12
<1>5. n \in 0 .. n
  BY <1>1
<1>6. g[n][x] = Shown(n)
  BY <1>4, <1>5
<1>7. g[n] = RestoreFrom(s)
  BY <1>3 DEF AddSteps, RestoreFrom
<1> QED BY <1>6, <1>7 DEF n

\* A record follows the others.
LEMMA WholeConcat ==
  ASSUME NEW s \in Seq(Cell), NEW t \in Seq(Cell), Whole(s), Whole(t)
  PROVE  Whole(s \o t)
<1> DEFINE u == s \o t
           m == Len(s)
           n == Len(t)
           L(c) == Length[[name |-> c.name, meta |-> c.meta]]
<1>1. /\ m \in Nat /\ n \in Nat /\ DOMAIN s = 1 .. m /\ DOMAIN t = 1 .. n
      /\ DOMAIN u = 1 .. (m + n) /\ Len(u) = m + n
      /\ \A i \in 1 .. m : u[i] = s[i]
      /\ \A i \in 1 .. n : u[m + i] = t[i]
  BY ConcatProperties
<1>2. \A i \in 1 .. m : /\ s[i].at # 1 => i # 1 /\ s[i - 1] = [s[i] EXCEPT !.at = s[i].at - 1]
                        /\ s[i].at # L(s[i]) => i # m /\ s[i + 1] = [s[i] EXCEPT !.at = s[i].at + 1]
  BY <1>1 DEF Whole
<1>3. \A i \in 1 .. n : /\ t[i].at # 1 => i # 1 /\ t[i - 1] = [t[i] EXCEPT !.at = t[i].at - 1]
                        /\ t[i].at # L(t[i]) => i # n /\ t[i + 1] = [t[i] EXCEPT !.at = t[i].at + 1]
  BY <1>1 DEF Whole
<1> HIDE DEF u, m, n, L
<1>4. ASSUME NEW i \in 1 .. (m + n)
      PROVE  /\ u[i].at # 1 => i # 1 /\ u[i - 1] = [u[i] EXCEPT !.at = u[i].at - 1]
             /\ u[i].at # L(u[i]) => i # m + n /\ u[i + 1] = [u[i] EXCEPT !.at = u[i].at + 1]
  <2>1. CASE i <= m
    <3>1. i \in 1 .. m /\ u[i] = s[i]
      BY <1>1, <2>1
    <3>2. i # 1 => u[i - 1] = s[i - 1]
      BY <1>1, <3>1
    <3>3. i # m => i # m + n /\ u[i + 1] = s[i + 1]
      BY <1>1, <3>1
    <3> QED BY <1>2, <3>1, <3>2, <3>3
  <2>2. CASE m < i
    <3> DEFINE k == i - m
    <3>1. k \in 1 .. n /\ i = m + k /\ i # 1 + m - 1
      BY <1>1, <2>2
    <3> HIDE DEF k
    <3>2. u[i] = t[k]
      BY <1>1, <3>1
    <3>3. k # 1 => i # 1 /\ u[i - 1] = t[k - 1]
      <4>1. k # 1 => k - 1 \in 1 .. n /\ i - 1 = m + (k - 1) /\ i # 1
        BY <1>1, <3>1
      <4> QED BY <1>1, <4>1
    <3>4. k # n => i # m + n /\ u[i + 1] = t[k + 1]
      <4>1. k # n => k + 1 \in 1 .. n /\ i + 1 = m + (k + 1) /\ i # m + n
        BY <1>1, <3>1
      <4> QED BY <1>1, <4>1
    <3> QED BY <1>3, <3>1, <3>2, <3>3, <3>4
  <2> QED BY <1>1, <2>1, <2>2
<1>5. Whole(u)
  BY <1>1, <1>4 DEF Whole, L
<1> QED BY <1>5 DEF u

\* A record is whole.
LEMMA WholeRecord ==
  ASSUME NEW r \in FileRec
  PROVE  /\ Whole(CellsOf(r))
         /\ \A c \in ToSet(CellsOf(r)) : c.name = r.name /\ c.meta = r.meta
         /\ \E c \in ToSet(CellsOf(r)) : c.name = r.name
<1> DEFINE s == CellsOf(r)
           n == Length[r]
<1>1. n \in Nat \ {0} /\ DOMAIN s = 1 .. n /\ Len(s) = n
  BY CellsTyped
<1>2. \A i \in 1 .. n : s[i] = [name |-> r.name, meta |-> r.meta, at |-> i]
  BY DEF CellsOf
<1>3. r = [name |-> r.name, meta |-> r.meta]
  BY DEF FileRec
<1> HIDE DEF s
<1>4. ASSUME NEW i \in 1 .. n
      PROVE  /\ s[i].at # 1 => i # 1 /\ s[i - 1] = [s[i] EXCEPT !.at = s[i].at - 1]
             /\ s[i].at # Length[[name |-> s[i].name, meta |-> s[i].meta]]
                  => i # n /\ s[i + 1] = [s[i] EXCEPT !.at = s[i].at + 1]
  <2>1. s[i] = [name |-> r.name, meta |-> r.meta, at |-> i]
    BY <1>2
  <2>2. i # 1 => s[i - 1] = [name |-> r.name, meta |-> r.meta, at |-> i - 1]
    BY <1>1, <1>2
  <2>3. i # n => s[i + 1] = [name |-> r.name, meta |-> r.meta, at |-> i + 1]
    BY <1>1, <1>2
  <2> QED BY <1>3, <2>1, <2>2, <2>3
<1>5. Whole(s)
  BY <1>1, <1>4 DEF Whole
<1>6. (\A c \in ToSet(s) : c.name = r.name /\ c.meta = r.meta) /\ 1 \in DOMAIN s
  <2>1. \A i \in DOMAIN s : s[i].name = r.name /\ s[i].meta = r.meta
    <3> TAKE i \in DOMAIN s
    <3>1. i \in 1 .. n
      BY <1>1
    <3>2. s[i] = [name |-> r.name, meta |-> r.meta, at |-> i]
      BY <1>2, <3>1
    <3> QED BY <3>2
  <2>2. 1 \in DOMAIN s
    BY <1>1
  <2> QED BY <2>1, <2>2 DEF ToSet
<1>7. s[1] \in ToSet(s)
  BY <1>6 DEF ToSet
<1> QED BY <1>5, <1>6, <1>7 DEF s

\* So are records written one after the other.
LEMMA FlatCells ==
  ASSUME NEW n \in Nat \ {0}, NEW s \in [1 .. n -> Seq(Cell)], \A i \in 1 .. n : Whole(s[i])
  PROVE  /\ Whole(FlattenSeq(s)) /\ FlattenSeq(s) \in Seq(Cell)
         /\ ToSet(FlattenSeq(s)) = UNION {ToSet(s[i]) : i \in 1 .. n}
<1>1. Len(s) = n /\ DOMAIN s = 1 .. n
  OBVIOUS
<1>2. PICK f : /\ f[1] = s[1]
               /\ \A k \in 2 .. n : f[k] = f[k - 1] \o s[k]
               /\ f[n] = FlattenSeq(s)
  BY <1>1, FlatInSteps
<1> DEFINE Good(k) == /\ f[k] \in Seq(Cell)
                      /\ ToSet(f[k]) = UNION {ToSet(s[i]) : i \in 1 .. k}
                      /\ Whole(f[k])
           T == {k \in 1 .. n : ~ Good(k)}
<1>3. Good(1)
  <2>1. f[1] = s[1] /\ s[1] \in Seq(Cell) /\ Whole(s[1]) /\ 1 .. 1 = {1}
    BY <1>2
  <2> QED BY <2>1
<1>4. ASSUME NEW k \in 2 .. n, Good(k - 1)
      PROVE  Good(k)
  <2> DEFINE a == f[k - 1]
             b == s[k]
  <2>0. k \in 1 .. n
    OBVIOUS
  <2>1. a \in Seq(Cell) /\ b \in Seq(Cell) /\ f[k] = a \o b /\ Whole(a) /\ Whole(b)
    BY <1>2, <1>4, <2>0, Zenon
  <2>2. ToSet(a) = UNION {ToSet(s[i]) : i \in 1 .. (k - 1)}
    BY <1>4
  <2> HIDE DEF a, b
  <2>3. a \o b \in Seq(Cell) /\ Whole(a \o b)
    BY <2>1, WholeConcat, ConcatProperties
  <2>4. ToSet(a \o b) = ToSet(a) \cup ToSet(b)
    BY <2>1, ToSetConcat
  <2>5. ToSet(f[k]) = UNION {ToSet(s[i]) : i \in 1 .. k}
    <3>1. 1 .. k = 1 .. (k - 1) \cup {k}
      OBVIOUS
    <3>2. ToSet(f[k]) = (UNION {ToSet(s[i]) : i \in 1 .. (k - 1)}) \cup ToSet(s[k])
      BY <2>1, <2>2, <2>4 DEF b
    <3> QED BY <3>1, <3>2
  <2> QED BY <2>1, <2>3, <2>5
<1>5. T = {}
  <2> SUFFICES ASSUME T # {} PROVE FALSE
    OBVIOUS
  <2>1. T \in SUBSET Nat
    OBVIOUS
  <2>2. PICK k \in T : \A y \in T : k <= y
    BY <2>1, LeastExists, Zenon
  <2>3. k \in 1 .. n /\ ~ Good(k)
    OBVIOUS
  <2> HIDE DEF Good
  <2>4. k \in 2 .. n
    BY <1>3, <2>3
  <2>5. k - 1 \in 1 .. n /\ ~ (k <= k - 1)
    BY <2>4
  <2>6. Good(k - 1)
    BY <2>2, <2>5
  <2> QED BY <1>4, <2>3, <2>4, <2>6
<1>6. n \in 1 .. n
  OBVIOUS
<1>7. Good(n)
  BY <1>5, <1>6
<1> QED BY <1>2, <1>7

\* A copy has cells of all the files of the map and of no other.
LEMMA CopyCells ==
  ASSUME NEW F \in FileMap, NEW s \in Copies(F)
  PROVE  /\ Whole(s) /\ s \in Seq(Cell)
         /\ \A c \in ToSet(s) : F[c.name] = c.meta /\ F[c.name] # None
         /\ \A x \in Names : F[x] # None => \E c \in ToSet(s) : c.name = x
<1> DEFINE R == RecordsIn(F)
           n == Cardinality(R)
<1>1. R \subseteq FileRec /\ n \in Nat /\ IsFiniteSet(R)
  BY CopyRecords
<1>2. PICK t \in [1 .. n -> R] :
        /\ \A i, j \in DOMAIN t : i # j => t[i] # t[j]
        /\ s = FlattenSeq([i \in 1 .. n |-> CellsOf(t[i])])
  BY CopyRecords
<1>3. \A r \in R : r.name \in Names /\ F[r.name] = r.meta /\ F[r.name] # None
  BY DEF RecordsIn
<1>4. \A x \in Names : F[x] # None => \E r \in R : r.name = x
  <2> SUFFICES ASSUME NEW x \in Names, F[x] # None
               PROVE  \E r \in R : r.name = x
    OBVIOUS
  <2>1. [name |-> x, meta |-> F[x]] \in R
    BY DEF RecordsIn
  <2> QED BY <2>1
<1> HIDE DEF R, n
<1> DEFINE u == [i \in 1 .. n |-> CellsOf(t[i])]
<1>5. CASE n = 0
  <2>1. R = {}
    BY <1>1, <1>5, FS_EmptySet DEF n
  <2>2. u = << >>
    BY <1>5
  <2>3. FlattenSeq(<< >>) = << >>
    BY DEF FlattenSeq
  <2>4. s = << >>
    BY <1>2, <2>2, <2>3
  <2>5. Whole(<< >>) /\ << >> \in Seq(Cell) /\ ToSet(<< >>) = {}
    BY DEF Whole, ToSet
  <2> QED BY <1>4, <2>1, <2>4, <2>5
<1>6. CASE n # 0
  <2>1. n \in Nat \ {0}
    BY <1>1, <1>6
  <2>2. \A i \in 1 .. n : t[i] \in R /\ t[i] \in FileRec /\ u[i] = CellsOf(t[i])
    BY <1>1
  <2> HIDE DEF u
  <2>3. u \in [1 .. n -> Seq(Cell)]
    BY <2>2, CellsTyped DEF u
  <2>4. \A i \in 1 .. n :
          /\ Whole(u[i])
          /\ \A c \in ToSet(u[i]) : c.name = t[i].name /\ c.meta = t[i].meta
          /\ \E c \in ToSet(u[i]) : c.name = t[i].name
    BY <2>2, WholeRecord
  <2>5. /\ Whole(FlattenSeq(u)) /\ FlattenSeq(u) \in Seq(Cell)
        /\ ToSet(FlattenSeq(u)) = UNION {ToSet(u[i]) : i \in 1 .. n}
    BY <2>1, <2>3, <2>4, FlatCells
  <2>6. s = FlattenSeq(u)
    BY <1>2 DEF u
  <2>7. ASSUME NEW c \in ToSet(s)
        PROVE  F[c.name] = c.meta /\ F[c.name] # None
    <3>1. PICK i \in 1 .. n : c \in ToSet(u[i])
      BY <2>5, <2>6
    <3> QED BY <1>3, <2>2, <2>4, <3>1
  <2>8. \A r \in R : \E i \in 1 .. n : t[i] = r
    <3>1. t \in Injection(1 .. n, R)
      BY <1>2 DEF Injection, IsInjective
    <3>2. Cardinality(1 .. n) = n
      BY <1>1, FS_Interval
    <3>3. t \in Surjection(1 .. n, R)
      BY <1>1, <3>1, <3>2, FS_Injection DEF n
    <3> QED BY <3>3 DEF Surjection
  <2>9. ASSUME NEW x \in Names, F[x] # None
        PROVE  \E c \in ToSet(s) : c.name = x
    <3>1. PICK r \in R : r.name = x
      BY <1>4, <2>9
    <3>2. PICK i \in 1 .. n : t[i] = r
      BY <2>8
    <3>3. PICK c \in ToSet(u[i]) : c.name = x
      BY <2>4, <3>1, <3>2
    <3>4. c \in ToSet(s)
      BY <2>5, <2>6, <3>3
    <3> QED BY <3>3, <3>4
  <2> QED BY <2>5, <2>6, <2>7, <2>9
<1> QED BY <1>1, <1>5, <1>6

\* A snapshot loses nothing: Restore makes of a copy of the map, in whatever order
\* and with however long records it was written, the map that was copied, and
\* does not take it for a broken file.
THEOREM CopyRestored ==
  ASSUME NEW F \in FileMap, NEW s \in Copies(F)
  PROVE  RestoreFrom(s) = F /\ Whole(s)
<1>1. /\ Whole(s) /\ s \in Seq(Cell)
      /\ \A c \in ToSet(s) : F[c.name] = c.meta /\ F[c.name] # None
      /\ \A x \in Names : F[x] # None => \E c \in ToSet(s) : c.name = x
  BY CopyCells
<1>2. RestoreFrom(s) \in FileMap
  BY <1>1, RestoredTyped
<1>3. DOMAIN s = 1 .. Len(s)
  BY <1>1
<1>4. ToSet(s) = {s[i] : i \in 1 .. Len(s)}
  BY <1>3 DEF ToSet
<1>5. ASSUME NEW x \in Names
      PROVE  RestoreFrom(s)[x] = F[x]
  <2>1. \A j \in 1 .. Len(s) : s[j].name = x => s[j].meta = F[x]
    BY <1>1, <1>4
  <2>2. RestoreFrom(s)[x] = IF \E j \in 1 .. Len(s) : s[j].name = x THEN F[x] ELSE None
    <3>1. s \in Seq(Cell)
      BY <1>1
    <3> QED BY <2>1, <3>1, RestoredEach, Zenon
  <2>3. F[x] # None => \E j \in 1 .. Len(s) : s[j].name = x
    BY <1>1, <1>4
  <2> QED BY <2>2, <2>3
<1> QED BY <1>1, <1>2, <1>5 DEF FileMap

=============================================================================
