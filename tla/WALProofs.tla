----------------------------- MODULE WALProofs -----------------------------
(***************************************************************************)
(* IInv of module WAL is an inductive invariant when MaxSegments is not 1, *)
(* hence the log stays ordered, acknowledged records stay in the log until *)
(* a snapshot covers them, their numbers are never issued again, and no    *)
(* file is written over.                                                   *)
(*                                                                         *)
(* The first part has lemmas about the operations on a directory of        *)
(* segment files (module WALSegments): each keeps DirInv.  They hold of    *)
(* every directory, not only of reachable ones.  The second part has one   *)
(* lemma per step of the log.                                              *)
(***************************************************************************)
EXTENDS WAL, FiniteSetTheorems, SequenceTheorems, WellFoundedInduction, TLAPS

(* The directory *)

\* A set of naturals with an upper bound has a greatest element.
LEMMA MaxExists ==
  ASSUME NEW T \in SUBSET Nat, T # {}, NEW n \in Nat, \A x \in T : x <= n
  PROVE  \E x \in T : \A y \in T : y <= x
<1> DEFINE U == {n - x : x \in T}
<1>1. \A x \in T : n - x \in Nat
  OBVIOUS
<1>2. U \subseteq Nat
  BY <1>1
<1>3. PICK t \in T : TRUE
  OBVIOUS
<1>4. n - t \in U
  BY <1>3
<1> DEFINE R == OpToRel(<, Nat)
<1>5. IsWellFoundedOn(R, Nat)
  BY NatLessThanWellFounded
<1> HIDE DEF R
<1>6. PICK u \in U : \A v \in U : ~(<<v, u>> \in R)
  <2> HIDE DEF U
  <2>1. U # {}
    BY <1>4
  <2> QED BY <1>2, <2>1, <1>5, WFMin, Zenon
<1>7. \A v \in U : v >= u
  <2> TAKE v \in U
  <2>1. u \in Nat /\ v \in Nat
    BY <1>2
  <2>2. ~(v < u)
    BY <1>6, <2>1 DEF R, OpToRel
  <2> QED BY <2>1, <2>2
<1>8. PICK x \in T : u = n - x
  BY <1>6
<1>9. \A y \in T : y <= x
  <2> TAKE y \in T
  <2>1. n - y \in U
    OBVIOUS
  <2>2. n - y >= n - x
    BY <1>7, <1>8, <2>1
  <2> QED BY <2>2
<1> QED BY <1>9

\* Max picks the element that is above all others.
LEMMA MaxIs ==
  ASSUME NEW T \in SUBSET Nat, NEW x \in T, \A y \in T : y <= x
  PROVE  Max(T) = x
<1>1. \A z \in T : (\A y \in T : z >= y) => z = x
  OBVIOUS
<1>2. \A y \in T : x >= y
  OBVIOUS
<1> QED BY <1>1, <1>2, Zenon DEF Max

\* The walk of findLastSequenceNumberInLogFile stops somewhere.
LEMMA WalkStopsMax ==
  ASSUME NEW S, NEW n \in Nat
  PROVE  /\ Max(WalkStops(S, n)) \in WalkStops(S, n)
         /\ \A j \in WalkStops(S, n) : j <= Max(WalkStops(S, n))
<1> DEFINE T == WalkStops(S, n)
<1>1. T \in SUBSET Nat /\ 0 \in T /\ \A x \in T : x <= n
  BY DEF WalkStops
<1> HIDE DEF T
<1>2. PICK x \in T : \A y \in T : y <= x
  BY <1>1, MaxExists
<1>3. Max(T) = x
  BY <1>1, <1>2, MaxIs
<1> QED BY <1>2, <1>3 DEF T

\* A file that can be removed is there.
LEMMA RemovableExists ==
  ASSUME NEW S, NEW n \in Nat \ {0}, ~ RemoveFails(S, n)
  PROVE  n \in DOMAIN S
<1>1. SUFFICES ASSUME n \notin DOMAIN S
               PROVE  FALSE
  OBVIOUS
<1> DEFINE T == WalkStops(S, n)
<1>2. T \in SUBSET Nat /\ n \in T /\ \A y \in T : y <= n
  BY <1>1 DEF WalkStops
<1>3. Max(T) = n
  BY <1>2, MaxIs
<1> QED BY <1>1, <1>3 DEF RemoveFails, findLastSequenceNumberInLogFile

\* Records of a file: a nonempty file has a last one, and it is the highest.
LEMMA LastIsHighest ==
  ASSUME NEW recs \in Seq(Entry), Ordered(recs), recs # << >>
  PROVE  /\ recs[Len(recs)].lsn \in Lsns(recs)
         /\ \A x \in Lsns(recs) : x <= recs[Len(recs)].lsn
<1>1. Len(recs) \in DOMAIN recs /\ DOMAIN recs = 1 .. Len(recs) /\ Len(recs) \in Nat
  OBVIOUS
<1>2. \A i \in DOMAIN recs : recs[i].lsn \in Nat
  <2>1. \A i \in DOMAIN recs : recs[i] \in Entry
    OBVIOUS
  <2> QED BY <2>1 DEF Entry
<1>3. \A i \in DOMAIN recs : recs[i].lsn <= recs[Len(recs)].lsn
  <2> TAKE i \in DOMAIN recs
  <2>1. CASE i = Len(recs)
    BY <1>1, <1>2, <2>1
  <2>2. CASE i < Len(recs)
    BY <1>1, <1>2, <2>2 DEF Ordered
  <2> QED BY <1>1, <2>1, <2>2
<1> QED BY <1>1, <1>3 DEF Lsns

\* LSNs are naturals.
LEMMA LsnsType ==
  ASSUME NEW recs \in Seq(Entry)
  PROVE  Lsns(recs) \subseteq Nat
<1>1. \A i \in DOMAIN recs : recs[i] \in Entry
  OBVIOUS
<1> QED BY <1>1 DEF Lsns, Entry

\* So are the LSNs in all files together.
LEMMA DiskLsnsType ==
  ASSUME NEW S, IsDirectory(S)
  PROVE  /\ LsnsOnDisk(S) \subseteq Nat
         /\ \A n \in DOMAIN S : /\ n \in Nat \ {0}
                                /\ S[n].recs \in Seq(Entry)
                                /\ S[n].size \in Nat
                                /\ Lsns(S[n].recs) \subseteq Nat
                                /\ Lsns(S[n].recs) \subseteq LsnsOnDisk(S)
<1>1. \A n \in DOMAIN S : n \in Nat \ {0} /\ S[n] \in SegmentFile
  BY DEF IsDirectory
<1>2. \A n \in DOMAIN S : S[n].recs \in Seq(Entry) /\ S[n].size \in Nat
  BY <1>1 DEF SegmentFile
<1>3. \A n \in DOMAIN S : Lsns(S[n].recs) \subseteq Nat
  BY <1>2, LsnsType
<1> QED BY <1>1, <1>2, <1>3 DEF LsnsOnDisk

----------------------------------------------------------------------------
\* A flush adds the LSNs of the buffer to those of the file.
LEMMA LsnsConcat ==
  ASSUME NEW s \in Seq(Entry), NEW t \in Seq(Entry)
  PROVE  Lsns(s \o t) = Lsns(s) \cup Lsns(t)
<1>1. /\ DOMAIN (s \o t) = 1 .. (Len(s) + Len(t))
      /\ DOMAIN s = 1 .. Len(s) /\ DOMAIN t = 1 .. Len(t)
      /\ Len(s) \in Nat /\ Len(t) \in Nat
      /\ \A i \in 1 .. Len(s) : (s \o t)[i] = s[i]
      /\ \A i \in 1 .. Len(t) : (s \o t)[Len(s) + i] = t[i]
  BY ConcatProperties
<1>2. \A x \in Lsns(s \o t) : x \in Lsns(s) \cup Lsns(t)
  <2> TAKE x \in Lsns(s \o t)
  <2>1. PICK i \in 1 .. (Len(s) + Len(t)) : x = (s \o t)[i].lsn
    BY <1>1 DEF Lsns
  <2>2. CASE i \in 1 .. Len(s)
    BY <1>1, <2>1, <2>2 DEF Lsns
  <2>3. CASE i \notin 1 .. Len(s)
    <3>1. i - Len(s) \in 1 .. Len(t) /\ Len(s) + (i - Len(s)) = i
      BY <1>1, <2>3
    <3>2. x = t[i - Len(s)].lsn
      BY <1>1, <2>1, <3>1
    <3> QED BY <1>1, <3>1, <3>2 DEF Lsns
  <2> QED BY <2>2, <2>3
<1>3. \A x \in Lsns(s) : x \in Lsns(s \o t)
  <2> TAKE x \in Lsns(s)
  <2>1. PICK i \in 1 .. Len(s) : x = s[i].lsn
    BY <1>1 DEF Lsns
  <2>2. i \in DOMAIN (s \o t) /\ x = (s \o t)[i].lsn
    BY <1>1, <2>1
  <2> QED BY <2>2 DEF Lsns
<1>4. \A x \in Lsns(t) : x \in Lsns(s \o t)
  <2> TAKE x \in Lsns(t)
  <2>1. PICK i \in 1 .. Len(t) : x = t[i].lsn
    BY <1>1 DEF Lsns
  <2>2. Len(s) + i \in DOMAIN (s \o t) /\ x = (s \o t)[Len(s) + i].lsn
    BY <1>1, <2>1
  <2> QED BY <2>2 DEF Lsns
<1> QED BY <1>2, <1>3, <1>4

\* A file stays ordered when an ordered buffer of higher LSNs is flushed to it.
LEMMA OrderedConcat ==
  ASSUME NEW s \in Seq(Entry), NEW t \in Seq(Entry), Ordered(s), Ordered(t),
         \A a \in Lsns(s), b \in Lsns(t) : a < b
  PROVE  Ordered(s \o t)
<1>1. /\ DOMAIN (s \o t) = 1 .. (Len(s) + Len(t))
      /\ DOMAIN s = 1 .. Len(s) /\ DOMAIN t = 1 .. Len(t)
      /\ Len(s) \in Nat /\ Len(t) \in Nat
      /\ \A i \in 1 .. Len(s) : (s \o t)[i] = s[i]
      /\ \A i \in 1 .. Len(t) : (s \o t)[Len(s) + i] = t[i]
  BY ConcatProperties
<1>2. SUFFICES ASSUME NEW i \in 1 .. (Len(s) + Len(t)),
                      NEW j \in 1 .. (Len(s) + Len(t)), i < j
               PROVE  (s \o t)[i].lsn < (s \o t)[j].lsn
  BY <1>1 DEF Ordered
<1>3. CASE j <= Len(s)
  <2>1. i \in DOMAIN s /\ j \in DOMAIN s /\ (s \o t)[i] = s[i] /\ (s \o t)[j] = s[j]
    BY <1>1, <1>2, <1>3
  <2> QED BY <1>2, <2>1 DEF Ordered
<1>4. CASE Len(s) < i
  <2>1. /\ i - Len(s) \in DOMAIN t /\ (s \o t)[i] = t[i - Len(s)]
        /\ j - Len(s) \in DOMAIN t /\ (s \o t)[j] = t[j - Len(s)]
        /\ i - Len(s) < j - Len(s)
    <3>1. /\ i - Len(s) \in 1 .. Len(t) /\ Len(s) + (i - Len(s)) = i
          /\ j - Len(s) \in 1 .. Len(t) /\ Len(s) + (j - Len(s)) = j
          /\ i - Len(s) < j - Len(s)
      BY <1>1, <1>2, <1>4
    <3> QED BY <1>1, <3>1
  <2> QED BY <2>1 DEF Ordered
<1>5. CASE i <= Len(s) /\ Len(s) < j
  <2>1. i \in DOMAIN s /\ (s \o t)[i] = s[i]
    BY <1>1, <1>2, <1>5
  <2>2. j - Len(s) \in DOMAIN t /\ (s \o t)[j] = t[j - Len(s)]
    <3>1. j - Len(s) \in 1 .. Len(t) /\ Len(s) + (j - Len(s)) = j
      BY <1>1, <1>2, <1>5
    <3> QED BY <1>1, <3>1
  <2>3. s[i].lsn \in Lsns(s) /\ t[j - Len(s)].lsn \in Lsns(t)
    BY <2>1, <2>2 DEF Lsns
  <2> QED BY <2>1, <2>2, <2>3
<1> QED BY <1>1, <1>2, <1>3, <1>4, <1>5

\* Appending to the buffer a record numbered above it.
LEMMA AppendLsns ==
  ASSUME NEW s \in Seq(Entry), NEW e \in Entry
  PROVE  /\ Append(s, e) \in Seq(Entry)
         /\ Lsns(Append(s, e)) = Lsns(s) \cup {e.lsn}
         /\ Ordered(s) /\ (\A a \in Lsns(s) : a < e.lsn) => Ordered(Append(s, e))
<1>1. <<e>> \in Seq(Entry) /\ Append(s, e) = s \o <<e>> /\ Append(s, e) \in Seq(Entry)
  OBVIOUS
<1>2. Lsns(<<e>>) = {e.lsn} /\ Ordered(<<e>>)
  BY DEF Lsns, Ordered
<1> QED BY <1>1, <1>2, LsnsConcat, OrderedConcat

----------------------------------------------------------------------------
\* Fewer buffered records (a crash) or fewer acknowledged ones.
LEMMA ShrinkKeeps ==
  ASSUME NEW S, NEW B, NEW A, NEW cov, DirInv(S, B, A, cov),
         NEW B2 \in SUBSET B, NEW A2 \in SUBSET A
  PROVE  DirInv(S, B2, A2, cov)
BY DEF DirInv, Gone

\* A new record, numbered above all others.
LEMMA NumberKeeps ==
  ASSUME NEW S, NEW B, NEW A, NEW cov, DirInv(S, B, A, cov), NEW x,
         \A a \in LsnsOnDisk(S) \cup A : a < x
  PROVE  DirInv(S, B \cup {x}, A, cov)
BY DEF DirInv, Gone

\* os.Create of the next segment.
LEMMA CreateKeeps ==
  ASSUME NEW S, NEW B, NEW A, NEW cov, DirInv(S, B, A, cov),
         NEW k \in Nat \ {0}, \A n \in DOMAIN S : n < k
  PROVE  /\ DirInv(With(S, k, EmptyFile), B, A, cov)
         /\ LsnsOnDisk(With(S, k, EmptyFile)) = LsnsOnDisk(S)
<1> DEFINE C == With(S, k, EmptyFile)
<1>1. /\ DOMAIN C = DOMAIN S \cup {k}
      /\ C[k] = EmptyFile
      /\ \A n \in DOMAIN S : C[n] = S[n] /\ n # k /\ n \in Nat \ {0}
  BY DEF With, DirInv, IsDirectory
<1>2. IsDirectory(C)
  <2>1. EmptyFile \in SegmentFile
    BY DEF EmptyFile, SegmentFile
  <2> QED BY <2>1 DEF With, DirInv, IsDirectory
<1>3. Lsns(C[k].recs) = {} /\ Ordered(C[k].recs)
  BY <1>1 DEF EmptyFile, Lsns, Ordered
<1> HIDE DEF C
<1>4. OrderedDirectory(C)
  BY <1>1, <1>3 DEF DirInv, OrderedDirectory
<1>5. LsnsOnDisk(C) = LsnsOnDisk(S)
  BY <1>1, <1>3 DEF LsnsOnDisk
<1>6. ASSUME NEW l, Gone(S, B, l)
      PROVE  Gone(C, B, l)
  <2>1. PICK n \in DOMAIN S : \E r \in 1 .. (n - 1) :
          /\ r \notin DOMAIN S
          /\ \A m \in DOMAIN S : r < m => \A x \in Lsns(S[m].recs) : l < x
    BY <1>6 DEF Gone
  <2>2. PICK r \in 1 .. (n - 1) :
          /\ r \notin DOMAIN S
          /\ \A m \in DOMAIN S : r < m => \A x \in Lsns(S[m].recs) : l < x
    BY <2>1
  <2>3. n \in DOMAIN C /\ r \notin DOMAIN C
    BY <1>1, <2>2
  <2>4. \A m \in DOMAIN C : r < m => \A x \in Lsns(C[m].recs) : l < x
    BY <1>1, <1>3, <2>2
  <2> QED BY <1>6, <2>2, <2>3, <2>4 DEF Gone
<1> QED BY <1>2, <1>4, <1>5, <1>6 DEF DirInv, C

\* removeLogFile below the last file: what it deletes is covered, and leaves
\* a gap behind which every record is higher.
LEMMA RemoveKeeps ==
  ASSUME NEW S, NEW B \in SUBSET Nat, NEW A \in SUBSET Nat, NEW cov \in Nat,
         DirInv(S, B, A, cov), NEW ls \in Nat, ls <= cov,
         NEW n \in Nat \ {0}, ~ RemoveFails(S, n),
         NEW m \in DOMAIN S, n < m
  PROVE  /\ DirInv(removeLogFile(S, n, ls), B, A, cov)
         /\ DOMAIN removeLogFile(S, n, ls) \in {DOMAIN S, DOMAIN S \ {n}}
         /\ \A k \in DOMAIN removeLogFile(S, n, ls) : removeLogFile(S, n, ls)[k] = S[k]
         /\ LsnsOnDisk(removeLogFile(S, n, ls)) \subseteq LsnsOnDisk(S)
<1>1. CASE findLastSequenceNumberInLogFile(S, n) > ls
  BY <1>1 DEF removeLogFile
<1>2. CASE ~ (findLastSequenceNumberInLogFile(S, n) > ls)
  <2> DEFINE R == Without(S, n)
  <2>1. removeLogFile(S, n, ls) = R
    BY <1>2 DEF removeLogFile
  <2>2. DOMAIN R = DOMAIN S \ {n} /\ \A k \in DOMAIN R : R[k] = S[k]
    BY DEF Without
  <2>3. IsDirectory(R)
    BY DEF DirInv, IsDirectory, Without
  <2> HIDE DEF R
  <2>4. OrderedDirectory(R)
    BY <2>2 DEF DirInv, OrderedDirectory
  <2>5. LsnsOnDisk(R) \subseteq LsnsOnDisk(S)
    BY <2>2 DEF LsnsOnDisk
  <2>6. n \in DOMAIN S /\ m \in DOMAIN R /\ m \in Nat
    BY <2>2, RemovableExists, DiskLsnsType DEF DirInv
  <2>7. S[n].recs \in Seq(Entry) /\ Ordered(S[n].recs) /\ Lsns(S[n].recs) \subseteq Nat
    BY <2>6, DiskLsnsType DEF DirInv, OrderedDirectory
  <2>8. \A x \in Lsns(S[n].recs) : x <= ls
    <3>1. CASE S[n].recs = << >>
      BY <3>1 DEF Lsns
    <3>2. CASE S[n].recs # << >>
      <4> DEFINE T == WalkStops(S, n)
      <4>1. T \in SUBSET Nat /\ n \in T /\ \A y \in T : y <= n
        BY <3>2 DEF WalkStops
      <4>2. Max(T) = n
        BY <4>1, MaxIs
      <4>3. findLastSequenceNumberInLogFile(S, n) = S[n].recs[Len(S[n].recs)].lsn
        BY <4>2, <2>6 DEF findLastSequenceNumberInLogFile
      <4>4. /\ S[n].recs[Len(S[n].recs)].lsn \in Nat
            /\ \A x \in Lsns(S[n].recs) : x <= S[n].recs[Len(S[n].recs)].lsn
        BY <2>7, <3>2, LastIsHighest
      <4>5. S[n].recs[Len(S[n].recs)].lsn <= ls
        BY <1>2, <4>3, <4>4
      <4> QED BY <2>7, <4>4, <4>5
    <3> QED BY <3>1, <3>2
  <2>9. ASSUME NEW l \in Lsns(S[n].recs)
        PROVE  Gone(R, B, l) /\ l <= cov
    <3>1. l \in LsnsOnDisk(S) /\ l \in Nat /\ l <= ls
      BY <2>6, <2>7, <2>8, <2>9 DEF LsnsOnDisk
    <3>2. \A b \in B : l < b
      BY <3>1 DEF DirInv
    <3>3. n \in 1 .. (m - 1) /\ n \notin DOMAIN R
      BY <2>2, <2>6
    <3>4. \A k \in DOMAIN R : n < k => \A x \in Lsns(R[k].recs) : l < x
      BY <2>2, <2>6, <2>9 DEF DirInv, OrderedDirectory
    <3> QED BY <2>6, <3>1, <3>2, <3>3, <3>4 DEF Gone
  <2>10. ASSUME NEW l, Gone(S, B, l)
         PROVE  Gone(R, B, l)
    <3>1. PICK k \in DOMAIN S : \E r \in 1 .. (k - 1) :
            /\ r \notin DOMAIN S
            /\ \A j \in DOMAIN S : r < j => \A x \in Lsns(S[j].recs) : l < x
      BY <2>10 DEF Gone
    <3>2. PICK r \in 1 .. (k - 1) :
            /\ r \notin DOMAIN S
            /\ \A j \in DOMAIN S : r < j => \A x \in Lsns(S[j].recs) : l < x
      BY <3>1
    <3>3. r \notin DOMAIN R /\ k \in Nat
      BY <2>2, <3>2, DiskLsnsType DEF DirInv
    <3>4. \A j \in DOMAIN R : r < j => \A x \in Lsns(R[j].recs) : l < x
      BY <2>2, <3>2
    <3>5. \E j \in DOMAIN R : r \in 1 .. (j - 1)
      <4>1. CASE k = n
        BY <2>6, <3>2, <3>3, <4>1
      <4>2. CASE k # n
        BY <2>2, <3>2, <4>2
      <4> QED BY <4>1, <4>2
    <3> QED BY <2>10, <3>3, <3>4, <3>5 DEF Gone
  <2>11. \A l \in LsnsOnDisk(S) : l \in LsnsOnDisk(R) \/ l \in Lsns(S[n].recs)
    BY <2>2 DEF LsnsOnDisk
  <2>12. DirInv(R, B, A, cov)
    BY <2>3, <2>4, <2>5, <2>9, <2>10, <2>11 DEF DirInv
  <2> QED BY <2>1, <2>2, <2>5, <2>12
<1> QED BY <1>1, <1>2

\* A flush when all files beyond the writer's are empty: the buffer is on
\* disk, so its records may be acknowledged.
LEMMA FlushKeeps ==
  ASSUME NEW S, NEW L, NEW A \in SUBSET Nat, NEW cov \in Nat,
         L.buf \in Seq(Entry), L.size \in Nat, Ordered(L.buf),
         DirInv(S, Lsns(L.buf), A, cov), L.last \in DOMAIN S,
         \A n \in DOMAIN S : L.last < n => Lsns(S[n].recs) = {},
         NEW A2 \in SUBSET (A \cup Lsns(L.buf))
  PROVE  /\ DirInv(FlushTo(S, L), {}, A2, cov)
         /\ DOMAIN FlushTo(S, L) = DOMAIN S
         /\ LsnsOnDisk(FlushTo(S, L)) = LsnsOnDisk(S) \cup Lsns(L.buf)
<1> DEFINE k == L.last
           b == L.buf
           file == [recs |-> S[k].recs \o b, size |-> L.size]
           G == With(S, k, file)
<1>0. FlushTo(S, L) = G
  BY DEF FlushTo
<1>1. /\ k \in Nat \ {0} /\ S[k].recs \in Seq(Entry)
      /\ Lsns(b) \subseteq Nat /\ LsnsOnDisk(S) \subseteq Nat
      /\ \A n \in DOMAIN S : n \in Nat /\ Lsns(S[n].recs) \subseteq LsnsOnDisk(S)
  BY DiskLsnsType, LsnsType DEF DirInv
<1>2. DOMAIN G = DOMAIN S /\ G[k] = file /\ \A n \in DOMAIN S \ {k} : G[n] = S[n]
  BY DEF With
<1>3. file.recs = S[k].recs \o b /\ file.recs \in Seq(Entry) /\ file \in SegmentFile
  <2>1. S[k].recs \o b \in Seq(Entry)
    BY <1>1
  <2> QED BY <2>1 DEF SegmentFile
<1>4. IsDirectory(G)
  BY <1>3 DEF With, DirInv, IsDirectory
<1>5. Lsns(file.recs) = Lsns(S[k].recs) \cup Lsns(b)
  BY <1>1, <1>3, LsnsConcat
<1>6. Ordered(file.recs)
  <2>1. Ordered(S[k].recs) /\ \A x \in Lsns(S[k].recs), y \in Lsns(b) : x < y
    BY <1>1 DEF DirInv, OrderedDirectory
  <2> QED BY <1>1, <1>3, <2>1, OrderedConcat
<1> HIDE DEF file, G
<1>7. \A n \in DOMAIN G : Lsns(G[n].recs) \subseteq Lsns(S[n].recs) \cup Lsns(b)
  BY <1>2, <1>5
<1>8. OrderedDirectory(G)
  <2>1. \A n \in DOMAIN G : Ordered(G[n].recs)
    BY <1>2, <1>6 DEF DirInv, OrderedDirectory
  <2>2. ASSUME NEW m \in DOMAIN G, NEW n \in DOMAIN G, m < n,
               NEW x \in Lsns(G[m].recs), NEW y \in Lsns(G[n].recs)
        PROVE  x < y
    <3>0. m \in Nat /\ n \in Nat /\ m # n
      BY <1>1, <1>2, <2>2
    <3>1. CASE m = k
      <4>1. n \in DOMAIN S \ {k} /\ L.last < n
        BY <1>2, <2>2, <3>0, <3>1
      <4>2. G[n] = S[n] /\ Lsns(S[n].recs) = {}
        BY <1>2, <4>1
      <4> QED BY <4>2
    <3>2. CASE n = k
      <4>0. m \in DOMAIN S \ {k}
        BY <1>2, <3>0, <3>2
      <4>1. x \in Lsns(S[m].recs) /\ x \in LsnsOnDisk(S)
        BY <1>1, <1>2, <4>0
      <4>2. CASE y \in Lsns(S[k].recs)
        BY <1>2, <2>2, <3>2, <4>1, <4>2 DEF DirInv, OrderedDirectory
      <4>3. CASE y \in Lsns(b)
        BY <4>1, <4>3 DEF DirInv
      <4> QED BY <1>2, <1>5, <3>2, <4>2, <4>3
    <3>3. CASE m # k /\ n # k
      BY <1>2, <2>2, <3>3 DEF DirInv, OrderedDirectory
    <3> QED BY <3>1, <3>2, <3>3
  <2> QED BY <2>1, <2>2 DEF OrderedDirectory
<1>9. LsnsOnDisk(G) = LsnsOnDisk(S) \cup Lsns(b)
  BY <1>2, <1>5 DEF LsnsOnDisk
<1>10. ASSUME NEW l, Gone(S, Lsns(b), l)
       PROVE  Gone(G, {}, l)
  <2>1. PICK n \in DOMAIN S : \E r \in 1 .. (n - 1) :
          /\ r \notin DOMAIN S
          /\ \A m \in DOMAIN S : r < m => \A x \in Lsns(S[m].recs) : l < x
    BY <1>10 DEF Gone
  <2>2. PICK r \in 1 .. (n - 1) :
          /\ r \notin DOMAIN S
          /\ \A m \in DOMAIN S : r < m => \A x \in Lsns(S[m].recs) : l < x
    BY <2>1
  <2>3. \A m \in DOMAIN G : r < m => \A x \in Lsns(G[m].recs) : l < x
    BY <1>2, <1>7, <1>10, <2>2 DEF Gone
  <2> QED BY <1>2, <2>2, <2>3 DEF Gone
<1>11. DirInv(G, {}, A2, cov)
  BY <1>4, <1>8, <1>9, <1>10 DEF DirInv
<1> QED BY <1>0, <1>2, <1>9, <1>11

----------------------------------------------------------------------------
\* The file removeLastLogFile asks for is below the live segment, unless
\* MaxSegments is 1.
LEMMA RemovesOlder ==
  ASSUME NEW L, IsLog(L), \A n \in DOMAIN L.segs : n <= L.last,
         Full(L.segs), MaxSegments # 1
  PROVE  removeLastLogFile(L.last) \in Nat \ {0} /\ removeLastLogFile(L.last) < L.last
<1>1. DOMAIN L.segs \subseteq 1 .. L.last /\ L.last \in Nat
  BY DEF IsLog, IsDirectory
<1>2. IsFiniteSet(1 .. L.last) /\ Cardinality(1 .. L.last) = L.last
  <2>1. PICK m \in Nat : m = L.last
    BY <1>1
  <2>2. 1 \in Int /\ m \in Int
    OBVIOUS
  <2>3. IsFiniteSet(1 .. m) /\ Cardinality(1 .. m) = IF 1 > m THEN 0 ELSE m - 1 + 1
    BY <2>2, FS_Interval, Zenon
  <2> QED BY <2>1, <2>3
<1>3. /\ IsFiniteSet(DOMAIN L.segs)
      /\ Cardinality(DOMAIN L.segs) <= L.last
  BY <1>1, <1>2, FS_Subset
<1>4. Cardinality(DOMAIN L.segs) \in Nat
  BY <1>3, FS_CardinalityType
<1>5. MaxSegments <= L.last
  BY <1>1, <1>3, <1>4, MaxSegmentsAssumption DEF Full, countLogFiles
<1> QED BY <1>1, <1>5, MaxSegmentsAssumption DEF removeLastLogFile

\* The first half of addNewLogFile: a crash here leaves a good directory.
LEMMA RollStagesKeep ==
  ASSUME NEW L, NEW A \in SUBSET Nat, NEW cov \in Nat, LogInv(L, A, cov),
         NEW ls \in Nat, ls <= cov, MaxSegments # 1, ~ RollFails(L)
  PROVE  /\ DirInv(RollRemoved(L, ls), Lsns(L.buf), A, cov)
         /\ L.last \in DOMAIN RollRemoved(L, ls)
         /\ \A n \in DOMAIN RollRemoved(L, ls) : n <= L.last
         /\ DirInv(RollCreated(L, ls), Lsns(L.buf), A, cov)
         /\ DOMAIN RollCreated(L, ls) = DOMAIN RollRemoved(L, ls) \cup {L.last + 1}
         /\ RollCreated(L, ls)[L.last + 1] = EmptyFile
         /\ LsnsOnDisk(RollCreated(L, ls)) \subseteq LsnsOnDisk(L.segs)
<1> DEFINE S == L.segs  n == removeLastLogFile(L.last)  R == RollRemoved(L, ls)
<1>1. /\ IsLog(L) /\ L.last \in Nat /\ L.buf \in Seq(Entry) /\ L.last \in DOMAIN S
      /\ \A k \in DOMAIN S : k <= L.last
      /\ DirInv(S, Lsns(L.buf), A, cov) /\ Lsns(L.buf) \in SUBSET Nat
  BY LsnsType DEF LogInv, IsLog
<1>2. /\ DirInv(R, Lsns(L.buf), A, cov)
      /\ L.last \in DOMAIN R
      /\ DOMAIN R \subseteq DOMAIN S
      /\ LsnsOnDisk(R) \subseteq LsnsOnDisk(S)
  <2>1. CASE Full(S)
    <3>1. n \in Nat \ {0} /\ n < L.last
      BY <1>1, <2>1, RemovesOlder
    <3>2. ~ RemoveFails(S, n) /\ R = removeLogFile(S, n, ls)
      BY <2>1 DEF RollFails, RollRemoved
    <3> HIDE DEF n, R, S
    <3>3. /\ DirInv(R, Lsns(L.buf), A, cov)
          /\ DOMAIN R \in {DOMAIN S, DOMAIN S \ {n}}
          /\ LsnsOnDisk(R) \subseteq LsnsOnDisk(S)
      BY <1>1, <3>1, <3>2, RemoveKeeps
    <3> QED BY <1>1, <3>1, <3>3
  <2>2. CASE ~ Full(S)
    BY <1>1, <2>2 DEF RollRemoved
  <2> QED BY <2>1, <2>2
<1>3. \A k \in DOMAIN R : k < L.last + 1 /\ k <= L.last /\ k \in Nat
  BY <1>1, <1>2, DiskLsnsType DEF DirInv
<1>4. RollCreated(L, ls) = With(R, L.last + 1, EmptyFile)
  BY DEF RollCreated
<1> HIDE DEF R, S, n
<1>5. /\ DirInv(RollCreated(L, ls), Lsns(L.buf), A, cov)
      /\ LsnsOnDisk(RollCreated(L, ls)) = LsnsOnDisk(R)
  BY <1>1, <1>2, <1>3, <1>4, CreateKeeps
<1>6. /\ DOMAIN RollCreated(L, ls) = DOMAIN R \cup {L.last + 1}
      /\ RollCreated(L, ls)[L.last + 1] = EmptyFile
  BY <1>4 DEF With
<1> QED BY <1>2, <1>3, <1>5, <1>6 DEF R, S

\* addNewLogFile as a whole, acknowledging what the old buffer held.
LEMMA RollKeeps ==
  ASSUME NEW L, NEW A \in SUBSET Nat, NEW cov \in Nat, LogInv(L, A, cov),
         NEW ls \in Nat, ls <= cov, MaxSegments # 1, ~ RollFails(L),
         NEW A2 \in SUBSET (A \cup Lsns(L.buf))
  PROVE  /\ LogInv(addNewLogFile(L, ls), A2, cov)
         /\ addNewLogFile(L, ls).buf = << >>
         /\ addNewLogFile(L, ls).last = L.last + 1
         /\ LsnsOnDisk(addNewLogFile(L, ls).segs) \subseteq LsnsOnDisk(L.segs) \cup Lsns(L.buf)
<1> DEFINE C == RollCreated(L, ls)
           N == addNewLogFile(L, ls)
           F == FlushTo(C, L)
<1>1. /\ L.last \in Nat /\ L.buf \in Seq(Entry) /\ L.size \in Nat /\ Ordered(L.buf)
  BY DEF LogInv, IsLog
<1>2. /\ DirInv(C, Lsns(L.buf), A, cov)
      /\ L.last \in DOMAIN C
      /\ L.last + 1 \in DOMAIN C
      /\ \A n \in DOMAIN C : n <= L.last + 1
      /\ C[L.last + 1] = EmptyFile
      /\ LsnsOnDisk(C) \subseteq LsnsOnDisk(L.segs)
      /\ \A n \in DOMAIN C : n \in Nat
  <2> DEFINE R == RollRemoved(L, ls)
  <2>1. /\ L.last \in DOMAIN R
        /\ \A n \in DOMAIN R : n <= L.last
        /\ DirInv(C, Lsns(L.buf), A, cov)
        /\ DOMAIN C = DOMAIN R \cup {L.last + 1}
        /\ C[L.last + 1] = EmptyFile
        /\ LsnsOnDisk(C) \subseteq LsnsOnDisk(L.segs)
    BY RollStagesKeep
  <2> HIDE DEF R, C
  <2>2. \A n \in DOMAIN C : n \in Nat
    BY <2>1, DiskLsnsType DEF DirInv
  <2> QED BY <1>1, <2>1, <2>2
<1> HIDE DEF C
<1>3. \A n \in DOMAIN C : L.last < n => Lsns(C[n].recs) = {}
  <2>1. Lsns(EmptyFile.recs) = {}
    BY DEF Lsns, EmptyFile
  <2>2. \A n \in DOMAIN C : L.last < n => n = L.last + 1
    BY <1>1, <1>2
  <2> QED BY <1>2, <2>1, <2>2
<1>4. /\ DirInv(F, {}, A2, cov) /\ DOMAIN F = DOMAIN C
      /\ LsnsOnDisk(F) = LsnsOnDisk(C) \cup Lsns(L.buf)
  BY <1>1, <1>2, <1>3, FlushKeeps
<1>5. N = [segs |-> F, buf |-> << >>, last |-> L.last + 1, size |-> 0]
  BY DEF addNewLogFile, C
<1> HIDE DEF F, N
<1>6. N.segs = F /\ N.buf = << >> /\ N.last = L.last + 1 /\ N.size = 0
  BY <1>5
<1>7. Lsns(<< >>) = {} /\ Ordered(<< >>)
  BY DEF Lsns, Ordered
<1>8. IsLog(N)
  BY <1>1, <1>4, <1>5, <1>6 DEF IsLog, DirInv
<1>9. LogInv(N, A2, cov)
  BY <1>2, <1>4, <1>6, <1>7, <1>8 DEF LogInv
<1> QED BY <1>2, <1>4, <1>6, <1>9 DEF N

\* The flush of the timer.
LEMMA TimerFlushKeeps ==
  ASSUME NEW L, NEW A \in SUBSET Nat, NEW cov \in Nat, LogInv(L, A, cov),
         NEW A2 \in SUBSET (A \cup Lsns(L.buf))
  PROVE  /\ LogInv(flush(L), A2, cov)
         /\ flush(L).buf = << >>
         /\ LsnsOnDisk(flush(L).segs) = LsnsOnDisk(L.segs) \cup Lsns(L.buf)
<1> DEFINE F == FlushTo(L.segs, L)
           N == flush(L)
<1>1. /\ L.buf \in Seq(Entry) /\ L.size \in Nat /\ L.last \in Nat /\ Ordered(L.buf)
      /\ L.last \in DOMAIN L.segs /\ \A n \in DOMAIN L.segs : n <= L.last
      /\ DirInv(L.segs, Lsns(L.buf), A, cov)
      /\ \A n \in DOMAIN L.segs : n \in Nat
  BY DiskLsnsType DEF LogInv, IsLog, DirInv
<1>2. \A n \in DOMAIN L.segs : L.last < n => Lsns(L.segs[n].recs) = {}
  BY <1>1
<1>3. /\ DirInv(F, {}, A2, cov) /\ DOMAIN F = DOMAIN L.segs
      /\ LsnsOnDisk(F) = LsnsOnDisk(L.segs) \cup Lsns(L.buf)
  BY <1>1, <1>2, FlushKeeps
<1>4. N = [segs |-> F, buf |-> << >>, last |-> L.last, size |-> L.size]
  BY DEF flush
<1> HIDE DEF F, N
<1>5. N.segs = F /\ N.buf = << >> /\ N.last = L.last /\ N.size = L.size
  BY <1>4
<1>6. Lsns(<< >>) = {} /\ Ordered(<< >>)
  BY DEF Lsns, Ordered
<1>7. IsLog(N)
  BY <1>1, <1>3, <1>4, <1>5 DEF IsLog, DirInv
<1>8. LogInv(N, A2, cov)
  BY <1>1, <1>3, <1>5, <1>6, <1>7 DEF LogInv
<1> QED BY <1>3, <1>5, <1>8 DEF N

\* A record written to the buffer, numbered above all that came before.
LEMMA WriteKeeps ==
  ASSUME NEW L, NEW A \in SUBSET Nat, NEW cov \in Nat, LogInv(L, A, cov),
         NEW d \in Data, NEW x \in Nat,
         \A a \in LsnsOnDisk(L.segs) \cup Lsns(L.buf) \cup A : a < x
  PROVE  /\ LogInv(Written(L, d, x), A, cov)
         /\ Written(L, d, x).segs = L.segs
         /\ Lsns(Written(L, d, x).buf) = Lsns(L.buf) \cup {x}
<1> DEFINE e == [lsn |-> x, data |-> d]
           W == Written(L, d, x)
<1>1. /\ IsDirectory(L.segs) /\ L.buf \in Seq(Entry) /\ L.size \in Nat /\ L.last \in Nat
      /\ Ordered(L.buf) /\ DirInv(L.segs, Lsns(L.buf), A, cov)
      /\ L.last \in DOMAIN L.segs /\ \A n \in DOMAIN L.segs : n <= L.last
  BY DEF LogInv, IsLog
<1>2. e \in Entry /\ e.lsn = x
  BY DEF Entry
<1>3. Size[d] \in Nat
  BY SizeAssumption
<1>4. W = [segs |-> L.segs, buf |-> Append(L.buf, e), last |-> L.last, size |-> L.size + Size[d]]
  BY DEF Written
<1> HIDE DEF W, e
<1>5. /\ W.segs = L.segs /\ W.buf = Append(L.buf, e)
      /\ W.last = L.last /\ W.size = L.size + Size[d]
  BY <1>4
<1>6. /\ W.buf \in Seq(Entry) /\ Lsns(W.buf) = Lsns(L.buf) \cup {x} /\ Ordered(W.buf)
  BY <1>1, <1>2, <1>5, AppendLsns
<1>7. IsLog(W)
  BY <1>1, <1>3, <1>4, <1>5, <1>6 DEF IsLog
<1>8. DirInv(L.segs, Lsns(L.buf) \cup {x}, A, cov)
  BY <1>1, NumberKeeps
<1>9. LogInv(W, A, cov)
  BY <1>1, <1>5, <1>6, <1>7, <1>8 DEF LogInv
<1> QED BY <1>5, <1>6, <1>9 DEF W

\* What InitWAL reads off the files: a number at or above every record on disk
\* and every acknowledged one, whether or not its file is still there.
LEMMA LastSequenceNumberIsHighest ==
  ASSUME NEW S, NEW B, NEW A \in SUBSET Nat, NEW cov, DirInv(S, B, A, cov),
         NEW last \in DOMAIN S, \A n \in DOMAIN S : n <= last,
         findLastSequenceNumberInLogFile(S, last) # NoFile
  PROVE  /\ findLastSequenceNumberInLogFile(S, last) \in Nat
         /\ \A l \in LsnsOnDisk(S) \cup A : l <= findLastSequenceNumberInLogFile(S, last)
<1> DEFINE T == WalkStops(S, last)
           j == Max(T)
           q == findLastSequenceNumberInLogFile(S, last)
<1>1. /\ last \in Nat \ {0}
      /\ \A n \in DOMAIN S : /\ n \in Nat \ {0}
                            /\ S[n].recs \in Seq(Entry)
                            /\ Lsns(S[n].recs) \subseteq Nat
                            /\ Ordered(S[n].recs)
  BY DiskLsnsType DEF DirInv, OrderedDirectory
<1>2. j \in T /\ \A i \in T : i <= j
  BY <1>1, WalkStopsMax
<1>3. j \in 0 .. last /\ (j = 0 \/ j \notin DOMAIN S \/ S[j].recs # << >>)
  BY <1>2 DEF WalkStops
<1>4. \A i \in 0 .. last : j < i => i \in DOMAIN S /\ S[i].recs = << >>
  BY <1>2, <1>3 DEF WalkStops
<1>5. q = IF j = 0 THEN 0 ELSE IF j \notin DOMAIN S THEN NoFile ELSE S[j].recs[Len(S[j].recs)].lsn
  BY DEF findLastSequenceNumberInLogFile
<1> HIDE DEF j, q, T
<1>6. j = 0 \/ j \in DOMAIN S
  BY <1>5 DEF q
<1>7. \A n \in DOMAIN S : n > j => Lsns(S[n].recs) = {}
  BY <1>1, <1>3, <1>4 DEF Lsns
<1>8. CASE j = 0
  <2>1. q = 0
    BY <1>5, <1>8
  <2>2. LsnsOnDisk(S) = {}
    <3>1. \A n \in DOMAIN S : n > j
      BY <1>1, <1>8
    <3>2. \A n \in DOMAIN S : Lsns(S[n].recs) = {}
      BY <1>7, <3>1
    <3> QED BY <3>2 DEF LsnsOnDisk
  <2>3. \A l \in A : ~ Gone(S, B, l)
    BY <1>1, <1>4, <1>8 DEF Gone
  <2>4. \A l \in LsnsOnDisk(S) \cup A : FALSE
    BY <2>2, <2>3 DEF DirInv
  <2> QED BY <2>1, <2>4 DEF q
<1>9. CASE j # 0
  <2>1. j \in DOMAIN S /\ S[j].recs # << >> /\ q = S[j].recs[Len(S[j].recs)].lsn
    BY <1>3, <1>5, <1>6, <1>9
  <2>2. q \in Lsns(S[j].recs) /\ q \in Nat /\ \A x \in Lsns(S[j].recs) : x <= q
    BY <1>1, <2>1, LastIsHighest
  <2>3. \A l \in LsnsOnDisk(S) : l <= q
    <3> SUFFICES ASSUME NEW n \in DOMAIN S, NEW l \in Lsns(S[n].recs)
                 PROVE  l <= q
      BY DEF LsnsOnDisk
    <3>1. l \in Nat /\ n \in Nat /\ j \in Nat
      BY <1>1, <2>1
    <3>2. CASE n < j
      <4>1. \A m \in DOMAIN S : m < j => \A x \in Lsns(S[m].recs) : \A y \in Lsns(S[j].recs) : x < y
        BY <2>1 DEF DirInv, OrderedDirectory
      <4>2. l < q
        BY <2>2, <3>2, <4>1
      <4> QED BY <2>2, <3>1, <4>2
    <3>3. CASE n = j
      BY <2>2, <3>3
    <3>4. CASE n > j
      BY <1>7, <3>4
    <3> QED BY <3>1, <3>2, <3>3, <3>4
  <2>4. ASSUME NEW l \in A, Gone(S, B, l)
        PROVE  l <= q
    <3>1. PICK n \in DOMAIN S : \E r \in 1 .. (n - 1) :
            /\ r \notin DOMAIN S
            /\ \A m \in DOMAIN S : r < m => \A x \in Lsns(S[m].recs) : l < x
      BY <2>4 DEF Gone
    <3>2. PICK r \in 1 .. (n - 1) :
            /\ r \notin DOMAIN S
            /\ \A m \in DOMAIN S : r < m => \A x \in Lsns(S[m].recs) : l < x
      BY <3>1
    <3>3. r \in 0 .. last /\ r # j
      BY <1>1, <2>1, <3>2
    <3>4. r < j
      BY <1>1, <1>3, <1>4, <3>2, <3>3
    <3> QED BY <2>1, <2>2, <3>2, <3>4
  <2> QED BY <2>2, <2>3, <2>4 DEF DirInv, q
<1> QED BY <1>8, <1>9

----------------------------------------------------------------------------
\* appendEntry up to its first rollover.
LEMMA AfterFirstKeeps ==
  ASSUME NEW L, NEW A \in SUBSET Nat, NEW cov \in Nat, LogInv(L, A, cov),
         NEW ls \in Nat, ls <= cov, MaxSegments # 1,
         ~ (RollsFirst(L) /\ RollFails(L)),
         NEW A2 \in SUBSET (A \cup Lsns(L.buf)), ~ RollsFirst(L) => A2 \subseteq A
  PROVE  /\ LogInv(AfterFirst(L, ls), A2, cov)
         /\ LsnsOnDisk(AfterFirst(L, ls).segs) \subseteq LsnsOnDisk(L.segs) \cup Lsns(L.buf)
         /\ RollsFirst(L) => AfterFirst(L, ls).buf = << >> /\ AfterFirst(L, ls).last = L.last + 1
         /\ ~ RollsFirst(L) => AfterFirst(L, ls) = L
<1>1. CASE RollsFirst(L)
  <2>1. AfterFirst(L, ls) = addNewLogFile(L, ls)
    BY <1>1 DEF AfterFirst
  <2> QED BY <1>1, <2>1, RollKeeps, ZenonT(40)
<1>2. CASE ~ RollsFirst(L)
  <2>1. AfterFirst(L, ls) = L
    BY <1>2 DEF AfterFirst
  <2>2. LogInv(L, A2, cov)
    BY <1>2, ShrinkKeeps DEF LogInv
  <2> QED BY <1>2, <2>1, <2>2
<1> QED BY <1>1, <1>2

\* appendEntry up to the write of the record.
LEMMA AfterSecondKeeps ==
  ASSUME NEW L, NEW A \in SUBSET Nat, NEW cov \in Nat, LogInv(L, A, cov),
         NEW ls \in Nat, ls <= cov, MaxSegments # 1, NEW d \in Data,
         ~ (RollsFirst(L) /\ RollFails(L)),
         ~ (RollsSecond(L, d) /\ RollFails(AfterFirst(L, ls))),
         NEW A2 \in SUBSET (A \cup Lsns(L.buf)), ~ RollsSecond(L, d) => A2 \subseteq A
  PROVE  /\ LogInv(AfterSecond(L, d, ls), A2, cov)
         /\ LsnsOnDisk(AfterSecond(L, d, ls).segs) \subseteq LsnsOnDisk(L.segs) \cup Lsns(L.buf)
         /\ AfterSecond(L, d, ls).last >= L.last
         /\ RollsSecond(L, d) => AfterSecond(L, d, ls).buf = << >>
         /\ ~ RollsSecond(L, d) => AfterSecond(L, d, ls) = L
<1> DEFINE M == AfterFirst(L, ls)
           A3 == IF RollsFirst(L) THEN A \cup Lsns(L.buf) ELSE A
<1>1. L.size \in Nat /\ L.last \in Nat /\ Lsns(L.buf) \subseteq Nat
  BY LsnsType DEF LogInv, IsLog
<1>2. RollsFirst(L) => RollsSecond(L, d)
  BY <1>1, SizeAssumption, MaxSegmentSizeAssumption DEF RollsFirst, RollsSecond
<1>3. /\ LogInv(M, A3, cov)
      /\ LsnsOnDisk(M.segs) \subseteq LsnsOnDisk(L.segs) \cup Lsns(L.buf)
      /\ RollsFirst(L) => M.buf = << >> /\ M.last = L.last + 1
      /\ ~ RollsFirst(L) => M = L
  BY AfterFirstKeeps, ZenonT(40)
<1>4. A3 \in SUBSET Nat
  BY <1>1
<1>5. Lsns(<< >>) = {}
  BY DEF Lsns
<1> HIDE DEF M
<1>6. CASE RollsSecond(L, d)
  <2>1. AfterSecond(L, d, ls) = addNewLogFile(M, ls)
    BY <1>6 DEF AfterSecond, M
  <2>2. ~ RollFails(M) /\ A2 \in SUBSET (A3 \cup Lsns(M.buf))
    BY <1>3, <1>6 DEF M
  <2> HIDE DEF A3
  <2>3. /\ LogInv(addNewLogFile(M, ls), A2, cov)
        /\ addNewLogFile(M, ls).buf = << >>
        /\ addNewLogFile(M, ls).last = M.last + 1
        /\ LsnsOnDisk(addNewLogFile(M, ls).segs) \subseteq LsnsOnDisk(M.segs) \cup Lsns(M.buf)
    BY <1>3, <1>4, <2>2, RollKeeps, ZenonT(40)
  <2>4. LsnsOnDisk(M.segs) \cup Lsns(M.buf) \subseteq LsnsOnDisk(L.segs) \cup Lsns(L.buf)
    BY <1>3, <1>5
  <2>5. M.last + 1 >= L.last
    BY <1>1, <1>3
  <2> QED BY <1>6, <2>1, <2>3, <2>4, <2>5
<1>7. CASE ~ RollsSecond(L, d)
  <2>1. AfterSecond(L, d, ls) = L
    BY <1>2, <1>3, <1>7 DEF AfterSecond, M
  <2>2. LogInv(L, A2, cov)
    BY <1>7, ShrinkKeeps DEF LogInv
  <2> QED BY <1>1, <1>7, <2>1, <2>2
<1> QED BY <1>6, <1>7
----------------------------------------------------------------------------
\* A directory that only loses files.
LEMMA FewerGrown ==
  ASSUME NEW S, NEW T, NEW live, DOMAIN T \subseteq DOMAIN S, \A k \in DOMAIN T : T[k] = S[k]
  PROVE  OnlyGrown(S, T, live)
BY DEF OnlyGrown

\* A flush continues the file it writes to.
LEMMA FlushGrows ==
  ASSUME NEW S, IsDirectory(S), NEW T, NEW L, L.buf \in Seq(Entry), OnlyGrown(S, T, L.last),
         L.last \in DOMAIN S, L.last \in DOMAIN T, T[L.last] = S[L.last]
  PROVE  OnlyGrown(S, FlushTo(T, L), L.last)
<1> DEFINE k == L.last
           recs == S[k].recs \o L.buf
           F == FlushTo(T, L)
<1>1. S[k].recs \in Seq(Entry)
  BY DiskLsnsType
<1>2. \A i \in DOMAIN S[k].recs : i \in DOMAIN recs /\ recs[i] = S[k].recs[i]
  <2> DEFINE s == S[k].recs  t == L.buf
  <2>1. s \in Seq(Entry) /\ t \in Seq(Entry)
    BY <1>1
  <2> HIDE DEF s, t
  <2>2. /\ DOMAIN (s \o t) = 1 .. (Len(s) + Len(t))
        /\ DOMAIN s = 1 .. Len(s) /\ Len(s) \in Nat /\ Len(t) \in Nat
        /\ \A i \in 1 .. Len(s) : (s \o t)[i] = s[i]
    BY <2>1, ConcatProperties
  <2>3. \A i \in DOMAIN s : i \in DOMAIN (s \o t) /\ (s \o t)[i] = s[i]
    BY <2>2
  <2> QED BY <2>3 DEF s, t
<1>3. DOMAIN F = DOMAIN T /\ F[k].recs = recs /\ \A n \in DOMAIN T \ {k} : F[n] = T[n]
  BY DEF FlushTo, With
<1> HIDE DEF F, recs
<1>4. SUFFICES ASSUME NEW n \in DOMAIN F
               PROVE  \/ /\ n \in DOMAIN S
                         /\ \A i \in DOMAIN S[n].recs :
                              i \in DOMAIN F[n].recs /\ F[n].recs[i] = S[n].recs[i]
                         /\ n = k \/ F[n] = S[n]
                      \/ \A m \in DOMAIN S : m < n
  BY DEF OnlyGrown, F
<1>5. CASE n = k
  BY <1>2, <1>3, <1>5
<1>6. CASE n # k
  <2>1. n \in DOMAIN T /\ F[n] = T[n]
    BY <1>3, <1>6
  <2> QED BY <2>1 DEF OnlyGrown
<1> QED BY <1>5, <1>6

\* addNewLogFile and its stages: a file goes, the next one is created, the old
\* one is continued.
LEMMA RollGrows ==
  ASSUME NEW L, NEW A \in SUBSET Nat, NEW cov \in Nat, LogInv(L, A, cov),
         NEW ls \in Nat, ls <= cov, MaxSegments # 1, ~ RollFails(L)
  PROVE  /\ OnlyGrown(L.segs, RollRemoved(L, ls), L.last)
         /\ OnlyGrown(L.segs, RollCreated(L, ls), L.last)
         /\ OnlyGrown(L.segs, addNewLogFile(L, ls).segs, L.last)
         /\ DOMAIN addNewLogFile(L, ls).segs \subseteq DOMAIN L.segs \cup {L.last + 1}
<1> DEFINE S == L.segs  R == RollRemoved(L, ls)  C == RollCreated(L, ls)
           F == addNewLogFile(L, ls).segs
<1>1. /\ IsDirectory(S) /\ L.last \in Nat /\ L.buf \in Seq(Entry) /\ L.last \in DOMAIN S
      /\ \A k \in DOMAIN S : k <= L.last /\ k \in Nat
  BY DEF LogInv, IsLog, IsDirectory
<1>2. L.last \in DOMAIN R /\ DOMAIN C = DOMAIN R \cup {L.last + 1}
  BY RollStagesKeep, ZenonT(40)
<1>3. DOMAIN R \subseteq DOMAIN S /\ \A k \in DOMAIN R : R[k] = S[k]
  BY DEF RollRemoved, removeLogFile, Without
<1>4. \A k \in DOMAIN R : C[k] = R[k]
  <2>1. \A k \in DOMAIN R : k # L.last + 1
    BY <1>1, <1>3
  <2> QED BY <2>1 DEF RollCreated, With
<1>5. F = FlushTo(C, L) /\ DOMAIN F = DOMAIN C
  BY DEF addNewLogFile, FlushTo, With
<1> HIDE DEF R, C, F, S
<1>6. OnlyGrown(S, R, L.last)
  BY <1>3, FewerGrown
<1>7. OnlyGrown(S, C, L.last)
  <2> SUFFICES ASSUME NEW n \in DOMAIN C
               PROVE  (n \in DOMAIN S /\ C[n] = S[n]) \/ \A m \in DOMAIN S : m < n
    BY DEF OnlyGrown
  <2>1. CASE n \in DOMAIN R
    BY <1>3, <1>4, <2>1
  <2>2. CASE n = L.last + 1
    BY <1>1, <2>2
  <2> QED BY <1>2, <2>1, <2>2
<1>8. L.last \in DOMAIN C /\ C[L.last] = S[L.last]
  BY <1>2, <1>3, <1>4
<1>9. OnlyGrown(S, F, L.last)
  BY <1>1, <1>5, <1>7, <1>8, FlushGrows
<1> QED BY <1>2, <1>3, <1>5, <1>6, <1>7, <1>9 DEF R, C, F, S

\* Two rolls in a row: the file the first one created is the second one's to
\* continue, all others are as the first one left them.
LEMMA GrownTwice ==
  ASSUME NEW S, NEW T, NEW U, NEW live \in Nat,
         DOMAIN S \subseteq Nat, \A m \in DOMAIN S : m <= live,
         DOMAIN T \subseteq DOMAIN S \cup {live + 1}, live + 1 \in DOMAIN T,
         DOMAIN U \subseteq Nat,
         OnlyGrown(S, T, live), OnlyGrown(T, U, live + 1)
  PROVE  OnlyGrown(S, U, live)
<1> SUFFICES ASSUME NEW n \in DOMAIN U
             PROVE  \/ /\ n \in DOMAIN S
                       /\ \A i \in DOMAIN S[n].recs :
                            i \in DOMAIN U[n].recs /\ U[n].recs[i] = S[n].recs[i]
                       /\ n = live \/ U[n] = S[n]
                    \/ \A m \in DOMAIN S : m < n
  BY DEF OnlyGrown
<1>1. CASE \A m \in DOMAIN T : m < n
  <2>1. n \in Nat /\ live + 1 < n
    BY <1>1
  <2>2. \A m \in DOMAIN S : m < n
    BY <2>1
  <2> QED BY <2>2
<1>2. CASE n = live + 1
  <2>1. \A m \in DOMAIN S : m < n
    BY <1>2
  <2> QED BY <2>1
<1>3. CASE n # live + 1 /\ n \in DOMAIN T /\ U[n] = T[n]
  <2>1. n \in DOMAIN S /\ n \in Nat /\ ~ (n < n)
    BY <1>3
  <2>2. ~ \A m \in DOMAIN S : m < n
    BY <2>1
  <2> QED BY <1>3, <2>2 DEF OnlyGrown
<1>4. \/ \A m \in DOMAIN T : m < n
      \/ n \in DOMAIN T /\ (n = live + 1 \/ U[n] = T[n])
  BY DEF OnlyGrown
<1> QED BY <1>1, <1>2, <1>3, <1>4

\* appendEntry's first roll, and what a second one makes of its result.
LEMMA AfterFirstGrows ==
  ASSUME NEW L, NEW A \in SUBSET Nat, NEW cov \in Nat, LogInv(L, A, cov),
         NEW ls \in Nat, ls <= cov, MaxSegments # 1,
         ~ (RollsFirst(L) /\ RollFails(L))
  PROVE  /\ OnlyGrown(L.segs, AfterFirst(L, ls).segs, L.last)
         /\ ~ RollFails(AfterFirst(L, ls)) =>
              /\ OnlyGrown(L.segs, RollRemoved(AfterFirst(L, ls), ls), L.last)
              /\ OnlyGrown(L.segs, RollCreated(AfterFirst(L, ls), ls), L.last)
              /\ OnlyGrown(L.segs, addNewLogFile(AfterFirst(L, ls), ls).segs, L.last)
<1> DEFINE M == AfterFirst(L, ls)
<1>1. CASE ~ RollsFirst(L)
  <2>1. M = L
    BY <1>1 DEF AfterFirst
  <2>2. OnlyGrown(L.segs, L.segs, L.last)
    BY FewerGrown
  <2>3. ~ RollFails(L) => /\ OnlyGrown(L.segs, RollRemoved(L, ls), L.last)
                          /\ OnlyGrown(L.segs, RollCreated(L, ls), L.last)
                          /\ OnlyGrown(L.segs, addNewLogFile(L, ls).segs, L.last)
    BY RollGrows, ZenonT(40)
  <2> QED BY <2>1, <2>2, <2>3
<1>2. CASE RollsFirst(L)
  <2> DEFINE A2 == A \cup Lsns(L.buf)
  <2>1. M = addNewLogFile(L, ls)
    BY <1>2 DEF AfterFirst
  <2>2. /\ OnlyGrown(L.segs, M.segs, L.last)
        /\ DOMAIN M.segs \subseteq DOMAIN L.segs \cup {L.last + 1}
    BY <1>2, <2>1, RollGrows, ZenonT(40)
  <2>3. /\ L.last \in Nat /\ DOMAIN L.segs \subseteq Nat
        /\ \A m \in DOMAIN L.segs : m <= L.last
        /\ A2 \in SUBSET Nat
    BY LsnsType DEF LogInv, IsLog, IsDirectory
  <2>4. LogInv(M, A2, cov) /\ M.last = L.last + 1
    BY <1>2, <2>1, RollKeeps, ZenonT(40)
  <2> HIDE DEF M, A2
  <2>5. L.last + 1 \in DOMAIN M.segs
    BY <2>4 DEF LogInv
  <2>6. ASSUME ~ RollFails(M)
        PROVE  /\ OnlyGrown(M.segs, RollRemoved(M, ls), L.last + 1)
               /\ OnlyGrown(M.segs, RollCreated(M, ls), L.last + 1)
               /\ OnlyGrown(M.segs, addNewLogFile(M, ls).segs, L.last + 1)
               /\ DOMAIN RollRemoved(M, ls) \subseteq Nat
               /\ DOMAIN RollCreated(M, ls) \subseteq Nat
               /\ DOMAIN addNewLogFile(M, ls).segs \subseteq Nat
    <3>1. /\ OnlyGrown(M.segs, RollRemoved(M, ls), M.last)
          /\ OnlyGrown(M.segs, RollCreated(M, ls), M.last)
          /\ OnlyGrown(M.segs, addNewLogFile(M, ls).segs, M.last)
      BY <2>3, <2>4, <2>6, RollGrows, ZenonT(40)
    <3>2. /\ DirInv(RollRemoved(M, ls), Lsns(M.buf), A2, cov)
          /\ DirInv(RollCreated(M, ls), Lsns(M.buf), A2, cov)
      BY <2>3, <2>4, <2>6, RollStagesKeep, ZenonT(40)
    <3>3. A2 \in SUBSET (A2 \cup Lsns(M.buf))
      OBVIOUS
    <3>4. LogInv(addNewLogFile(M, ls), A2, cov)
      BY <2>3, <2>4, <2>6, <3>3, RollKeeps, ZenonT(40)
    <3> QED BY <2>4, <3>1, <3>2, <3>4 DEF DirInv, LogInv, IsLog, IsDirectory
  <2>7. ASSUME NEW U, DOMAIN U \subseteq Nat, OnlyGrown(M.segs, U, L.last + 1)
        PROVE  OnlyGrown(L.segs, U, L.last)
    BY <2>2, <2>3, <2>5, <2>7, GrownTwice
  <2> QED BY <2>2, <2>6, <2>7 DEF M
<1> QED BY <1>1, <1>2

-----------------------------------------------------------------------------
(* The steps of the log *)

\* Of a running process, IInv says LogInv of the open log.
LEMMA RunningLog ==
  ASSUME IInv, Running
  PROVE  /\ LogInv(log, acked, covered)
         /\ log.segs = segs /\ log.buf = buf /\ log.last = lastSegmentNo
         /\ log.size = curSegmentSize
         /\ acked \in SUBSET Nat /\ covered \in Nat
         /\ lastSnapshot \in Nat /\ lastSnapshot <= covered
         /\ lastSequenceNo \in Nat
         /\ \A l \in LsnsOnDisk(segs) \cup Lsns(buf) \cup acked : l <= lastSequenceNo
         /\ {lsn[c] : c \in Waiting} \subseteq Lsns(buf)
<1>1. /\ log.segs = segs /\ log.buf = buf /\ log.last = lastSegmentNo
      /\ log.size = curSegmentSize
  BY DEF log
<1>2. LogInv(log, acked, covered)
  BY <1>1 DEF IInv, TypeOK, LiveSegment, LogInv, IsLog, DirInv
<1>3. {lsn[c] : c \in Waiting} \subseteq Lsns(buf)
  BY DEF IInv, WaitersBuffered, Waiting
<1>4. /\ acked \in SUBSET Nat /\ covered \in Nat
      /\ lastSnapshot \in Nat /\ lastSequenceNo \in Nat
  BY DEF IInv, TypeOK
<1>5. lastSnapshot <= covered
  BY DEF IInv, SnapshotBounds
<1>6. \A l \in LsnsOnDisk(segs) \cup Lsns(buf) \cup acked : l <= lastSequenceNo
  BY DEF IInv, NumberedSoFar, AckedBelowNext
<1> QED BY <1>1, <1>2, <1>3, <1>4, <1>5, <1>6

\* The parts of IInv that LogInv gives back, for a step that leaves the
\* process running.
LEMMA RunningLogBack ==
  ASSUME NEW L, SetLog(L), LogInv(L, acked', covered'), Running'
  PROVE  /\ DirInv(segs', Lsns(buf'), acked', covered')
         /\ Ordered(buf') /\ LiveSegment' /\ HasLast'
         /\ IsDirectory(segs') /\ buf' \in Seq(Entry)
         /\ lastSegmentNo' \in Nat /\ curSegmentSize' \in Nat
<1>1. /\ L.segs = segs' /\ L.buf = buf' /\ L.last = lastSegmentNo'
      /\ L.size = curSegmentSize'
  BY DEF SetLog
<1> QED BY <1>1 DEF LogInv, IsLog, LiveSegment, HasLast

\* Both initial directories, the empty one and the one with a snapshot, satisfy IInv.
LEMMA InitIInv == Init => IInv
<1> SUFFICES ASSUME Init
             PROVE  IInv
  OBVIOUS
<1>1. Lsns(<< >>) = {} /\ Ordered(<< >>)
  BY DEF Lsns, Ordered
<1>2. IsDirectory(segs) /\ OrderedDirectory(segs) /\ HasLast /\ acked \subseteq LsnsOnDisk(segs)
  <2>1. CASE StartSegment = 0
    <3>1. segs = EmptyDirectory /\ acked = {}
      BY <2>1 DEF Init, InitialSegs
    <3> QED BY <3>1 DEF EmptyDirectory, IsDirectory, OrderedDirectory, HasLast
  <2>2. CASE StartSegment # 0
    <3>1. PICK d \in Data :
            segs = With(EmptyDirectory, StartSegment,
                        [recs |-> <<[lsn |-> StartSegment, data |-> d]>>, size |-> Size[d]])
      BY <2>2 DEF Init, InitialSegs
    <3> DEFINE recs == <<[lsn |-> StartSegment, data |-> d]>>
               file == [recs |-> recs, size |-> Size[d]]
    <3>2. [lsn |-> StartSegment, data |-> d] \in Entry
      BY StartAssumption DEF Entry
    <3>3. recs \in Seq(Entry) /\ Ordered(recs) /\ Lsns(recs) = {StartSegment}
      BY <3>2 DEF Ordered, Lsns
    <3>4. file \in SegmentFile /\ file.recs = recs
      BY <3>3, SizeAssumption DEF SegmentFile
    <3>5. DOMAIN segs = {StartSegment} /\ segs[StartSegment] = file
          /\ segs = [m \in {StartSegment} |-> file]
      BY <3>1 DEF With, EmptyDirectory
    <3> HIDE DEF file, recs
    <3>6. StartSegment \in Nat \ {0}
      BY <2>2, StartAssumption
    <3>7. IsDirectory(segs)
      BY <3>4, <3>5, <3>6 DEF IsDirectory
    <3>8. OrderedDirectory(segs)
      BY <3>3, <3>4, <3>5, <3>6 DEF OrderedDirectory
    <3>9. HasLast
      BY <3>5, <3>6 DEF HasLast
    <3>10. acked = {StartSegment} /\ LsnsOnDisk(segs) = {StartSegment}
      BY <2>2, <3>3, <3>4, <3>5 DEF Init, LsnsOnDisk
    <3> QED BY <3>7, <3>8, <3>9, <3>10
  <2> QED BY <2>1, <2>2
<1>3. TypeOK
  BY <1>2, StartAssumption DEF Init, Down, TypeOK, SnapIdle, NoSnapshot
<1>4. DirInv(segs, Lsns(buf), acked, covered)
  BY <1>1, <1>2 DEF Init, Down, DirInv
<1>5. ~ Running
  BY DEF Init, Down, Running
<1>6. SnapshotBounds /\ WaitersBuffered /\ Idle /\ Ordered(buf)
  BY <1>1, StartAssumption
  DEF Init, Down, SnapshotBounds, WaitersBuffered, Idle, SnapIdle, NoSnapshot
<1> QED BY <1>2, <1>3, <1>4, <1>5, <1>6
        DEF IInv, LiveSegment, NumberedSoFar, AckedBelowNext

----------------------------------------------------------------------------
\* InitWAL numbers on from above everything acknowledged.
LEMMA BootKeeps ==
  ASSUME IInv, Boot
  PROVE  IInv'
<1>1. /\ mode = "down" /\ Lsns(buf) = {} /\ acked \in SUBSET Nat /\ covered \in Nat
      /\ DirInv(segs, {}, acked, covered) /\ IsDirectory(segs)
      /\ pc = [c \in Callers |-> "idle"]
  <2>1. mode = "down" /\ buf = << >> /\ pc = [c \in Callers |-> "idle"]
    BY DEF Boot, IInv, Idle
  <2>2. Lsns(buf) = {}
    BY <2>1 DEF Lsns
  <2> QED BY <2>1, <2>2 DEF IInv, TypeOK
<1>2. Running' /\ acked' = acked /\ covered' = covered /\ pc' = pc /\ lsn' = lsn
  BY DEF Boot, Running
<1>3. Lsns(<< >>) = {} /\ Ordered(<< >>)
  BY DEF Lsns, Ordered
<1>4. \E L : /\ SetLog(L) /\ LogInv(L, acked, covered)
             /\ L.buf = << >> /\ lastSequenceNo' \in Nat
             /\ \A l \in LsnsOnDisk(L.segs) \cup acked : l <= lastSequenceNo'
  <2>1. CASE segs = EmptyDirectory
    <3> DEFINE E == [segs |-> segs, buf |-> << >>, last |-> 0, size |-> 0]
               N == addNewLogFile(E, 0)
               C == With(segs, 1, EmptyFile)
    <3>1. DOMAIN segs = {}
      BY <2>1 DEF EmptyDirectory
    <3>2. ~ Full(segs)
      BY <3>1, FS_EmptySet, MaxSegmentsAssumption DEF Full, countLogFiles
    <3>3. N = [segs |-> C, buf |-> << >>, last |-> 1, size |-> 0]
      <4>1. RollRemoved(E, 0) = segs
        BY <3>2 DEF RollRemoved
      <4>2. RollCreated(E, 0) = C
        BY <4>1 DEF RollCreated
      <4>3. 0 \notin DOMAIN C
        BY <3>1 DEF With
      <4>4. FlushTo(RollCreated(E, 0), E) = C
        BY <4>2, <4>3 DEF FlushTo
      <4> QED BY <4>4 DEF addNewLogFile
    <3>4. SetLog(N) /\ lastSequenceNo' = 0
      BY <2>1 DEF Boot, InitWAL
    <3> HIDE DEF N
    <3>5. N.segs = C /\ N.buf = << >> /\ N.last = 1 /\ N.size = 0
      BY <3>3
    <3>6. DOMAIN C = {1}
      BY <3>1 DEF With
    <3>7. LsnsOnDisk(segs) = {}
      BY <3>1 DEF LsnsOnDisk
    <3> HIDE DEF C
    <3>8. DirInv(C, {}, acked, covered) /\ LsnsOnDisk(C) = LsnsOnDisk(segs)
      BY <1>1, <3>1, CreateKeeps DEF C
    <3>9. acked = {}
      <4>1. \A l \in acked : ~ Gone(segs, {}, l)
        BY <3>1 DEF Gone
      <4> QED BY <1>1, <3>7, <4>1 DEF DirInv
    <3>10. IsLog(N)
      BY <3>5, <3>8 DEF IsLog, DirInv
    <3>11. LogInv(N, acked, covered)
      <4>1. N.last \in DOMAIN N.segs /\ \A n \in DOMAIN N.segs : n <= N.last
        BY <3>5, <3>6
      <4>2. Ordered(N.buf) /\ DirInv(N.segs, Lsns(N.buf), acked, covered)
        BY <1>3, <3>5, <3>8
      <4> QED BY <3>10, <4>1, <4>2 DEF LogInv
    <3> QED BY <3>4, <3>5, <3>7, <3>8, <3>9, <3>11
  <2>2. CASE segs # EmptyDirectory
    <3> DEFINE last == findLastSegmentNumber(segs)
               N == [segs |-> segs, buf |-> << >>, last |-> last, size |-> segs[last].size]
    <3>1. PICK n \in DOMAIN segs : \A m \in DOMAIN segs : m <= n
      BY <2>2 DEF IInv, HasLast
    <3>2. last = n
      BY <1>1, <3>1, MaxIs DEF findLastSegmentNumber, IsDirectory
    <3>3. /\ SetLog(N)
          /\ lastSequenceNo' = findLastSequenceNumberInLogFile(segs, last)
          /\ findLastSequenceNumberInLogFile(segs, last) # NoFile
      BY <2>2 DEF Boot, InitWAL, CanBoot
    <3>4. N.segs = segs /\ N.buf = << >> /\ N.last = last /\ N.size = segs[last].size
      OBVIOUS
    <3>5. last \in DOMAIN segs /\ last \in Nat /\ segs[last].size \in Nat
          /\ \A m \in DOMAIN segs : m <= last
      BY <1>1, <3>1, <3>2, DiskLsnsType
    <3> HIDE DEF last, N
    <3>6. /\ lastSequenceNo' \in Nat
          /\ \A l \in LsnsOnDisk(segs) \cup acked : l <= lastSequenceNo'
      BY <1>1, <3>3, <3>5, LastSequenceNumberIsHighest
    <3>7. IsLog(N)
      BY <1>1, <3>4, <3>5 DEF IsLog
    <3>8. LogInv(N, acked, covered)
      BY <1>1, <1>3, <3>4, <3>5, <3>7 DEF LogInv
    <3> QED BY <3>3, <3>4, <3>6, <3>8
  <2> QED BY <2>1, <2>2
<1>5. PICK L : /\ SetLog(L) /\ LogInv(L, acked, covered)
               /\ L.buf = << >> /\ lastSequenceNo' \in Nat
               /\ \A l \in LsnsOnDisk(L.segs) \cup acked : l <= lastSequenceNo'
  BY <1>4
<1>6. /\ DirInv(segs', Lsns(buf'), acked', covered')
      /\ Ordered(buf') /\ LiveSegment' /\ HasLast'
      /\ IsDirectory(segs') /\ buf' \in Seq(Entry)
      /\ lastSegmentNo' \in Nat /\ curSegmentSize' \in Nat
  BY <1>2, <1>5, RunningLogBack
<1>7. segs' = L.segs /\ buf' = << >>
  BY <1>5 DEF SetLog
<1>8. TypeOK'
  BY <1>2, <1>5, <1>6 DEF IInv, TypeOK, Boot
<1>9. NumberedSoFar' /\ AckedBelowNext'
  BY <1>2, <1>3, <1>5, <1>7 DEF NumberedSoFar, AckedBelowNext
<1>10. WaitersBuffered' /\ Idle'
  BY <1>1, <1>2 DEF WaitersBuffered, Idle, Running
<1>11. SnapshotBounds'
  BY <1>1, <1>2 DEF IInv, SnapshotBounds, Boot, Running
<1> QED BY <1>6, <1>8, <1>9, <1>10, <1>11 DEF IInv

----------------------------------------------------------------------------
\* appendEntry fails in its second rollover.
LEMMA AppendFailsSecondKeeps ==
  ASSUME IInv, MaxSegments # 1, NEW c \in Callers, NEW d \in Data, AppendFailsSecond(c, d)
  PROVE  IInv'
<1> DEFINE M == AfterFirst(log, lastSnapshot)
<1>1. Running /\ Running' /\ mode' = mode /\ covered' = covered
  BY DEF AppendFailsSecond, MayAppend, Running
<1>2. /\ LogInv(log, acked, covered)
      /\ log.segs = segs /\ log.buf = buf /\ log.last = lastSegmentNo
      /\ acked \in SUBSET Nat /\ covered \in Nat
      /\ lastSnapshot \in Nat /\ lastSnapshot <= covered
      /\ lastSequenceNo \in Nat
      /\ \A l \in LsnsOnDisk(segs) \cup Lsns(buf) \cup acked : l <= lastSequenceNo
      /\ {lsn[x] : x \in Waiting} \subseteq Lsns(buf)
  BY <1>1, RunningLog
<1>3. /\ SetLog(M) /\ ~ (RollsFirst(log) /\ RollFails(log))
      /\ lastSequenceNo' = lastSequenceNo + 1
      /\ lsn' = lsn /\ snap' = snap /\ snapshot' = snapshot /\ lastSnapshot' = lastSnapshot
  BY DEF AppendFailsSecond, FirstRollFails
<1>4. acked' \in SUBSET (acked \cup Lsns(buf)) /\ (~ RollsFirst(log) => acked' \subseteq acked)
  BY <1>2 DEF AppendFailsSecond
<1>5. /\ LogInv(M, acked', covered)
      /\ LsnsOnDisk(M.segs) \subseteq LsnsOnDisk(segs) \cup Lsns(buf)
      /\ RollsFirst(log) => M.buf = << >> /\ M.last = lastSegmentNo + 1
      /\ ~ RollsFirst(log) => M = log
  BY <1>2, <1>3, <1>4, AfterFirstKeeps, ZenonT(40)
<1> HIDE DEF M
<1>6. /\ DirInv(segs', Lsns(buf'), acked', covered')
      /\ Ordered(buf') /\ LiveSegment' /\ HasLast'
      /\ IsDirectory(segs') /\ buf' \in Seq(Entry)
      /\ lastSegmentNo' \in Nat /\ curSegmentSize' \in Nat
  BY <1>1, <1>3, <1>5, RunningLogBack
<1>7. segs' = M.segs /\ buf' = M.buf /\ lastSegmentNo' = M.last
  BY <1>3 DEF SetLog
<1>8. Lsns(<< >>) = {}
  BY DEF Lsns
<1>9. LsnsOnDisk(segs') \cup Lsns(buf') \cup acked' \subseteq LsnsOnDisk(segs) \cup Lsns(buf) \cup acked
  BY <1>2, <1>4, <1>5, <1>7, <1>8
<1>10. /\ LsnsOnDisk(segs) \cup Lsns(buf) \cup acked \subseteq Nat
  BY <1>2, DiskLsnsType, LsnsType DEF LogInv, IsLog
<1>11. NumberedSoFar' /\ AckedBelowNext'
  <2>1. \A l \in LsnsOnDisk(segs') \cup Lsns(buf') \cup acked' : l <= lastSequenceNo'
    BY <1>2, <1>3, <1>9, <1>10
  <2> QED BY <2>1 DEF NumberedSoFar, AckedBelowNext
<1>12. /\ pc' \in [Callers -> {"idle", "waiting", "released", "failed"}]
       /\ \A x \in Callers : pc'[x] = "waiting" => pc[x] = "waiting" /\ ~ RollsFirst(log)
  BY DEF AppendFailsSecond, Released, Waiting, IInv, TypeOK
<1>13. WaitersBuffered'
  BY <1>2, <1>3, <1>5, <1>7, <1>12 DEF IInv, WaitersBuffered
<1>14. TypeOK'
  <2>1. acked' \in SUBSET Nat /\ lastSequenceNo' \in Nat
    BY <1>2, <1>3, <1>4, <1>10
  <2> QED BY <1>1, <1>3, <1>6, <1>12, <2>1 DEF IInv, TypeOK
<1>15. SnapshotBounds'
  <2>1. lastSegmentNo' >= lastSegmentNo
    BY <1>2, <1>5, <1>6, <1>7 DEF IInv, TypeOK
  <2>2. snap.seg \in Nat /\ lastSegmentNo \in Nat
    BY DEF IInv, TypeOK
  <2> QED BY <1>1, <1>3, <1>6, <2>1, <2>2 DEF IInv, SnapshotBounds
<1>16. Idle'
  BY <1>1 DEF Idle, Running
<1> QED BY <1>6, <1>11, <1>13, <1>14, <1>15, <1>16 DEF IInv

\* appendEntry buffers the record under a new number.
LEMMA AppendSucceedsKeeps ==
  ASSUME IInv, MaxSegments # 1, NEW c \in Callers, NEW d \in Data, AppendSucceeds(c, d)
  PROVE  IInv'
<1> DEFINE x == lastSequenceNo + 1
           M == AfterSecond(log, d, lastSnapshot)
           W == Written(M, d, x)
<1>1. Running /\ Running' /\ mode' = mode /\ covered' = covered
  BY DEF AppendSucceeds, MayAppend, Running
<1>2. /\ LogInv(log, acked, covered)
      /\ log.segs = segs /\ log.buf = buf /\ log.last = lastSegmentNo
      /\ acked \in SUBSET Nat /\ covered \in Nat
      /\ lastSnapshot \in Nat /\ lastSnapshot <= covered
      /\ lastSequenceNo \in Nat
      /\ \A l \in LsnsOnDisk(segs) \cup Lsns(buf) \cup acked : l <= lastSequenceNo
      /\ {lsn[y] : y \in Waiting} \subseteq Lsns(buf)
  BY <1>1, RunningLog
<1>3. /\ SetLog(W) /\ ~ (RollsFirst(log) /\ RollFails(log))
      /\ ~ (RollsSecond(log, d) /\ RollFails(AfterFirst(log, lastSnapshot)))
      /\ lastSequenceNo' = x
      /\ lsn' = [lsn EXCEPT ![c] = x]
      /\ snap' = snap /\ snapshot' = snapshot /\ lastSnapshot' = lastSnapshot
  BY DEF AppendSucceeds, FirstRollFails, SecondRollFails
<1>4. acked' \in SUBSET (acked \cup Lsns(buf)) /\ (~ RollsSecond(log, d) => acked' \subseteq acked)
  BY <1>2 DEF AppendSucceeds
<1>5. /\ LogInv(M, acked', covered)
      /\ LsnsOnDisk(M.segs) \subseteq LsnsOnDisk(segs) \cup Lsns(buf)
      /\ M.last >= lastSegmentNo
      /\ RollsSecond(log, d) => M.buf = << >>
      /\ ~ RollsSecond(log, d) => M = log
  BY <1>2, <1>3, <1>4, AfterSecondKeeps
<1>6. /\ LsnsOnDisk(segs) \cup Lsns(buf) \cup acked \subseteq Nat
      /\ acked' \in SUBSET Nat /\ x \in Nat
  <2>1. LsnsOnDisk(segs) \cup Lsns(buf) \cup acked \subseteq Nat
    BY <1>2, DiskLsnsType, LsnsType DEF LogInv, IsLog
  <2> QED BY <1>2, <1>4, <2>1
<1>7. Lsns(<< >>) = {}
  BY DEF Lsns
<1> HIDE DEF M
<1>8. LsnsOnDisk(M.segs) \cup Lsns(M.buf) \cup acked' \subseteq LsnsOnDisk(segs) \cup Lsns(buf) \cup acked
  BY <1>2, <1>4, <1>5, <1>7
<1>9. \A a \in LsnsOnDisk(M.segs) \cup Lsns(M.buf) \cup acked' : a < x
  BY <1>2, <1>6, <1>8
<1>10. /\ LogInv(W, acked', covered)
       /\ W.segs = M.segs
       /\ Lsns(W.buf) = Lsns(M.buf) \cup {x}
  <2> HIDE DEF x, W
  <2>1. LogInv(M, acked', covered) /\ covered \in Nat /\ acked' \in SUBSET Nat /\ x \in Nat
    BY <1>2, <1>5, <1>6
  <2> QED BY <1>9, <2>1, WriteKeeps DEF W
<1>11. W.last = M.last
  BY DEF Written
<1> HIDE DEF W
<1>12. /\ DirInv(segs', Lsns(buf'), acked', covered')
       /\ Ordered(buf') /\ LiveSegment' /\ HasLast'
       /\ IsDirectory(segs') /\ buf' \in Seq(Entry)
       /\ lastSegmentNo' \in Nat /\ curSegmentSize' \in Nat
  BY <1>1, <1>3, <1>10, RunningLogBack
<1>13. segs' = M.segs /\ Lsns(buf') = Lsns(M.buf) \cup {x} /\ lastSegmentNo' >= lastSegmentNo
  BY <1>3, <1>5, <1>10, <1>11 DEF SetLog
<1>14. NumberedSoFar' /\ AckedBelowNext'
  <2>1. \A l \in LsnsOnDisk(segs') \cup Lsns(buf') \cup acked' : l <= lastSequenceNo'
    BY <1>3, <1>6, <1>8, <1>9, <1>13
  <2> QED BY <2>1 DEF NumberedSoFar, AckedBelowNext
<1>15. /\ pc' \in [Callers -> {"idle", "waiting", "released", "failed"}]
       /\ \A y \in Callers \ {c} : pc'[y] = "waiting" => pc[y] = "waiting" /\ ~ RollsSecond(log, d)
  BY DEF AppendSucceeds, Released, Waiting, IInv, TypeOK
<1>16. lsn' \in [Callers -> Nat] /\ lsn'[c] = x /\ \A y \in Callers \ {c} : lsn'[y] = lsn[y]
  BY <1>3, <1>6 DEF IInv, TypeOK
<1>17. WaitersBuffered'
  <2> SUFFICES ASSUME NEW y \in Callers, pc'[y] = "waiting"
               PROVE  lsn'[y] \in Lsns(buf')
    BY DEF WaitersBuffered
  <2>1. CASE y = c
    BY <1>13, <1>16, <2>1
  <2>2. CASE y # c
    BY <1>2, <1>5, <1>13, <1>15, <1>16, <2>2 DEF IInv, WaitersBuffered
  <2> QED BY <2>1, <2>2
<1>18. TypeOK'
  BY <1>1, <1>3, <1>6, <1>12, <1>15, <1>16 DEF IInv, TypeOK
<1>19. SnapshotBounds'
  <2>1. snap.seg \in Nat /\ lastSegmentNo \in Nat
    BY DEF IInv, TypeOK
  <2> QED BY <1>1, <1>3, <1>12, <1>13, <2>1 DEF IInv, SnapshotBounds
<1>20. Idle'
  BY <1>1 DEF Idle, Running
<1> QED BY <1>12, <1>14, <1>17, <1>18, <1>19, <1>20 DEF IInv

\* The timer's flush lets every waiting caller go, its record on disk.
LEMMA FlushTickKeeps ==
  ASSUME IInv, FlushTick
  PROVE  IInv'
<1> DEFINE F == flush(log)
<1>1. Running /\ Running' /\ mode' = mode /\ covered' = covered
  BY DEF FlushTick, Running
<1>2. /\ LogInv(log, acked, covered)
      /\ log.segs = segs /\ log.buf = buf /\ log.last = lastSegmentNo
      /\ acked \in SUBSET Nat /\ covered \in Nat
      /\ \A l \in LsnsOnDisk(segs) \cup Lsns(buf) \cup acked : l <= lastSequenceNo
      /\ {lsn[x] : x \in Waiting} \subseteq Lsns(buf)
  BY <1>1, RunningLog
<1>3. /\ SetLog(F) /\ lastSequenceNo' = lastSequenceNo /\ lsn' = lsn
      /\ snap' = snap /\ snapshot' = snapshot /\ lastSnapshot' = lastSnapshot
      /\ pc' = Released
  BY DEF FlushTick
<1>4. acked' \in SUBSET (acked \cup Lsns(buf))
  BY <1>2 DEF FlushTick
<1>5. /\ LogInv(F, acked', covered)
      /\ F.buf = << >>
      /\ LsnsOnDisk(F.segs) = LsnsOnDisk(segs) \cup Lsns(buf)
  BY <1>2, <1>4, TimerFlushKeeps
<1>6. F.last = lastSegmentNo
  BY <1>2 DEF flush
<1> HIDE DEF F
<1>7. /\ DirInv(segs', Lsns(buf'), acked', covered')
      /\ Ordered(buf') /\ LiveSegment' /\ HasLast'
      /\ IsDirectory(segs') /\ buf' \in Seq(Entry)
      /\ lastSegmentNo' \in Nat /\ curSegmentSize' \in Nat
  BY <1>1, <1>3, <1>5, RunningLogBack
<1>8. segs' = F.segs /\ buf' = << >> /\ lastSegmentNo' = lastSegmentNo
  BY <1>3, <1>5, <1>6 DEF SetLog
<1>9. Lsns(<< >>) = {}
  BY DEF Lsns
<1>10. NumberedSoFar' /\ AckedBelowNext'
  <2>1. \A l \in LsnsOnDisk(segs') \cup Lsns(buf') \cup acked' : l <= lastSequenceNo'
    BY <1>2, <1>3, <1>4, <1>5, <1>8, <1>9
  <2> QED BY <2>1 DEF NumberedSoFar, AckedBelowNext
<1>11. /\ pc' \in [Callers -> {"idle", "waiting", "released", "failed"}]
       /\ \A x \in Callers : pc'[x] # "waiting"
  BY <1>3 DEF Released, Waiting, IInv, TypeOK
<1>12. TypeOK'
  <2>1. acked' \in SUBSET Nat
    BY <1>2, <1>4, LsnsType DEF IInv, TypeOK
  <2> QED BY <1>1, <1>3, <1>7, <1>11, <2>1 DEF IInv, TypeOK
<1>13. WaitersBuffered' /\ Idle'
  BY <1>1, <1>11 DEF WaitersBuffered, Idle, Running
<1>14. SnapshotBounds'
  BY <1>1, <1>3, <1>8 DEF IInv, SnapshotBounds
<1> QED BY <1>7, <1>10, <1>12, <1>13, <1>14 DEF IInv

\* A step of performCleanup removes only files below the live segment.
LEMMA CleanStepKeeps ==
  ASSUME IInv, CleanStep
  PROVE  IInv'
<1>1. /\ snap.pc = "cleaning" /\ Running /\ Running' /\ mode' = mode
      /\ snapshot' = snapshot /\ buf' = buf /\ lastSegmentNo' = lastSegmentNo
      /\ lastSequenceNo' = lastSequenceNo /\ curSegmentSize' = curSegmentSize
      /\ lastSnapshot' = lastSnapshot /\ pc' = pc /\ lsn' = lsn
      /\ acked' = acked /\ covered' = covered
  BY DEF CleanStep, IInv, SnapshotBounds, Running, counters
<1>2. /\ DirInv(segs, Lsns(buf), acked, covered)
      /\ lastSegmentNo \in DOMAIN segs /\ \A n \in DOMAIN segs : n <= lastSegmentNo
      /\ snap.seg \in Nat /\ snap.seg <= lastSegmentNo /\ lastSegmentNo \in Nat
      /\ lastSnapshot \in Nat /\ lastSnapshot <= covered /\ covered \in Nat
      /\ acked \in SUBSET Nat /\ Lsns(buf) \in SUBSET Nat
      /\ snap.pending \in SUBSET (Nat \ {0}) /\ buf \in Seq(Entry)
      /\ snap \in [pc : {"idle", "writing", "renamed", "published", "cleaning"},
                   seq : Nat, seg : Nat, pending : SUBSET (Nat \ {0})]
  BY <1>1, LsnsType DEF IInv, TypeOK, LiveSegment, SnapshotBounds
<1>3. PICK n \in snap.pending :
        IF n < snap.seg /\ RemoveFails(segs, n)
        THEN snap' = SnapIdle /\ UNCHANGED segs
        ELSE /\ snap' = IF snap.pending = {n}
                        THEN SnapIdle
                        ELSE [snap EXCEPT !.pending = @ \ {n}]
             /\ segs' = IF n < snap.seg THEN removeLogFile(segs, n, lastSnapshot) ELSE segs
  BY DEF CleanStep, BeforeSnapshot
<1>4. /\ DirInv(segs', Lsns(buf), acked, covered)
      /\ lastSegmentNo \in DOMAIN segs' /\ DOMAIN segs' \subseteq DOMAIN segs
      /\ LsnsOnDisk(segs') \subseteq LsnsOnDisk(segs)
  <2>1. CASE n < snap.seg /\ ~ RemoveFails(segs, n)
    <3>1. n \in Nat \ {0} /\ n < lastSegmentNo
      BY <1>2, <2>1
    <3>2. segs' = removeLogFile(segs, n, lastSnapshot)
      BY <1>3, <2>1
    <3>3. /\ DirInv(removeLogFile(segs, n, lastSnapshot), Lsns(buf), acked, covered)
          /\ DOMAIN removeLogFile(segs, n, lastSnapshot) \in {DOMAIN segs, DOMAIN segs \ {n}}
          /\ LsnsOnDisk(removeLogFile(segs, n, lastSnapshot)) \subseteq LsnsOnDisk(segs)
      BY <1>2, <2>1, <3>1, RemoveKeeps
    <3> QED BY <1>2, <3>1, <3>2, <3>3
  <2>2. CASE ~ (n < snap.seg /\ ~ RemoveFails(segs, n))
    <3>1. segs' = segs
      BY <1>3, <2>2
    <3> QED BY <1>2, <3>1
  <2> QED BY <2>1, <2>2
<1>5. /\ snap' \in [pc : {"idle", "writing", "renamed", "published", "cleaning"},
                    seq : Nat, seg : Nat, pending : SUBSET (Nat \ {0})]
      /\ snap'.pc \in {"idle", "cleaning"}
      /\ snap'.pc = "cleaning" => snap'.seg = snap.seg
  BY <1>1, <1>2, <1>3 DEF SnapIdle
<1>6. TypeOK'
  BY <1>1, <1>4, <1>5 DEF IInv, TypeOK, DirInv
<1>7. LiveSegment' /\ HasLast'
  BY <1>1, <1>2, <1>4 DEF LiveSegment, HasLast
<1>8. NumberedSoFar' /\ AckedBelowNext'
  BY <1>1, <1>4 DEF IInv, NumberedSoFar, AckedBelowNext
<1>9. WaitersBuffered' /\ Idle' /\ Ordered(buf')
  BY <1>1 DEF IInv, WaitersBuffered, Idle
<1>10. SnapshotBounds'
  BY <1>1, <1>2, <1>5 DEF IInv, SnapshotBounds
<1> QED BY <1>1, <1>4, <1>6, <1>7, <1>8, <1>9, <1>10 DEF IInv

\* What a crash leaves, given that the directory it leaves is good.
LEMMA LoseMemoryKeeps ==
  ASSUME IInv, LoseMemory, snapshot' = snapshot, covered' = covered, acked' \in SUBSET Nat,
         NEW B, DirInv(segs', B, acked', covered), HasLast'
  PROVE  IInv'
<1>1. Lsns(buf') = {} /\ Ordered(buf') /\ buf' \in Seq(Entry)
  BY DEF LoseMemory, Lsns, Ordered
<1>2. DirInv(segs', Lsns(buf'), acked', covered')
  BY <1>1, ShrinkKeeps
<1>3. TypeOK'
  <2>1. IsDirectory(segs')
    BY DEF DirInv
  <2> QED BY <1>1, <2>1 DEF LoseMemory, IInv, TypeOK, SnapIdle
<1>4. ~ Running'
  BY DEF LoseMemory, Running
<1>5. SnapshotBounds' /\ WaitersBuffered' /\ Idle'
  <2>1. covered \in Nat /\ snapshot <= covered
    BY DEF IInv, TypeOK, SnapshotBounds
  <2> QED BY <2>1 DEF LoseMemory, SnapshotBounds, WaitersBuffered, Idle, SnapIdle
<1> QED BY <1>1, <1>2, <1>3, <1>4, <1>5
        DEF IInv, LiveSegment, NumberedSoFar, AckedBelowNext

\* A crash between two steps keeps the files as they are.
LEMMA CrashKeeps ==
  ASSUME IInv, Crash
  PROVE  IInv'
<1>1. /\ LoseMemory /\ segs' = segs /\ snapshot' = snapshot
      /\ acked' = acked /\ covered' = covered
  BY DEF Crash, disk
<1>2. DirInv(segs', Lsns(buf), acked', covered) /\ acked' \in SUBSET Nat /\ HasLast'
  BY <1>1 DEF IInv, TypeOK, HasLast
<1> QED BY <1>1, <1>2, LoseMemoryKeeps

\* A crash inside addNewLogFile leaves a good directory too.
LEMMA CrashInRollKeeps ==
  ASSUME IInv, MaxSegments # 1, NEW c \in Callers, NEW d \in Data, CrashInRoll(c, d)
  PROVE  IInv'
<1>1. /\ LoseMemory /\ snapshot' = snapshot /\ covered' = covered /\ Running
      /\ ~ (RollsFirst(log) /\ RollFails(log))
  BY DEF CrashInRoll, MayAppend, Running, FirstRollFails
<1>2. /\ LogInv(log, acked, covered) /\ log.buf = buf
      /\ acked \in SUBSET Nat /\ covered \in Nat
      /\ lastSnapshot \in Nat /\ lastSnapshot <= covered
      /\ {lsn[x] : x \in Waiting} \subseteq Lsns(buf)
  BY <1>1, RunningLog
<1>3. Lsns(buf) \in SUBSET Nat
  BY LsnsType DEF IInv, TypeOK
<1>4. ASSUME NEW L, NEW A \in SUBSET Nat, LogInv(L, A, covered), ~ RollFails(L),
             segs' \in RollStages(L)
      PROVE  DirInv(segs', Lsns(L.buf), A, covered) /\ HasLast'
  <2> DEFINE R == RollRemoved(L, lastSnapshot)
             C == RollCreated(L, lastSnapshot)
  <2>1. /\ DirInv(R, Lsns(L.buf), A, covered)
        /\ L.last \in DOMAIN R
        /\ \A n \in DOMAIN R : n <= L.last
        /\ DirInv(C, Lsns(L.buf), A, covered)
        /\ DOMAIN C = DOMAIN R \cup {L.last + 1}
    BY <1>2, <1>4, RollStagesKeep
  <2>2. L.last \in Nat /\ \A n \in DOMAIN R : n \in Nat
    BY <1>4, <2>1, DiskLsnsType DEF LogInv, IsLog, DirInv
  <2>3. segs' = R \/ segs' = C
    BY <1>4 DEF RollStages
  <2> HIDE DEF R, C
  <2>4. \A n \in DOMAIN C : n <= L.last + 1
    BY <2>1, <2>2
  <2> QED BY <2>1, <2>3, <2>4 DEF HasLast
<1>5. CASE RollsFirst(log) /\ segs' \in RollStages(log) /\ acked' = acked
  <2>1. DirInv(segs', Lsns(buf), acked', covered) /\ HasLast'
    BY <1>1, <1>2, <1>4, <1>5
  <2> QED BY <1>1, <1>2, <1>5, <2>1, LoseMemoryKeeps
<1>6. CASE /\ RollsSecond(log, d) /\ ~ SecondRollFails(d)
           /\ segs' \in RollStages(AfterFirst(log, lastSnapshot))
           /\ acked' = IF RollsFirst(log) THEN acked \cup {lsn[x] : x \in Waiting} ELSE acked
  <2> DEFINE M == AfterFirst(log, lastSnapshot)
  <2>1. acked' \in SUBSET (acked \cup Lsns(buf)) /\ (~ RollsFirst(log) => acked' \subseteq acked)
    BY <1>2, <1>6
  <2>2. acked' \in SUBSET Nat
    BY <1>2, <1>3, <2>1
  <2>3. LogInv(M, acked', covered)
    BY <1>1, <1>2, <2>1, AfterFirstKeeps
  <2>4. ~ RollFails(M)
    BY <1>6 DEF SecondRollFails
  <2> HIDE DEF M
  <2>5. DirInv(segs', Lsns(M.buf), acked', covered) /\ HasLast'
    BY <1>4, <1>6, <2>2, <2>3, <2>4 DEF M
  <2> QED BY <1>1, <2>2, <2>5, LoseMemoryKeeps
<1> QED BY <1>5, <1>6 DEF CrashInRoll

----------------------------------------------------------------------------
\* Steps that leave the log alone.
LEMMA SameLogKeeps ==
  ASSUME IInv, segs' = segs, buf' = buf, lastSegmentNo' = lastSegmentNo,
         lastSequenceNo' = lastSequenceNo, acked' = acked,
         Running' <=> Running, covered' \in Nat, covered <= covered',
         TypeOK', WaitersBuffered', SnapshotBounds', Idle'
  PROVE  IInv'
<1>1. DirInv(segs', Lsns(buf'), acked', covered')
  BY DEF IInv, TypeOK, DirInv
<1> QED BY <1>1 DEF IInv, LiveSegment, HasLast, NumberedSoFar, AckedBelowNext

\* AppendEntry returns, or fails before it has changed anything.
LEMMA CallerStepKeeps ==
  ASSUME IInv, NEW c \in Callers,
         Return(c) \/ \E d \in Data : AppendFailsFirst(c, d)
  PROVE  IInv'
<1>1. /\ UNCHANGED <<segs, snapshot, mode, buf, lastSegmentNo, lastSequenceNo,
                     lastSnapshot, curSegmentSize, snap, acked, covered>>
      /\ pc' = [pc EXCEPT ![c] = "idle"] \/ pc' = [pc EXCEPT ![c] = "failed"]
      /\ lsn' = [lsn EXCEPT ![c] = 0] \/ lsn' = lsn
      /\ pc[c] \in {"released", "failed"} \/ mode # "down"
  BY DEF Return, AppendFailsFirst, MayAppend, disk, counters
<1>2. mode # "down"
  BY <1>1 DEF IInv, Idle
<1>3. TypeOK'
  <2>1. /\ pc \in [Callers -> {"idle", "waiting", "released", "failed"}]
        /\ lsn \in [Callers -> Nat]
    BY DEF IInv, TypeOK
  <2>2. pc' \in [Callers -> {"idle", "waiting", "released", "failed"}]
    BY <1>1, <2>1
  <2>3. lsn' \in [Callers -> Nat]
    BY <1>1, <2>1
  <2> QED BY <1>1, <2>2, <2>3 DEF IInv, TypeOK
<1>4. WaitersBuffered' /\ Idle'
  BY <1>1, <1>2 DEF IInv, TypeOK, WaitersBuffered, Idle
<1>5. SnapshotBounds' /\ (Running' <=> Running)
  BY <1>1 DEF IInv, SnapshotBounds, Running
<1>6. covered \in Nat
  BY DEF IInv, TypeOK
<1> QED BY <1>1, <1>3, <1>4, <1>5, <1>6, SameLogKeeps

\* The end of restore: the header that was read becomes lastSnapshot.
LEMMA RestoredKeeps ==
  ASSUME IInv, Restored
  PROVE  IInv'
<1>1. /\ UNCHANGED <<segs, snapshot, buf, lastSegmentNo, lastSequenceNo,
                     curSegmentSize, pc, lsn, snap, acked, covered>>
      /\ mode = "restoring" /\ mode' = "up" /\ lastSnapshot' = snapshot
  BY DEF Restored, counters
<1>2. snapshot \in Nat /\ snapshot <= covered /\ covered \in Nat
  BY <1>1 DEF IInv, TypeOK, SnapshotBounds
<1>3. Running /\ Running'
  BY <1>1 DEF Running
<1>4. TypeOK'
  BY <1>1, <1>2 DEF IInv, TypeOK
<1>5. WaitersBuffered' /\ Idle' /\ SnapshotBounds'
  BY <1>1, <1>2, <1>3 DEF IInv, WaitersBuffered, Idle, SnapshotBounds
<1> QED BY <1>1, <1>2, <1>3, <1>4, <1>5, SameLogKeeps

\* takeSnapshot up to its cleanup.
LEMMA SnapshotStepKeeps ==
  ASSUME IInv, SnapBegin \/ SnapFails \/ SnapRename \/ SnapPublish \/ SnapList
  PROVE  IInv'
<1>1. UNCHANGED <<segs, mode, buf, lastSegmentNo, lastSequenceNo,
                  curSegmentSize, pc, lsn, acked>>
  BY DEF SnapBegin, SnapFails, SnapRename, SnapPublish, SnapList, disk, counters
<1>2. /\ snap \in [pc : {"idle", "writing", "renamed", "published", "cleaning"},
                   seq : Nat, seg : Nat, pending : SUBSET (Nat \ {0})]
      /\ covered \in Nat /\ lastSequenceNo \in Nat /\ lastSegmentNo \in Nat
      /\ DOMAIN segs \subseteq Nat \ {0}
      /\ lastSnapshot \in Nat /\ snapshot \in Nat \cup {NoSnapshot}
      /\ snapshot <= covered /\ lastSnapshot <= covered
      /\ snap.pc = "renamed" => snap.seq <= covered
      /\ snap.pc # "idle" => Running /\ snap.seg <= lastSegmentNo
      /\ mode = "restoring" => snapshot # NoSnapshot
  BY DEF IInv, TypeOK, SnapshotBounds, IsDirectory
<1>3. Running' <=> Running
  BY <1>1 DEF Running
<1>4. /\ snap' \in [pc : {"idle", "writing", "renamed", "published", "cleaning"},
                    seq : Nat, seg : Nat, pending : SUBSET (Nat \ {0})]
      /\ covered' \in Nat /\ covered <= covered'
      /\ lastSnapshot' \in Nat /\ snapshot' \in Nat \cup {NoSnapshot}
      /\ SnapshotBounds'
  <2>1. CASE SnapBegin
    BY <1>1, <1>2, <2>1 DEF SnapBegin, SnapshotBounds, Running, disk
  <2>2. CASE SnapFails
    BY <1>1, <1>2, <2>2 DEF SnapFails, SnapshotBounds, Running, SnapIdle, disk
  <2>3. CASE SnapRename
    <3>1. /\ snap.pc = "writing" /\ snapshot' = snap.seq /\ lastSnapshot' = lastSnapshot
          /\ covered' = IF snap.seq > covered THEN snap.seq ELSE covered
          /\ snap' = [snap EXCEPT !.pc = "renamed"]
      BY <2>3 DEF SnapRename
    <3>2. /\ snap.seq \in Nat /\ snap'.pc = "renamed" /\ snap'.seq = snap.seq
          /\ snap'.seg = snap.seg
          /\ snap' \in [pc : {"idle", "writing", "renamed", "published", "cleaning"},
                         seq : Nat, seg : Nat, pending : SUBSET (Nat \ {0})]
      BY <1>2, <3>1
    <3>3. covered' \in Nat /\ covered <= covered' /\ snap.seq <= covered'
      BY <1>2, <3>1, <3>2
    <3>4. snapshot' # NoSnapshot
      BY <3>1, <3>2 DEF NoSnapshot
    <3> QED BY <1>1, <1>2, <1>3, <3>1, <3>2, <3>3, <3>4 DEF SnapshotBounds
  <2>4. CASE SnapPublish
    <3>1. /\ snap.pc = "renamed" /\ lastSnapshot' = snap.seq /\ snapshot' = snapshot
          /\ covered' = covered /\ snap' = [snap EXCEPT !.pc = "published"]
      BY <2>4 DEF SnapPublish, disk
    <3>2. /\ snap.seq \in Nat /\ snap'.pc = "published" /\ snap'.seg = snap.seg
          /\ snap' \in [pc : {"idle", "writing", "renamed", "published", "cleaning"},
                         seq : Nat, seg : Nat, pending : SUBSET (Nat \ {0})]
      BY <1>2, <3>1
    <3> QED BY <1>1, <1>2, <1>3, <3>1, <3>2 DEF SnapshotBounds
  <2>5. CASE SnapList
    <3>1. /\ snap.pc = "published" /\ lastSnapshot' = lastSnapshot /\ snapshot' = snapshot
          /\ covered' = covered
          /\ snap' = [snap EXCEPT !.pc = "cleaning", !.pending = DOMAIN segs]
      BY <2>5 DEF SnapList, disk
    <3>2. /\ snap'.pc = "cleaning" /\ snap'.seg = snap.seg
          /\ snap' \in [pc : {"idle", "writing", "renamed", "published", "cleaning"},
                         seq : Nat, seg : Nat, pending : SUBSET (Nat \ {0})]
      BY <1>2, <3>1
    <3> QED BY <1>1, <1>2, <1>3, <3>1, <3>2 DEF SnapshotBounds
  <2> QED BY <2>1, <2>2, <2>3, <2>4, <2>5
<1>5. TypeOK'
  BY <1>1, <1>4 DEF IInv, TypeOK
<1>6. WaitersBuffered' /\ Idle'
  BY <1>1 DEF IInv, WaitersBuffered, Idle
<1> QED BY <1>1, <1>3, <1>4, <1>5, <1>6, SameLogKeeps

\* A step that changes nothing.
LEMMA StutterKeeps ==
  ASSUME IInv, UNCHANGED vars
  PROVE  IInv'
<1>1. /\ segs' = segs /\ snapshot' = snapshot /\ mode' = mode /\ buf' = buf
      /\ lastSegmentNo' = lastSegmentNo /\ lastSequenceNo' = lastSequenceNo
      /\ lastSnapshot' = lastSnapshot /\ curSegmentSize' = curSegmentSize
      /\ pc' = pc /\ lsn' = lsn /\ snap' = snap /\ acked' = acked /\ covered' = covered
  BY DEF vars
<1>2. TypeOK' /\ WaitersBuffered' /\ SnapshotBounds' /\ Idle' /\ (Running' <=> Running)
  BY <1>1 DEF IInv, TypeOK, WaitersBuffered, SnapshotBounds, Idle, Running
<1>3. covered \in Nat
  BY DEF IInv, TypeOK
<1> QED BY <1>1, <1>2, <1>3, SameLogKeeps

\* IInv is inductive.
LEMMA NextIInv ==
  ASSUME IInv, MaxSegments # 1, [Next]_vars
  PROVE  IInv'
<1>1. CASE Boot
  BY <1>1, BootKeeps
<1>2. CASE BootFails
  BY <1>2, StutterKeeps DEF BootFails
<1>3. CASE Restored
  BY <1>3, RestoredKeeps
<1>4. ASSUME NEW c \in Callers, NEW d \in Data, AppendEntry(c, d)
      PROVE  IInv'
  BY <1>4, CallerStepKeeps, AppendFailsSecondKeeps, AppendSucceedsKeeps DEF AppendEntry
<1>5. CASE FlushTick
  BY <1>5, FlushTickKeeps
<1>6. ASSUME NEW c \in Callers, Return(c)
      PROVE  IInv'
  BY <1>6, CallerStepKeeps
<1>7. CASE SnapBegin \/ SnapFails \/ SnapRename \/ SnapPublish \/ SnapList
  BY <1>7, SnapshotStepKeeps
<1>8. CASE CleanStep
  BY <1>8, CleanStepKeeps
<1>9. CASE Crash
  BY <1>9, CrashKeeps
<1>10. ASSUME NEW c \in Callers, NEW d \in Data, CrashInRoll(c, d)
       PROVE  IInv'
  BY <1>10, CrashInRollKeeps
<1>11. CASE UNCHANGED vars
  BY <1>11, StutterKeeps
<1> QED BY <1>1, <1>2, <1>3, <1>4, <1>5, <1>6, <1>7, <1>8, <1>9, <1>10, <1>11 DEF Next

----------------------------------------------------------------------------
\* Start-up: the first file is created, or the directory stays as it is.
LEMMA BootGrows ==
  ASSUME Boot
  PROVE  OnlyGrown(segs, segs', lastSegmentNo)
<1>1. CASE segs = EmptyDirectory
  <2>1. \A m \in DOMAIN segs : FALSE
    BY <1>1 DEF EmptyDirectory
  <2> QED BY <2>1 DEF OnlyGrown
<1>2. CASE segs # EmptyDirectory
  <2>1. segs' = segs
    BY <1>2 DEF Boot, InitWAL, SetLog
  <2> QED BY <2>1, FewerGrown
<1> QED BY <1>1, <1>2

\* AppendEntry continues the live file and creates the next.
LEMMA AppendGrows ==
  ASSUME IInv, MaxSegments # 1, NEW c \in Callers, NEW d \in Data, AppendEntry(c, d)
  PROVE  OnlyGrown(segs, segs', lastSegmentNo)
<1> DEFINE M == AfterFirst(log, lastSnapshot)
<1>1. CASE AppendFailsFirst(c, d)
  <2>1. segs' = segs
    BY <1>1 DEF AppendFailsFirst, disk
  <2> QED BY <2>1, FewerGrown
<1>2. CASE AppendFailsSecond(c, d) \/ AppendSucceeds(c, d)
  <2>1. Running /\ ~ (RollsFirst(log) /\ RollFails(log))
    BY <1>2 DEF AppendFailsSecond, AppendSucceeds, MayAppend, Running, FirstRollFails
  <2>2. /\ LogInv(log, acked, covered)
        /\ log.segs = segs /\ log.last = lastSegmentNo
        /\ acked \in SUBSET Nat /\ covered \in Nat
        /\ lastSnapshot \in Nat /\ lastSnapshot <= covered
    BY <2>1, RunningLog
  <2>3. /\ OnlyGrown(segs, M.segs, lastSegmentNo)
        /\ ~ RollFails(M) => OnlyGrown(segs, addNewLogFile(M, lastSnapshot).segs, lastSegmentNo)
    BY <2>1, <2>2, AfterFirstGrows, ZenonT(40)
  <2>4. CASE AppendFailsSecond(c, d)
    <3>1. segs' = M.segs
      BY <2>4 DEF AppendFailsSecond, SetLog
    <3> QED BY <2>3, <3>1
  <2>5. CASE AppendSucceeds(c, d)
    <3>1. segs' = AfterSecond(log, d, lastSnapshot).segs
      BY <2>5 DEF AppendSucceeds, SetLog, Written
    <3>2. CASE RollsSecond(log, d)
      <4>1. AfterSecond(log, d, lastSnapshot) = addNewLogFile(M, lastSnapshot)
        BY <3>2 DEF AfterSecond
      <4>2. ~ RollFails(M)
        BY <2>5, <3>2 DEF AppendSucceeds, SecondRollFails
      <4> QED BY <2>3, <3>1, <4>1, <4>2
    <3>3. CASE ~ RollsSecond(log, d)
      <4>1. AfterSecond(log, d, lastSnapshot) = M
        BY <3>3 DEF AfterSecond
      <4> QED BY <2>3, <3>1, <4>1
    <3> QED BY <3>2, <3>3
  <2> QED BY <1>2, <2>4, <2>5
<1> QED BY <1>1, <1>2 DEF AppendEntry

\* The flush of the timer continues the live file.
LEMMA FlushTickGrows ==
  ASSUME IInv, FlushTick
  PROVE  OnlyGrown(segs, segs', lastSegmentNo)
<1>1. /\ LogInv(log, acked, covered)
      /\ log.segs = segs /\ log.last = lastSegmentNo
  BY RunningLog DEF FlushTick
<1>2. IsDirectory(segs) /\ log.buf \in Seq(Entry) /\ log.last \in DOMAIN segs
  BY <1>1 DEF LogInv, IsLog
<1>3. segs' = FlushTo(segs, log)
  BY <1>1 DEF FlushTick, SetLog, flush
<1>4. OnlyGrown(segs, segs, log.last)
  BY FewerGrown
<1>5. OnlyGrown(segs, FlushTo(segs, log), log.last)
  BY <1>2, <1>4, FlushGrows
<1> QED BY <1>1, <1>3, <1>5

\* The cleanup removes files and touches no other.
LEMMA CleanStepGrows ==
  ASSUME CleanStep
  PROVE  OnlyGrown(segs, segs', lastSegmentNo)
<1>1. segs' = segs \/ \E n \in snap.pending : segs' = removeLogFile(segs, n, lastSnapshot)
  BY DEF CleanStep
<1>2. DOMAIN segs' \subseteq DOMAIN segs /\ \A k \in DOMAIN segs' : segs'[k] = segs[k]
  BY <1>1 DEF removeLogFile, Without
<1> QED BY <1>2, FewerGrown

\* Nor does a rollover cut short by a crash.
LEMMA CrashInRollGrows ==
  ASSUME IInv, MaxSegments # 1, NEW c \in Callers, NEW d \in Data, CrashInRoll(c, d)
  PROVE  OnlyGrown(segs, segs', lastSegmentNo)
<1> DEFINE M == AfterFirst(log, lastSnapshot)
<1>1. Running /\ ~ (RollsFirst(log) /\ RollFails(log))
  BY DEF CrashInRoll, MayAppend, Running, FirstRollFails
<1>2. /\ LogInv(log, acked, covered)
      /\ log.segs = segs /\ log.last = lastSegmentNo
      /\ acked \in SUBSET Nat /\ covered \in Nat
      /\ lastSnapshot \in Nat /\ lastSnapshot <= covered
  BY <1>1, RunningLog
<1>3. CASE RollsFirst(log) /\ segs' \in RollStages(log)
  <2>1. /\ OnlyGrown(segs, RollRemoved(log, lastSnapshot), lastSegmentNo)
        /\ OnlyGrown(segs, RollCreated(log, lastSnapshot), lastSegmentNo)
    BY <1>1, <1>2, <1>3, RollGrows, ZenonT(40)
  <2> QED BY <1>3, <2>1 DEF RollStages
<1>4. CASE /\ RollsSecond(log, d) /\ ~ SecondRollFails(d)
           /\ segs' \in RollStages(M)
  <2>1. ~ RollFails(M)
    BY <1>4 DEF SecondRollFails
  <2>2. /\ OnlyGrown(segs, RollRemoved(M, lastSnapshot), lastSegmentNo)
        /\ OnlyGrown(segs, RollCreated(M, lastSnapshot), lastSegmentNo)
    BY <1>1, <1>2, <2>1, AfterFirstGrows, ZenonT(40)
  <2> QED BY <1>4, <2>2 DEF RollStages
<1> QED BY <1>3, <1>4 DEF CrashInRoll

\* Every step of the WAL.
LEMMA NextGrows ==
  ASSUME IInv, MaxSegments # 1, [Next]_vars
  PROVE  OnlyGrown(segs, segs', lastSegmentNo)
<1>1. ASSUME segs' = segs
      PROVE  OnlyGrown(segs, segs', lastSegmentNo)
  BY <1>1, FewerGrown
<1>2. CASE Boot
  BY <1>2, BootGrows
<1>3. CASE \/ Restored \/ SnapBegin \/ SnapFails \/ SnapRename \/ SnapPublish \/ SnapList
           \/ Crash \/ \E c \in Callers : Return(c)
  BY <1>1, <1>3 DEF Restored, SnapBegin, SnapFails, SnapRename, SnapPublish, SnapList,
                    Crash, Return, disk
<1>4. ASSUME NEW c \in Callers, NEW d \in Data, AppendEntry(c, d)
      PROVE  OnlyGrown(segs, segs', lastSegmentNo)
  BY <1>4, AppendGrows
<1>5. CASE FlushTick
  BY <1>5, FlushTickGrows
<1>6. CASE CleanStep
  BY <1>6, CleanStepGrows
<1>7. ASSUME NEW c \in Callers, NEW d \in Data, CrashInRoll(c, d)
      PROVE  OnlyGrown(segs, segs', lastSegmentNo)
  BY <1>7, CrashInRollGrows
<1>8. CASE BootFails \/ UNCHANGED vars
  BY <1>1, <1>8 DEF BootFails, vars
<1> QED BY <1>2, <1>3, <1>4, <1>5, <1>6, <1>7, <1>8 DEF Next

----------------------------------------------------------------------------
\* Every reachable state of the WAL satisfies the inductive invariant, for
\* every limit on the number of files but 1.
THEOREM Invariance == ASSUME MaxSegments # 1 PROVE Spec => []IInv
<1>1. Init => IInv
  BY InitIInv
<1>2. IInv /\ [Next]_vars => IInv'
  BY NextIInv
<1> QED BY <1>1, <1>2, PTL DEF Spec

\* The variables of the WAL keep their types: in particular a start never
\* takes a missing file for a sequence number.
THEOREM TypeCorrect == ASSUME MaxSegments # 1 PROVE Spec => []TypeOK
<1>1. IInv => TypeOK
  BY DEF IInv
<1> QED BY <1>1, Invariance, PTL

\* ReadAllEntries replays records in the order in which they were numbered.
THEOREM ReplayOrder == ASSUME MaxSegments # 1 PROVE Spec => []LogOrdered
<1>1. IInv => LogOrdered
  BY DEF IInv, DirInv, LogOrdered
<1> QED BY <1>1, Invariance, PTL

\* Rollover, cleanup and crashes never drop an acknowledged record that no
\* snapshot ever covered.
THEOREM AckedEntriesKept == ASSUME MaxSegments # 1 PROVE Spec => []NoAckedEntryDropped
<1>1. IInv => NoAckedEntryDropped
  BY DEF IInv, DirInv, NoAckedEntryDropped
<1> QED BY <1>1, Invariance, PTL

\* No acknowledged sequence number is issued again after a restart.
THEOREM AckedNumbersNotReissued == ASSUME MaxSegments # 1 PROVE Spec => []AckedBelowNext
<1>1. IInv => AckedBelowNext
  BY DEF IInv
<1> QED BY <1>1, Invariance, PTL

\* No file is written over or taken up again: a step removes files, continues
\* the live one or creates one behind all others.
THEOREM FilesAreNotRewritten == ASSUME MaxSegments # 1 PROVE Spec => FilesOnlyGrow
<1>1. IInv /\ [Next]_vars => [OnlyGrown(segs, segs', lastSegmentNo)]_vars
  BY NextGrows
<1> QED BY <1>1, Invariance, PTL DEF Spec, FilesOnlyGrow

=============================================================================
