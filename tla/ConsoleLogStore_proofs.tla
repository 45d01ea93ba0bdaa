----------------------- MODULE ConsoleLogStore_proofs -----------------------
(***************************************************************************)
(* Proofs about ConsoleLogStore, for any number of processes, records and  *)
(* clears, any limits, any time and any number of faults.  The invariants  *)
(* build on each other: LogBase (types, what an open section knows, the    *)
(* eviction flags), Forgetting (what a clear has reached), AllOrdered and  *)
(* AllInOrder (records and files are in the order of their making), and    *)
(* AllTidy (what a pass leaves of its source).                             *)
(***************************************************************************)
EXTENDS ConsoleLogStore, FiniteSetTheorems, WellFoundedInduction, TLAPS

----------------------------------------------------------------------------
(* Indices of files. *)
LEMMA LeastIndex ==
    ASSUME NEW T \in SUBSET Nat, T # {}
    PROVE  \E m \in T : \A k \in T : m <= k
<1> DEFINE R == OpToRel(<, Nat)
<1>1. R = {ss \in Nat \X Nat : ss[1] < ss[2]}
  BY DEF OpToRel
<1>2. PICK m \in T : \A k \in T : ~ <<k, m>> \in R
  <2> HIDE DEF R
  <2> QED BY NatLessThanWellFounded, WFMin DEF R
<1>3. ASSUME NEW k \in T PROVE m <= k
  <2>1. ~ <<k, m>> \in R
    BY <1>2
  <2> HIDE DEF R
  <2>2. k \in Nat /\ m \in Nat
    OBVIOUS
  <2> QED BY <1>1, <2>1, <2>2
<1> QED BY <1>3

(* The names of files, and directories of them. *)
FileNames == Sources \X Nat \X Nat
IsDisk(d) ==
    /\ DOMAIN d \subseteq FileNames /\ IsFiniteSet(DOMAIN d)
    /\ d \in [DOMAIN d -> Seq(RecordSet)]
LinesIn(d, f) == {d[f][n] : n \in DOMAIN d[f]}

LEMMA SourceTyped == SourceOf \in [Procs -> Sources] /\ NoProc \notin Procs /\ App \in Sources
BY LogConstants DEF LogConstants

LEMMA BoundsTyped ==
    /\ MaxTime \in Nat /\ MaxRecords \in Nat /\ MaxClears \in Nat /\ QueueCap \in Nat \ {0}
    /\ 0 \in Offsets /\ Offsets \subseteq Nat
BY LogConstants DEF LogConstants

USE SourceTyped

(* A name that is free is found: there are more indices than files, and    *)
(* the first that is free is taken.                                        *)
LEMMA FreeIndexIsFree ==
    ASSUME NEW d, IsDisk(d), NEW s \in Sources, NEW e \in Nat, NEW from \in Nat \ {0}
    PROVE  LET n == FreeIndex(d, s, e, from) IN
           /\ n \in Nat \ {0} /\ from <= n
           /\ <<s, e, n>> \notin DOMAIN d
           /\ <<s, e, from>> \notin DOMAIN d => n = from
<1> DEFINE card == Cardinality(DOMAIN d)
           range == from..(from + card)
           Found(n) == <<s, e, n>> \notin DOMAIN d /\ \A k \in from..(n - 1) : <<s, e, k>> \in DOMAIN d
           free == {n \in range : <<s, e, n>> \notin DOMAIN d}
<1>1. card \in Nat /\ IsFiniteSet(DOMAIN d)
  BY FS_CardinalityType DEF IsDisk
<1>2. IsFiniteSet(range) /\ Cardinality(range) = card + 1
  <2> HIDE DEF card
  <2>1. from \in Int /\ from + card \in Int /\ ~(from > from + card)
        /\ (from + card) - from + 1 = card + 1
    BY <1>1
  <2> QED BY <2>1, FS_Interval
<1>3. free # {}
  <2> SUFFICES ASSUME free = {} PROVE FALSE
    OBVIOUS
  <2> DEFINE g == [n \in range |-> <<s, e, n>>]
  <2>1. \A n \in range : <<s, e, n>> \in DOMAIN d
    OBVIOUS
  <2>2. g \in [range -> DOMAIN d]
    BY <2>1
  <2>3. \A m, n \in range : g[m] = g[n] => m = n
    OBVIOUS
  <2>4. card + 1 <= card
    <3> HIDE DEF g, range
    <3>1. card < Cardinality(range)
      <4> HIDE DEF card
      <4> QED BY <1>1, <1>2
    <3>2. \E m, n \in range : m # n /\ g[m] = g[n]
      BY <1>1, <1>2, <2>2, <3>1, FS_PigeonHole
    <3> QED BY <2>3, <3>2
  <2> HIDE DEF card
  <2> QED BY <1>1, <2>4
<1>4. PICK m \in free : \A k \in free : m <= k
  <2>1. free \in SUBSET Nat
    <3> HIDE DEF card
    <3> QED BY <1>1
  <2> HIDE DEF free
  <2> QED BY <1>3, <2>1, LeastIndex
<1>5. Found(m)
  <2> HIDE DEF card
  <2> QED BY <1>1, <1>4
<1> DEFINE n == FreeIndex(d, s, e, from)
<1>6. n = CHOOSE k \in range : Found(k)
  BY DEF FreeIndex
<1>7. m \in range
  OBVIOUS
<1>8. n \in range /\ Found(n)
  <2> HIDE DEF range, Found, n
  <2> QED BY <1>5, <1>6, <1>7
<1>9. /\ n \in Nat \ {0} /\ from <= n
      /\ <<s, e, n>> \notin DOMAIN d
      /\ <<s, e, from>> \notin DOMAIN d => n = from
  <2> HIDE DEF card, n
  <2> QED BY <1>1, <1>8
<1> QED BY <1>9

LEMMA AddedFile ==
    ASSUME NEW d, IsDisk(d), NEW f \in FileNames, f \notin DOMAIN d
    PROVE  /\ IsDisk(WithFile(d, f)) /\ DOMAIN WithFile(d, f) = DOMAIN d \cup {f}
           /\ WithFile(d, f)[f] = <<>> /\ \A g \in DOMAIN d : WithFile(d, f)[g] = d[g]
<1>1. IsFiniteSet(DOMAIN d \cup {f})
  BY FS_AddElement DEF IsDisk
<1> QED BY <1>1 DEF WithFile, IsDisk

LEMMA AddedToDisk ==
    ASSUME IsDisk(disk), NEW f \in FileNames, f \notin DOMAIN disk, disk' = WithFile(disk, f)
    PROVE  /\ DOMAIN disk' = DOMAIN disk \cup {f} /\ disk'[f] = <<>>
           /\ \A g \in DOMAIN disk : disk'[g] = disk[g]
<1>1. /\ DOMAIN WithFile(disk, f) = DOMAIN disk \cup {f} /\ WithFile(disk, f)[f] = <<>>
      /\ \A g \in DOMAIN disk : WithFile(disk, f)[g] = disk[g]
  BY AddedFile
<1> QED BY <1>1

LEMMA DroppedFiles ==
    ASSUME NEW d, IsDisk(d), NEW F
    PROVE  /\ IsDisk(Without(d, F)) /\ DOMAIN Without(d, F) = DOMAIN d \ F
           /\ \A g \in DOMAIN d \ F : Without(d, F)[g] = d[g]
<1>1. IsFiniteSet(DOMAIN d \ F)
  BY FS_Subset DEF IsDisk
<1> QED BY <1>1 DEF Without, IsDisk

(* The elements of a finite set of numbers have the ranks 1, 2, ... *)
RankIn(keep, n) == Cardinality({k \in keep : k <= n})

LEMMA Ranks ==
    ASSUME NEW keep \in SUBSET Nat, IsFiniteSet(keep)
    PROVE  /\ \A n \in keep : RankIn(keep, n) \in 1..Cardinality(keep)
           /\ \A m, n \in keep : RankIn(keep, m) = RankIn(keep, n) => m = n
           /\ \A i \in 1..Cardinality(keep) : \E n \in keep : RankIn(keep, n) = i
<1> DEFINE upto(n) == {k \in keep : k <= n}
<1>1. Cardinality(keep) \in Nat
  BY FS_CardinalityType
<1>2. ASSUME NEW n \in keep
      PROVE  /\ IsFiniteSet(upto(n)) /\ Cardinality(upto(n)) \in Nat
             /\ Cardinality(upto(n)) <= Cardinality(keep) /\ Cardinality(upto(n)) # 0
  <2>1. upto(n) \subseteq keep /\ upto(n) # {}
    OBVIOUS
  <2> HIDE DEF upto
  <2> QED BY <2>1, FS_Subset, FS_CardinalityType, FS_EmptySet
<1>3. ASSUME NEW m \in keep, NEW n \in keep, m < n
      PROVE  Cardinality(upto(m)) < Cardinality(upto(n))
  <2>0. m \in Nat /\ n \in Nat /\ n <= n /\ ~(n <= m)
    BY <1>3
  <2>1. upto(m) \subseteq upto(n) /\ n \in upto(n) /\ n \notin upto(m)
    <3>1. \A k \in keep : k \in Nat /\ (k <= m => k <= n)
      BY <1>3, <2>0
    <3>2. n \in upto(n) /\ n \notin upto(m)
      BY <2>0
    <3> QED BY <3>1, <3>2
  <2>2. upto(m) # upto(n)
    BY <2>1
  <2>3. IsFiniteSet(upto(n)) /\ Cardinality(upto(n)) \in Nat /\ Cardinality(upto(m)) \in Nat
    BY <1>2
  <2> HIDE DEF upto
  <2> QED BY <2>1, <2>2, <2>3, FS_Subset
<1>4. \A n \in keep : RankIn(keep, n) \in 1..Cardinality(keep)
  BY <1>1, <1>2 DEF RankIn
<1>5. \A m, n \in keep : RankIn(keep, m) = RankIn(keep, n) => m = n
  <2> SUFFICES ASSUME NEW m \in keep, NEW n \in keep, RankIn(keep, m) = RankIn(keep, n), m # n
               PROVE  FALSE
    OBVIOUS
  <2>1. m \in Nat /\ n \in Nat
    OBVIOUS
  <2>2. m < n \/ n < m
    BY <2>1
  <2>3. Cardinality(upto(m)) = Cardinality(upto(n))
    BY DEF RankIn
  <2> HIDE DEF upto
  <2> QED BY <1>2, <1>3, <2>2, <2>3
<1> DEFINE g == [n \in keep |-> RankIn(keep, n)]
           range == 1..Cardinality(keep)
<1>6. g \in Injection(keep, range)
  BY <1>4, <1>5 DEF Injection, IsInjective
<1>7. IsFiniteSet(range) /\ Cardinality(range) = Cardinality(keep)
  <2> DEFINE c == Cardinality(keep)
  <2>1. c \in Int /\ c \in Nat /\ 1 \in Int
    BY <1>1
  <2> HIDE DEF c
  <2>2. IsFiniteSet(1..c) /\ Cardinality(1..c) = IF 1 > c THEN 0 ELSE c - 1 + 1
    BY <2>1, FS_Interval
  <2>3. Cardinality(1..c) = c
    BY <2>1, <2>2
  <2> QED BY <2>2, <2>3 DEF c
<1>8. g \in Surjection(keep, range)
  <2> HIDE DEF g, range
  <2> QED BY <1>6, <1>7, FS_Injection
<1>9. \A i \in range : \E n \in keep : g[n] = i
  <2> HIDE DEF g, range
  <2> QED BY <1>8 DEF Surjection
<1> QED BY <1>4, <1>5, <1>9

(* Reading goes up to the first line that is not UTF-8, if there is one.   *)
Readable(ls) == {ls[n] : n \in 1..End(ls)}

LEMMA EndOfReading ==
    ASSUME NEW ls \in Seq(RecordSet)
    PROVE  /\ End(ls) \in Nat /\ End(ls) <= Len(ls)
           /\ \A k \in 1..End(ls) : ls[k] # Garbled
           /\ End(ls) < Len(ls) => ls[End(ls) + 1] = Garbled
<1> DEFINE N == Len(ls)
           K == {n \in 1..N : \A k \in 1..n : ls[k] # Garbled}
           bad == {n \in 1..N : ls[n] = Garbled}
<1>1. N \in Nat /\ DOMAIN ls = 1..N
  OBVIOUS
<1>2. End(ls) = Cardinality(K)
  BY <1>1 DEF End
<1>3. ASSUME NEW c \in Nat, c <= N, K = 1..c, c < N => ls[c + 1] = Garbled
      PROVE  /\ End(ls) \in Nat /\ End(ls) <= N
             /\ \A k \in 1..End(ls) : ls[k] # Garbled
             /\ End(ls) < N => ls[End(ls) + 1] = Garbled
  <2>1. Cardinality(1..c) = c
    <3>1. Cardinality(1..c) = IF 1 > c THEN 0 ELSE c - 1 + 1
      BY FS_Interval
    <3> QED BY <3>1
  <2>2. End(ls) = c
    BY <1>2, <1>3, <2>1
  <2>3. \A k \in 1..c : k \in K
    BY <1>3
  <2>4. \A k \in K : ls[k] # Garbled
    BY <1>1
  <2> HIDE DEF K, N
  <2> QED BY <1>3, <2>2, <2>3, <2>4
<1>4. CASE bad = {}
  <2>1. \A n \in 1..N : ls[n] # Garbled
    BY <1>4
  <2>2. K = 1..N
    BY <1>1, <2>1
  <2>3. N \in Nat /\ N <= N /\ ~(N < N)
    BY <1>1
  <2> HIDE DEF K, bad, N
  <2>4. /\ End(ls) \in Nat /\ End(ls) <= N
        /\ \A k \in 1..End(ls) : ls[k] # Garbled
        /\ End(ls) < N => ls[End(ls) + 1] = Garbled
    BY <1>3, <2>2, <2>3
  <2> QED BY <2>4 DEF N
<1>5. CASE bad # {}
  <2>1. bad \in SUBSET Nat
    BY <1>1
  <2>2. PICK m \in bad : \A k \in bad : m <= k
    <3> HIDE DEF bad
    <3> QED BY <1>5, <2>1, LeastIndex
  <2>3. m \in 1..N /\ ls[m] = Garbled /\ \A k \in 1..N : ls[k] = Garbled => m <= k
    BY <2>2
  <2> HIDE DEF bad
  <2>4. K = 1..(m - 1)
    BY <1>1, <2>3
  <2>5. m - 1 \in Nat /\ m - 1 <= N /\ (m - 1) + 1 = m
    BY <1>1, <2>3
  <2> HIDE DEF K
  <2> QED BY <1>3, <2>3, <2>4, <2>5
<1> QED BY <1>4, <1>5

LEMMA ReadableLines ==
    ASSUME NEW ls \in Seq(RecordSet)
    PROVE  /\ \A n \in 1..End(ls) : n \in DOMAIN ls
           /\ \A r \in Readable(ls) : \E n \in DOMAIN ls : r = ls[n]
           /\ \A n \in DOMAIN ls : (\A k \in 1..n : ls[k] # Garbled) => n <= End(ls)
<1>1. End(ls) \in Nat /\ End(ls) <= Len(ls) /\ DOMAIN ls = 1..Len(ls) /\ Len(ls) \in Nat
  BY EndOfReading
<1>2. \A n \in 1..End(ls) : n \in DOMAIN ls
  BY <1>1
<1>3. ASSUME NEW n \in DOMAIN ls, \A k \in 1..n : ls[k] # Garbled
      PROVE  n <= End(ls)
  <2>1. SUFFICES ASSUME ~(n <= End(ls)) PROVE FALSE
    OBVIOUS
  <2>2. End(ls) + 1 \in 1..n /\ End(ls) < Len(ls)
    BY <1>1, <2>1
  <2> QED BY <1>3, <2>2, EndOfReading
<1>4. \A r \in Readable(ls) : \E n \in DOMAIN ls : r = ls[n]
  BY <1>2 DEF Readable
<1> QED BY <1>2, <1>3, <1>4

(* What was readable stays so behind a line that is added.                 *)
LEMMA ReadableGrows ==
    ASSUME NEW ls \in Seq(RecordSet), NEW r \in RecordSet
    PROVE  /\ Readable(ls) \subseteq Readable(Append(ls, r))
           /\ Readable(Append(ls, r)) \subseteq Readable(ls) \cup {r}
<1> DEFINE more == Append(ls, r)
<1>1. /\ more \in Seq(RecordSet) /\ Len(more) = Len(ls) + 1 /\ Len(ls) \in Nat
      /\ \A k \in 1..Len(ls) : more[k] = ls[k]
      /\ more[Len(ls) + 1] = r
      /\ DOMAIN more = 1..(Len(ls) + 1) /\ DOMAIN ls = 1..Len(ls)
  OBVIOUS
<1> HIDE DEF more
<1>2. /\ End(ls) \in Nat /\ End(ls) <= Len(ls) /\ End(more) \in Nat /\ End(more) <= Len(ls) + 1
      /\ \A k \in 1..End(ls) : ls[k] # Garbled
      /\ \A k \in 1..End(more) : more[k] # Garbled
  BY <1>1, EndOfReading
<1>3. ASSUME NEW n \in 1..End(ls) PROVE n \in 1..End(more) /\ more[n] = ls[n]
  <2>1. n \in DOMAIN more /\ more[n] = ls[n] /\ n \in Nat
    BY <1>1, <1>2
  <2>2. \A k \in 1..n : more[k] # Garbled
    BY <1>1, <1>2
  <2>3. n <= End(more)
    BY <1>1, <2>1, <2>2, ReadableLines
  <2> QED BY <1>2, <2>1, <2>3
<1>4. Readable(ls) \subseteq Readable(more)
  BY <1>3 DEF Readable
<1>5. ASSUME NEW n \in 1..End(more) PROVE more[n] \in Readable(ls) \cup {r}
  <2>1. CASE n = Len(ls) + 1
    BY <1>1, <2>1
  <2>2. CASE n # Len(ls) + 1
    <3>1. n \in DOMAIN ls /\ more[n] = ls[n]
      BY <1>1, <1>2, <2>2
    <3>2. \A k \in 1..n : ls[k] # Garbled
      BY <1>1, <1>2, <3>1
    <3>3. n \in 1..End(ls)
      BY <1>1, <1>2, <3>1, <3>2, ReadableLines
    <3> QED BY <3>1, <3>3 DEF Readable
  <2> QED BY <2>1, <2>2
<1>6. Readable(more) \subseteq Readable(ls) \cup {r}
  BY <1>5 DEF Readable
<1> QED BY <1>4, <1>6 DEF more

(* A compaction keeps the lines that are shown, and only lines.            *)
LEMMA KeptLinesStay ==
    ASSUME NEW ls \in Seq(RecordSet), NEW m \in 0..Len(ls)
    PROVE  /\ KeptLines(ls, m) \in Seq(RecordSet)
           /\ \A i \in DOMAIN KeptLines(ls, m) : \E n \in 1..m : KeptLines(ls, m)[i] = ls[n]
           /\ \A n \in 1..m : Kept(ls[n]) =>
                \E i \in DOMAIN KeptLines(ls, m) : KeptLines(ls, m)[i] = ls[n]
           /\ \A i \in DOMAIN KeptLines(ls, m) : Kept(KeptLines(ls, m)[i])
<1> DEFINE keep == {n \in 1..m : Kept(ls[n])}
           card == Cardinality(keep)
           At(i) == CHOOSE n \in keep : RankIn(keep, n) = i
<1>1. KeptLines(ls, m) = [i \in 1..card |-> ls[At(i)]]
  BY DEF KeptLines, RankIn
<1>2. keep \in SUBSET Nat /\ IsFiniteSet(keep) /\ keep \subseteq 1..m /\ 1..m \subseteq DOMAIN ls
  <2>1. DOMAIN ls = 1..Len(ls) /\ Len(ls) \in Nat /\ m \in Nat /\ 1..m \subseteq DOMAIN ls
    OBVIOUS
  <2>2. IsFiniteSet(1..m)
    BY <2>1, FS_Interval
  <2> QED BY <2>1, <2>2, FS_Subset
<1>3. card \in Nat
  BY <1>2, FS_CardinalityType
<1> HIDE DEF card
<1>4. ASSUME NEW i \in 1..card PROVE At(i) \in keep /\ RankIn(keep, At(i)) = i
  <2>1. \E n \in keep : RankIn(keep, n) = i
    <3> HIDE DEF keep
    <3> QED BY <1>2, Ranks DEF card
  <2> HIDE DEF keep
  <2> QED BY <2>1
<1>5. ASSUME NEW n \in keep PROVE RankIn(keep, n) \in 1..card /\ At(RankIn(keep, n)) = n
  <2>1. RankIn(keep, n) \in 1..card
    <3> HIDE DEF keep
    <3> QED BY <1>2, Ranks DEF card
  <2>2. At(RankIn(keep, n)) \in keep /\ RankIn(keep, At(RankIn(keep, n))) = RankIn(keep, n)
    <3> HIDE DEF keep, At
    <3> QED BY <1>4, <2>1
  <2>3. At(RankIn(keep, n)) = n
    <3> HIDE DEF keep, At
    <3> QED BY <1>2, <2>2, Ranks
  <2> QED BY <2>1, <2>3
<1>6. \A n \in keep : ls[n] \in RecordSet
  BY <1>2
<1>7. \A n \in 1..m : Kept(ls[n]) => n \in keep
  OBVIOUS
<1>12. \A n \in keep : Kept(ls[n])
  OBVIOUS
<1> HIDE DEF keep, At
<1>8. KeptLines(ls, m) \in [1..card -> RecordSet]
  BY <1>1, <1>4, <1>6
<1>9. KeptLines(ls, m) \in Seq(RecordSet) /\ DOMAIN KeptLines(ls, m) = 1..card
  BY <1>3, <1>8
<1>10. \A i \in 1..card : KeptLines(ls, m)[i] = ls[At(i)] /\ At(i) \in 1..m
  BY <1>1, <1>2, <1>4
<1>11. ASSUME NEW n \in 1..m, Kept(ls[n])
       PROVE  \E i \in 1..card : KeptLines(ls, m)[i] = ls[n]
  BY <1>5, <1>7, <1>10, <1>11
<1>13. \A i \in 1..card : Kept(KeptLines(ls, m)[i])
  BY <1>4, <1>10, <1>12
<1> QED
  BY <1>9, <1>10, <1>11, <1>13

(* What a compaction of the files F leaves of a directory: of each file it *)
(* could read to the end only lines that are shown, and of all others at   *)
(* least what it read and shows.                                           *)
LEMMA CompactedFile ==
    ASSUME NEW ls \in Seq(RecordSet), NEW m \in Nat, m <= End(ls)
    PROVE  /\ KeptLines(ls, m) \in Seq(RecordSet)
           /\ {KeptLines(ls, m)[i] : i \in DOMAIN KeptLines(ls, m)} \subseteq {ls[n] : n \in DOMAIN ls}
           /\ Readable(KeptLines(ls, m)) \subseteq Readable(ls)
           /\ \A n \in 1..m : Kept(ls[n]) => ls[n] \in Readable(KeptLines(ls, m))
           /\ \A i \in DOMAIN KeptLines(ls, m) : Kept(KeptLines(ls, m)[i])
<1> DEFINE kept == KeptLines(ls, m)
<1>1. m \in 0..Len(ls) /\ 1..m \subseteq 1..End(ls) /\ 1..m \subseteq DOMAIN ls
  <2>1. End(ls) \in Nat /\ End(ls) <= Len(ls) /\ Len(ls) \in Nat /\ DOMAIN ls = 1..Len(ls)
    BY EndOfReading
  <2> QED BY <2>1
<1>2. /\ kept \in Seq(RecordSet)
      /\ \A i \in DOMAIN kept : \E n \in 1..m : kept[i] = ls[n]
      /\ \A n \in 1..m : Kept(ls[n]) => \E i \in DOMAIN kept : kept[i] = ls[n]
      /\ \A i \in DOMAIN kept : Kept(kept[i])
  BY <1>1, KeptLinesStay
<1> HIDE DEF kept
<1>3. \A i \in DOMAIN kept : kept[i] # Garbled
  BY <1>2 DEF Kept, Corrupt, Half
<1>4. DOMAIN kept = 1..Len(kept) /\ Len(kept) \in Nat /\ End(kept) \in Nat /\ End(kept) <= Len(kept)
  BY <1>2, EndOfReading
<1>5. DOMAIN kept = 1..End(kept)
  <2>1. SUFFICES ASSUME End(kept) < Len(kept) PROVE FALSE
    BY <1>4
  <2>2. kept[End(kept) + 1] = Garbled /\ End(kept) + 1 \in DOMAIN kept
    BY <1>2, <1>4, <2>1, EndOfReading
  <2> QED BY <1>3, <2>2
<1>6. Readable(kept) = {kept[i] : i \in DOMAIN kept}
  BY <1>5 DEF Readable
<1>7. {kept[i] : i \in DOMAIN kept} \subseteq Readable(ls)
  BY <1>1, <1>2 DEF Readable
<1>8. {kept[i] : i \in DOMAIN kept} \subseteq {ls[n] : n \in DOMAIN ls}
  BY <1>1, <1>2
<1> QED BY <1>2, <1>6, <1>7, <1>8 DEF kept

ReadUpTo(d, F, reach) == \A f \in F : reach[f] \in Nat /\ reach[f] <= End(d[f])

LEMMA CompactedDisk ==
    ASSUME NEW d, IsDisk(d), NEW F \in SUBSET DOMAIN d, NEW reach, ReadUpTo(d, F, reach)
    PROVE  LET d2 == Compact(d, F, reach) IN
           /\ IsDisk(d2) /\ DOMAIN d2 \subseteq DOMAIN d /\ DOMAIN d \ F \subseteq DOMAIN d2
           /\ \A f \in DOMAIN d2 : LinesIn(d2, f) \subseteq LinesIn(d, f)
           /\ \A f \in DOMAIN d2 : Readable(d2[f]) \subseteq Readable(d[f])
           /\ \A f \in DOMAIN d2 : f \notin F => d2[f] = d[f]
           /\ \A f \in F : \A n \in 1..reach[f] :
                Kept(d[f][n]) => f \in DOMAIN d2 /\ d[f][n] \in Readable(d2[f])
           /\ \A f \in F : f \in DOMAIN d2 /\ reach[f] = Len(d[f]) =>
                \A r \in LinesIn(d2, f) : Kept(r)
           /\ \A f \in F : reach[f] = 0 => f \in DOMAIN d2 /\ d2[f] = d[f]
<1> DEFINE dead == {f \in F : reach[f] > 0 /\ \A n \in 1..reach[f] : ~Kept(d[f][n])}
           mixed == {f \in F : \E n \in 1..reach[f] : ~Kept(d[f][n])}
           d2 == [f \in DOMAIN d \ dead |-> IF f \in mixed THEN KeptLines(d[f], reach[f]) ELSE d[f]]
<1>1. Compact(d, F, reach) = d2
  BY DEF Compact
<1>2. ASSUME NEW f \in DOMAIN d
      PROVE  /\ d[f] \in Seq(RecordSet)
             /\ f \in F =>
                  /\ KeptLines(d[f], reach[f]) \in Seq(RecordSet)
                  /\ {KeptLines(d[f], reach[f])[i] : i \in DOMAIN KeptLines(d[f], reach[f])}
                       \subseteq {d[f][n] : n \in DOMAIN d[f]}
                  /\ Readable(KeptLines(d[f], reach[f])) \subseteq Readable(d[f])
                  /\ \A n \in 1..reach[f] : Kept(d[f][n]) =>
                        d[f][n] \in Readable(KeptLines(d[f], reach[f]))
                  /\ \A i \in DOMAIN KeptLines(d[f], reach[f]) : Kept(KeptLines(d[f], reach[f])[i])
  <2>1. d[f] \in Seq(RecordSet)
    BY DEF IsDisk
  <2>2. CASE f \in F
    <3>1. reach[f] \in Nat /\ reach[f] <= End(d[f])
      BY <2>2 DEF ReadUpTo
    <3> QED BY <2>1, <3>1, CompactedFile
  <2> QED BY <2>1, <2>2
<1>3. IsFiniteSet(DOMAIN d \ dead)
  BY FS_Subset DEF IsDisk
<1>4. IsDisk(d2) /\ DOMAIN d2 \subseteq DOMAIN d /\ DOMAIN d \ F \subseteq DOMAIN d2
  BY <1>2, <1>3 DEF IsDisk
<1>5. \A f \in DOMAIN d2 : f \in DOMAIN d /\ f \notin dead
  OBVIOUS
<1>6. \A f \in DOMAIN d2 : (f \in mixed => d2[f] = KeptLines(d[f], reach[f])) /\ (f \notin mixed => d2[f] = d[f])
  OBVIOUS
<1>7. \A f \in DOMAIN d : f \notin dead => f \in DOMAIN d2
  OBVIOUS
<1> HIDE DEF d2
<1>8. ASSUME NEW f \in DOMAIN d2
      PROVE  LinesIn(d2, f) \subseteq LinesIn(d, f) /\ Readable(d2[f]) \subseteq Readable(d[f])
  <2>1. f \in DOMAIN d
    BY <1>5
  <2>2. CASE f \in mixed
    <3>0. f \in F
      BY <2>2
    <3> HIDE DEF mixed, dead
    <3>1. d2[f] = KeptLines(d[f], reach[f])
      BY <1>6, <2>2
    <3> QED BY <1>2, <2>1, <3>0, <3>1 DEF LinesIn
  <2>3. CASE f \notin mixed
    <3>1. d2[f] = d[f]
      BY <1>6, <2>3
    <3> QED BY <3>1 DEF LinesIn
  <2> QED BY <2>2, <2>3
<1>9. \A f \in DOMAIN d2 : f \notin F => d2[f] = d[f]
  BY <1>6
<1>10. ASSUME NEW f \in F, NEW n \in 1..reach[f], Kept(d[f][n])
       PROVE  f \in DOMAIN d2 /\ d[f][n] \in Readable(d2[f])
  <2>1. f \in DOMAIN d /\ f \notin dead /\ f \in DOMAIN d2
    BY <1>7, <1>10
  <2>2. CASE f \in mixed
    <3> HIDE DEF mixed, dead
    <3>1. d2[f] = KeptLines(d[f], reach[f])
      BY <1>6, <2>1, <2>2
    <3> QED BY <1>2, <1>10, <2>1, <3>1
  <2>3. CASE f \notin mixed
    <3>1. d2[f] = d[f]
      BY <1>6, <2>1, <2>3
    <3>2. reach[f] \in Nat /\ reach[f] <= End(d[f]) /\ End(d[f]) \in Nat
      BY <1>2, <2>1, EndOfReading DEF ReadUpTo
    <3>3. n \in 1..End(d[f])
      BY <3>2
    <3> QED BY <2>1, <3>1, <3>3 DEF Readable
  <2> QED BY <2>2, <2>3
<1>11. ASSUME NEW f \in F, f \in DOMAIN d2, reach[f] = Len(d[f]), NEW r \in LinesIn(d2, f)
       PROVE  Kept(r)
  <2>1. PICK i \in DOMAIN d2[f] : r = d2[f][i]
    BY DEF LinesIn
  <2>2. CASE f \in mixed
    <3> HIDE DEF mixed, dead
    <3>1. d2[f] = KeptLines(d[f], reach[f]) /\ f \in DOMAIN d
      BY <1>5, <1>6, <1>11, <2>2
    <3> QED BY <1>2, <2>1, <3>1
  <2>3. CASE f \notin mixed
    <3>1. d2[f] = d[f] /\ f \in DOMAIN d
      BY <1>5, <1>6, <1>11, <2>3
    <3>2. DOMAIN d[f] = 1..Len(d[f])
      BY <1>2, <3>1
    <3> QED BY <1>11, <2>1, <2>3, <3>1, <3>2
  <2> QED BY <2>2, <2>3
<1>12. ASSUME NEW f \in F, reach[f] = 0 PROVE f \in DOMAIN d2 /\ d2[f] = d[f]
  <2>1. f \in DOMAIN d /\ f \notin dead /\ f \notin mixed
    BY <1>12
  <2> QED BY <1>6, <1>7, <2>1
<1> HIDE DEF dead, mixed
<1> QED BY <1>1, <1>4, <1>8, <1>9, <1>10, <1>11, <1>12

----------------------------------------------------------------------------
(* Types *)

Ops == {"open", "maintain", "rotate", "count", "clear"}
WriterStages == {"down", "idle", "startup", "due", "rollover", "append", "count", "clear"}
SourceMetas == [gen : Nat, evicted : BOOLEAN, trimmed : Nat, next : Nat \ {0}]
Metas == [top : Nat, src : [Sources -> SourceMetas]]
Windows == {<<>>} \cup [day : Int, offset : Nat]
Writers ==
    [pc : WriterStages, file : FileNames \cup {NoFile}, bytes : Nat, epoch : Nat, window : Windows,
     evicted : BOOLEAN, trimmed : Nat, hand : RecordSet]
Pages == UNION {[D -> SUBSET RecordSet] : D \in SUBSET FileNames}
Locks == [by : Procs, op : Ops, meta : Metas, window : Windows, was : Pages]

ClockTyped == clock \in [utc : 0..MaxTime, offset : Offsets]
MadeTyped == made \in [records : 0..MaxRecords, clears : 0..MaxClears, gens : Nat, faults : Nat]
CommandTyped ==
    command \in [at : {"none", "ask", "wait"}, owner : Sources, ok : SUBSET Sources, upto : Nat]
LogTyped ==
    /\ ClockTyped /\ MadeTyped /\ CommandTyped
    /\ IsDisk(disk) /\ meta \in Metas
    /\ lock = [by |-> NoProc] \/ lock \in Locks
    /\ proc \in [Procs -> Writers] /\ queue \in [Procs -> Seq(RecordSet)]
    /\ epochs \in Nat /\ pruned \subseteq Sources /\ missed \subseteq Sources
    /\ left \in [pass : SUBSET FileNames, clear : SUBSET FileNames]

LEMMA TornIsRecord == Torn \in RecordSet
BY BoundsTyped DEF Torn, RecordSet

LEMMA HalvesAreRecords == \A r : Half(r) => r \in RecordSet /\ r.id \in {0, -1}
<1>1. Spoiled \in RecordSet /\ Spoiled.id = 0
  BY BoundsTyped DEF Spoiled, RecordSet
<1>2. -1 \in -1..MaxRecords /\ 0 \in 0..(MaxTime + MaxClears)
  BY BoundsTyped
<1>3. Garbled \in RecordSet /\ Garbled.id = -1
  BY <1>2 DEF Garbled, RecordSet
<1>4. Torn.id = 0
  BY DEF Torn
<1> QED BY <1>1, <1>3, <1>4, TornIsRecord DEF Half

LEMMA ShownLines ==
    ASSUME NEW ls \in Seq(RecordSet)
    PROVE  Shown(ls) = {r \in Readable(ls) : Kept(r)} /\ Readable(ls) \in SUBSET RecordSet
<1>1. Shown(ls) = {r \in Readable(ls) : Kept(r)}
  BY DEF Shown, Readable
<1>2. ASSUME NEW r \in Readable(ls) PROVE r \in RecordSet
  <2>1. PICK n \in DOMAIN ls : r = ls[n]
    BY ReadableLines
  <2> QED BY <2>1
<1> QED BY <1>1, <1>2

LEMMA PagesTyped ==
    ASSUME IsDisk(disk) PROVE [f \in DOMAIN disk |-> Shown(disk[f])] \in Pages
<1>1. \A f \in DOMAIN disk : Shown(disk[f]) \in SUBSET RecordSet
  <2> TAKE f \in DOMAIN disk
  <2>1. disk[f] \in Seq(RecordSet)
    BY DEF IsDisk
  <2> QED BY <2>1, ShownLines
<1>2. DOMAIN disk \in SUBSET FileNames
  BY DEF IsDisk
<1> QED BY <1>1, <1>2 DEF Pages

LEMMA IdleIsWriter == Idle \in Writers /\ Off \in Writers
<1>1. Idle \in Writers
  BY TornIsRecord DEF Idle, Writers, WriterStages, Windows
<1> QED BY <1>1 DEF Off, Idle, Writers, WriterStages

LEMMA WindowTyped == ClockTyped => Window \in Windows
<1> SUFFICES ASSUME ClockTyped PROVE Window \in [day : Int, offset : Nat]
  BY DEF Windows
<1>1. clock.utc \in Int /\ clock.offset \in Nat
  <2>1. clock.utc \in 0..MaxTime /\ clock.offset \in Offsets
    BY DEF ClockTyped
  <2>2. clock.utc \in Int
    BY <2>1, BoundsTyped
  <2>3. clock.offset \in Nat
    BY <2>1, BoundsTyped
  <2> QED BY <2>2, <2>3
<1>2. LocalDay(clock.utc) \in Int
  BY <1>1 DEF LocalDay
<1> QED BY <1>1, <1>2 DEF Window

LEMMA LockHeld ==
    ASSUME LogTyped PROVE lock.by # NoProc => lock \in Locks /\ lock.by \in Procs
BY DEF LogTyped, Locks

(* A new file of a writer, by what meta.json m says of its source.         *)
NewFile(p, f, m, d) ==
    /\ f \in FileNames /\ f \notin DOMAIN d /\ f[1] = SourceOf[p]
    /\ f[3] >= m.src[SourceOf[p]].next
    /\ (\A g \in FilesOf(d, SourceOf[p]) : g[3] < m.src[SourceOf[p]].next)
        => f[3] = m.src[SourceOf[p]].next

(* What an allocation a makes of its writer, meta.json and directory.      *)
Allocates(p, w, m, d, f, a) ==
    /\ NewFile(p, f, m, d) /\ f[3] \in Nat
    /\ a.w = [w EXCEPT !.file = f, !.bytes = 0] /\ a.w \in Writers
    /\ a.m = [m EXCEPT !.src[SourceOf[p]].next = f[3] + 1] /\ a.m \in Metas
    /\ a.d = WithFile(d, f)

LEMMA Allocation ==
    ASSUME NEW p \in Procs, NEW w \in Writers, NEW m \in Metas, NEW d, IsDisk(d)
    PROVE  \E f \in FileNames : Allocates(p, w, m, d, f, FileAllocated(p, w, m, d))
<1> DEFINE s == SourceOf[p]
           n == FreeIndex(d, s, w.epoch, m.src[s].next)
           f == <<s, w.epoch, n>>
<1>1. s \in Sources /\ w.epoch \in Nat /\ m.src[s] \in SourceMetas /\ m.src[s].next \in Nat \ {0}
  BY DEF Writers, Metas, SourceMetas
<1>2. /\ n \in Nat \ {0} /\ m.src[s].next <= n
      /\ f \notin DOMAIN d
      /\ <<s, w.epoch, m.src[s].next>> \notin DOMAIN d => n = m.src[s].next
  <2> HIDE DEF s
  <2> QED BY <1>1, FreeIndexIsFree
<1> HIDE DEF n
<1>3. f \in FileNames /\ f[1] = s /\ f[3] = n /\ f[3] \in Nat
  BY <1>1, <1>2 DEF FileNames
<1>4. NewFile(p, f, m, d)
  <2>1. ASSUME \A g \in FilesOf(d, s) : g[3] < m.src[s].next
        PROVE  <<s, w.epoch, m.src[s].next>> \notin DOMAIN d
    <3> DEFINE h == <<s, w.epoch, m.src[s].next>>
    <3>1. h[1] = s /\ h[3] = m.src[s].next
      OBVIOUS
    <3> HIDE DEF h
    <3>2. h \in DOMAIN d => h[3] < m.src[s].next
      BY <2>1, <3>1 DEF FilesOf
    <3>3. ~(m.src[s].next < m.src[s].next)
      BY <1>1
    <3> QED BY <3>1, <3>2, <3>3 DEF h
  <2> HIDE DEF f
  <2> QED BY <1>2, <1>3, <2>1 DEF NewFile
<1>5. [w EXCEPT !.file = f, !.bytes = 0] \in Writers
  BY <1>3 DEF Writers
<1>6. [m EXCEPT !.src[s].next = n + 1] \in Metas
  <2>1. m.src \in [Sources -> SourceMetas] /\ n + 1 \in Nat \ {0}
    BY <1>2 DEF Metas
  <2>2. [m.src[s] EXCEPT !.next = n + 1] \in SourceMetas
    BY <1>1, <2>1 DEF SourceMetas
  <2>3. [m.src EXCEPT ![s].next = n + 1] \in [Sources -> SourceMetas]
    BY <1>1, <2>1, <2>2
  <2> QED BY <2>3 DEF Metas
<1>7. LET a == FileAllocated(p, w, m, d) IN
        /\ a.w = [w EXCEPT !.file = f, !.bytes = 0]
        /\ a.m = [m EXCEPT !.src[s].next = n + 1]
        /\ a.d = WithFile(d, f)
  BY DEF FileAllocated, n
<1> HIDE DEF f, s
<1> QED BY <1>3, <1>4, <1>5, <1>6, <1>7 DEF s, Allocates

----------------------------------------------------------------------------
(* What the locked sections do, in terms of the next state. *)

SectionBegins(p, op) ==
    /\ lock.by = NoProc /\ lock' \in Locks /\ lock'.by = p /\ lock'.op = op
    /\ proc' \in [Procs -> Writers] /\ \A q \in Procs \ {p} : proc'[q] = proc[q]
    /\ IsDisk(disk')
    /\ UNCHANGED <<clock, meta, missed, queue, command>>
    /\ \A t \in Sources \ {SourceOf[p]} : lock'.meta.src[t] = meta.src[t]
    /\ lock'.was = [f \in DOMAIN disk |-> Shown(disk[f])]

LEMMA SectionSummary ==
    ASSUME LogTyped, NEW p \in Procs, NEW op \in Ops, NEW m \in Metas, NEW d, IsDisk(d),
           NEW w \in Writers, Section(p, op, m, d, w), UNCHANGED <<missed, queue, command>>,
           \A t \in Sources \ {SourceOf[p]} : m.src[t] = meta.src[t]
    PROVE  /\ SectionBegins(p, op)
           /\ lock'.meta = m /\ lock'.window = Window /\ disk' = d /\ proc'[p] = w
<1>1. Window \in Windows
  BY WindowTyped DEF LogTyped
<1> DEFINE was == [f \in DOMAIN disk |-> Shown(disk[f])]
<1>0. was \in Pages
  BY PagesTyped DEF LogTyped
<1>2. lock' = [by |-> p, op |-> op, meta |-> m, window |-> Window, was |-> was]
  BY DEF Section
<1>3. /\ lock' \in Locks /\ lock'.by = p /\ lock'.op = op /\ lock'.meta = m /\ lock'.window = Window
      /\ lock'.was = was
  <2> HIDE DEF was
  <2> QED BY <1>0, <1>1, <1>2 DEF Locks
<1>4. /\ proc' \in [Procs -> Writers] /\ \A q \in Procs \ {p} : proc'[q] = proc[q]
      /\ proc'[p] = w
  BY DEF Section, LogTyped
<1>5. disk' = d /\ UNCHANGED <<clock, meta>> /\ lock.by = NoProc
  BY DEF Section, LockFree
<1> QED BY <1>3, <1>4, <1>5 DEF SectionBegins

(* What it will write of its own source. *)
Noting(p) == lock'.meta.src[SourceOf[p]]
SameGen(p) == lock'.meta.top = meta.top /\ Noting(p).gen = meta.src[SourceOf[p]].gen

OpenDoes(p) ==
    /\ SameGen(p) /\ Noting(p).evicted = meta.src[SourceOf[p]].evicted
    /\ proc'[p].pc = "idle" /\ proc'[p].hand = Torn
    /\ proc'[p].evicted = meta.src[SourceOf[p]].evicted
    /\ \E f \in FileNames :
        /\ NewFile(p, f, meta, disk) /\ disk' = WithFile(disk, f)
        /\ proc'[p].file = f /\ Noting(p).next = f[3] + 1
        /\ left' = [left EXCEPT !.pass = @ \ {f}]
    /\ UNCHANGED <<made, pruned>>

LEMMA OpenSection ==
    ASSUME LogTyped, NEW p \in Procs, Open(p)
    PROVE  SectionBegins(p, "open") /\ OpenDoes(p)
<1> DEFINE s == SourceOf[p]
           w0 == LoadMeta([Idle EXCEPT !.epoch = epochs + 1], meta, s)
           a == FileAllocated(p, w0, meta, disk)
<1>1. s \in Sources /\ meta \in Metas /\ IsDisk(disk)
  BY DEF LogTyped
<1>2. meta.src[s] \in SourceMetas
  BY <1>1 DEF Metas
<1>3. /\ w0 \in Writers /\ w0.pc = "idle" /\ w0.hand = Torn /\ w0.evicted = meta.src[s].evicted
  <2> DEFINE v == [Idle EXCEPT !.epoch = epochs + 1]
  <2>0. epochs + 1 \in Nat
    BY DEF LogTyped
  <2>1. v \in Writers
    BY <2>0, IdleIsWriter DEF Writers
  <2>2. v.pc = "idle" /\ v.hand = Torn
    BY DEF Idle
  <2> HIDE DEF v
  <2> QED BY <1>2, <2>1, <2>2 DEF LoadMeta, Writers, SourceMetas, v
<1> HIDE DEF w0
<1>0. PICK f \in FileNames : Allocates(p, w0, meta, disk, f, a)
  BY <1>1, <1>3, Allocation
<1>4. /\ NewFile(p, f, meta, disk) /\ f[3] \in Nat
      /\ a.w = [w0 EXCEPT !.file = f, !.bytes = 0] /\ a.w \in Writers
      /\ a.m = [meta EXCEPT !.src[s].next = f[3] + 1] /\ a.m \in Metas
      /\ a.d = WithFile(disk, f)
  BY <1>0 DEF Allocates
<1>5. /\ Section(p, "open", a.m, a.d, a.w) /\ UNCHANGED <<queue, made, command, pruned, missed>>
      /\ left' = [left EXCEPT !.pass = @ \ {a.w.file}]
  BY DEF Open, w0
<1> HIDE DEF a
<1>6. IsDisk(a.d)
  <2>1. f \notin DOMAIN disk
    BY <1>4 DEF NewFile
  <2>2. IsDisk(WithFile(disk, f))
    BY <1>1, <2>1, AddedFile
  <2> QED BY <1>4, <2>2
<1>7. /\ a.m.top = meta.top /\ \A t \in Sources \ {s} : a.m.src[t] = meta.src[t]
      /\ a.m.src[s] = [meta.src[s] EXCEPT !.next = f[3] + 1]
  BY <1>1, <1>4 DEF Metas
<1>8. /\ a.m.src[s].gen = meta.src[s].gen /\ a.m.src[s].evicted = meta.src[s].evicted
      /\ a.m.src[s].next = f[3] + 1
  BY <1>2, <1>7 DEF SourceMetas
<1>9. /\ SectionBegins(p, "open")
      /\ lock'.meta = a.m /\ disk' = a.d /\ proc'[p] = a.w
  <2> DEFINE am == a.m
             ad == a.d
             aw == a.w
  <2>1. "open" \in Ops
    BY DEF Ops
  <2>2. am \in Metas /\ aw \in Writers /\ IsDisk(ad) /\ Section(p, "open", am, ad, aw)
    BY <1>4, <1>5, <1>6
  <2>3. \A t \in Sources \ {SourceOf[p]} : am.src[t] = meta.src[t]
    BY <1>7
  <2>4. UNCHANGED <<missed, queue, command>>
    BY <1>5
  <2> HIDE DEF am, ad, aw
  <2>5. /\ SectionBegins(p, "open")
        /\ lock'.meta = am /\ disk' = ad /\ proc'[p] = aw
    BY <2>1, <2>2, <2>3, <2>4, SectionSummary
  <2> QED BY <2>5 DEF am, ad, aw
<1>10. /\ a.w.file = f /\ a.w.pc = "idle" /\ a.w.hand = Torn /\ a.w.evicted = meta.src[s].evicted
  BY <1>3, <1>4 DEF Writers
<1> QED BY <1>4, <1>5, <1>7, <1>8, <1>9, <1>10 DEF OpenDoes, SameGen, Noting

CountDoes(p) ==
    /\ SameGen(p) /\ Noting(p).evicted = proc[p].evicted
    /\ Noting(p).next = meta.src[SourceOf[p]].next
    /\ proc'[p] = proc[p] /\ disk' = disk
    /\ UNCHANGED <<made, pruned, left>>

LEMMA CountSection ==
    ASSUME LogTyped, NEW p \in Procs, PersistCounters(p)
    PROVE  SectionBegins(p, "count") /\ CountDoes(p)
<1> DEFINE s == SourceOf[p]
           m == [meta EXCEPT !.src[s].trimmed = proc[p].trimmed, !.src[s].evicted = proc[p].evicted]
           n == [meta.src[s] EXCEPT !.trimmed = proc[p].trimmed, !.evicted = proc[p].evicted]
<1>1. s \in Sources /\ meta \in Metas /\ IsDisk(disk) /\ proc[p] \in Writers
  BY DEF LogTyped
<1>2. meta.src[s] \in SourceMetas /\ n \in SourceMetas
  BY <1>1 DEF Metas, SourceMetas, Writers
<1>3. m.src = [meta.src EXCEPT ![s] = n] /\ m.top = meta.top
  BY <1>1 DEF Metas
<1>4. m \in Metas
  BY <1>1, <1>2, <1>3 DEF Metas
<1>5. m.src[s] = n /\ \A t \in Sources \ {s} : m.src[t] = meta.src[t]
  BY <1>1, <1>3 DEF Metas
<1>6. n.gen = meta.src[s].gen /\ n.evicted = proc[p].evicted /\ n.next = meta.src[s].next
  BY <1>2 DEF SourceMetas
<1>7. Section(p, "count", m, disk, proc[p]) /\ UNCHANGED <<queue, made, command, pruned, missed, left>>
  BY DEF PersistCounters
<1> HIDE DEF m, n
<1>8. /\ SectionBegins(p, "count")
      /\ lock'.meta = m /\ disk' = disk /\ proc'[p] = proc[p]
  BY <1>1, <1>4, <1>5, <1>7, SectionSummary DEF Ops
<1> QED BY <1>3, <1>5, <1>6, <1>7, <1>8 DEF CountDoes, SameGen, Noting

(* A clear leaves directory d and what it could create.                    *)
Empties(p, d) ==
    \/ \E f \in FileNames :
        /\ NewFile(p, f, meta, d) /\ disk' = WithFile(d, f)
        /\ proc'[p].file = f /\ Noting(p).next = f[3] + 1
    \/ /\ disk' = d /\ proc'[p].file = NoFile
       /\ Noting(p).next = meta.src[SourceOf[p]].next

ClearDoes(p) ==
    /\ lock'.meta.top = made.gens + 1 /\ Noting(p).gen = made.gens + 1
    /\ ~Noting(p).evicted /\ ~proc'[p].evicted
    /\ proc'[p].pc = proc[p].pc /\ proc'[p].hand = proc[p].hand
    /\ \E stay \in SUBSET FilesOf(disk, SourceOf[p]) :
        /\ Empties(p, Without(disk, FilesOf(disk, SourceOf[p]) \ stay))
        /\ left' = [pass  |-> OfOthers(left.pass, SourceOf[p]) \cup stay,
                    clear |-> OfOthers(left.clear, SourceOf[p]) \cup stay]
    /\ pruned' = pruned \ {SourceOf[p]}
    /\ \E n \in Nat : made' = [made EXCEPT !.gens = @ + 1, !.faults = n]

(* What a clear in which files stay does, its section not looked into.     *)
Emptied(p, stay, creates) ==
    LET a == Cleared(p, stay, creates) IN
    /\ Section(p, "clear", a.m, a.d, a.w)
    /\ left' = [pass  |-> OfOthers(left.pass, SourceOf[p]) \cup stay,
                clear |-> OfOthers(left.clear, SourceOf[p]) \cup stay]
    /\ made' = [made EXCEPT !.gens = @ + 1,
                   !.faults = IF stay = {} /\ creates THEN @ ELSE @ + 1]

LEMMA ClearEmpties ==
    ASSUME NEW p \in Procs, Clear(p)
    PROVE  \E stay \in SUBSET FilesOf(disk, SourceOf[p]), creates \in BOOLEAN :
               Emptied(p, stay, creates)
<1>1. \E stay \in IF Fault THEN SUBSET FilesOf(disk, SourceOf[p]) ELSE {{}},
         creates \in IF Fault THEN BOOLEAN ELSE {TRUE} : Emptied(p, stay, creates)
  BY DEF Clear, Emptied
<1> HIDE DEF Emptied
<1> QED BY <1>1

LEMMA ClearSection ==
    ASSUME LogTyped, NEW p \in Procs, Clear(p)
    PROVE  SectionBegins(p, "clear") /\ ClearDoes(p)
<1> DEFINE s == SourceOf[p]
           g == made.gens + 1
           m == [meta EXCEPT !.top = g, !.src[s].gen = g, !.src[s].evicted = FALSE, !.src[s].trimmed = 0]
           n == [meta.src[s] EXCEPT !.gen = g, !.evicted = FALSE, !.trimmed = 0]
           w == [proc[p] EXCEPT !.epoch = epochs + 1, !.bytes = 0, !.window = Window,
                                !.evicted = FALSE, !.trimmed = 0]
<1>0. PICK stay \in SUBSET FilesOf(disk, s), creates \in BOOLEAN : Emptied(p, stay, creates)
  BY ClearEmpties
<1> DEFINE d == Without(disk, FilesOf(disk, s) \ stay)
           a == IF creates THEN FileAllocated(p, w, m, d)
                ELSE [w |-> [w EXCEPT !.file = NoFile], m |-> m, d |-> d]
<1>00. a = Cleared(p, stay, creates)
  BY DEF Cleared, Doomed
<1>01. /\ Section(p, "clear", a.m, a.d, a.w)
       /\ left' = [pass  |-> OfOthers(left.pass, s) \cup stay,
                   clear |-> OfOthers(left.clear, s) \cup stay]
       /\ made' = [made EXCEPT !.gens = @ + 1,
                      !.faults = IF stay = {} /\ creates THEN @ ELSE @ + 1]
  <2> HIDE DEF a
  <2> QED BY <1>0, <1>00 DEF Emptied
<1>1. s \in Sources /\ meta \in Metas /\ IsDisk(disk) /\ proc[p] \in Writers /\ g \in Nat
  BY DEF LogTyped, MadeTyped
<1>2. meta.src[s] \in SourceMetas /\ n \in SourceMetas
  BY <1>1 DEF Metas, SourceMetas
<1>3. m.src = [meta.src EXCEPT ![s] = n] /\ m.top = g
  BY <1>1 DEF Metas
<1>4. m \in Metas
  BY <1>1, <1>2, <1>3 DEF Metas
<1>5. m.src[s] = n /\ \A t \in Sources \ {s} : m.src[t] = meta.src[t]
  BY <1>1, <1>3 DEF Metas
<1>6. n.gen = g /\ n.evicted = FALSE /\ n.next = meta.src[s].next
  BY <1>2 DEF SourceMetas
<1>7. w \in Writers /\ w.pc = proc[p].pc /\ w.hand = proc[p].hand /\ w.evicted = FALSE
  <2>1. Window \in Windows
    BY WindowTyped DEF LogTyped
  <2>2. epochs + 1 \in Nat
    BY DEF LogTyped
  <2> QED BY <1>1, <2>1, <2>2 DEF Writers
<1>8. /\ Section(p, "clear", a.m, a.d, a.w) /\ UNCHANGED <<queue, command, missed>>
      /\ pruned' = pruned \ {s}
      /\ left' = [pass  |-> OfOthers(left.pass, s) \cup stay,
                  clear |-> OfOthers(left.clear, s) \cup stay]
  <2>1. UNCHANGED <<queue, command, missed>> /\ pruned' = pruned \ {s}
    BY DEF Clear
  <2> QED BY <1>01, <2>1
<1>17. \E k \in Nat : made' = [made EXCEPT !.gens = @ + 1, !.faults = k]
  <2>1. made.faults \in Nat
    BY DEF LogTyped, MadeTyped
  <2> DEFINE k == IF stay = {} /\ creates THEN made.faults ELSE made.faults + 1
  <2>2. k \in Nat /\ made' = [made EXCEPT !.gens = made.gens + 1, !.faults = k]
    BY <1>01, <2>1
  <2> QED BY <2>2
<1> HIDE DEF m, n, w
<1>9. IsDisk(d)
  BY <1>1, DroppedFiles
<1> HIDE DEF d
<1>10. /\ a.w \in Writers /\ a.w.pc = w.pc /\ a.w.hand = w.hand /\ a.w.evicted = w.evicted
       /\ a.m \in Metas /\ a.m.top = m.top /\ \A t \in Sources \ {s} : a.m.src[t] = m.src[t]
       /\ a.m.src[s].gen = g /\ a.m.src[s].evicted = FALSE
       /\ IsDisk(a.d)
       /\ \/ \E f \in FileNames :
                /\ NewFile(p, f, meta, d) /\ a.d = WithFile(d, f)
                /\ a.w.file = f /\ a.m.src[s].next = f[3] + 1
          \/ /\ a.d = d /\ a.w.file = NoFile
             /\ a.m.src[s].next = meta.src[s].next
  <2>1. CASE creates
    <3>0. PICK f \in FileNames : Allocates(p, w, m, d, f, a)
      BY <1>4, <1>7, <1>9, <2>1, Allocation
    <3>1. /\ NewFile(p, f, m, d) /\ f[3] \in Nat
          /\ a.w = [w EXCEPT !.file = f, !.bytes = 0] /\ a.w \in Writers
          /\ a.m = [m EXCEPT !.src[s].next = f[3] + 1] /\ a.m \in Metas
          /\ a.d = WithFile(d, f)
      BY <3>0 DEF Allocates
    <3> HIDE DEF a
    <3>2. IsDisk(a.d)
      <4>1. f \notin DOMAIN d
        BY <3>1 DEF NewFile
      <4>2. IsDisk(WithFile(d, f))
        BY <1>9, <4>1, AddedFile
      <4> QED BY <3>1, <4>2
    <3>3. /\ a.m.top = m.top /\ \A t \in Sources \ {s} : a.m.src[t] = m.src[t]
          /\ a.m.src[s] = [m.src[s] EXCEPT !.next = f[3] + 1]
      BY <1>1, <1>4, <3>1 DEF Metas
    <3>4. /\ a.m.src[s].gen = g /\ a.m.src[s].evicted = FALSE /\ a.m.src[s].next = f[3] + 1
      BY <1>2, <1>5, <1>6, <3>3 DEF SourceMetas
    <3>5. /\ a.w.file = f /\ a.w.pc = w.pc /\ a.w.hand = w.hand /\ a.w.evicted = w.evicted
      BY <1>7, <3>1 DEF Writers
    <3>6. NewFile(p, f, meta, d)
      BY <1>5, <1>6, <3>1 DEF NewFile
    <3> QED BY <3>1, <3>2, <3>3, <3>4, <3>5, <3>6
  <2>2. CASE ~creates
    <3>1. a.w = [w EXCEPT !.file = NoFile] /\ a.m = m /\ a.d = d
      BY <2>2
    <3> HIDE DEF a
    <3>2. /\ a.w \in Writers /\ a.w.pc = w.pc /\ a.w.hand = w.hand /\ a.w.evicted = w.evicted
          /\ a.w.file = NoFile
      BY <1>7, <3>1 DEF Writers
    <3> QED BY <1>4, <1>5, <1>6, <1>9, <3>1, <3>2
  <2> QED BY <2>1, <2>2
<1> HIDE DEF a
<1>14. /\ SectionBegins(p, "clear")
       /\ lock'.meta = a.m /\ disk' = a.d /\ proc'[p] = a.w
  <2> DEFINE am == a.m
             ad == a.d
             aw == a.w
  <2>1. "clear" \in Ops
    BY DEF Ops
  <2>2. am \in Metas /\ aw \in Writers /\ IsDisk(ad) /\ Section(p, "clear", am, ad, aw)
    BY <1>8, <1>10
  <2>3. \A t \in Sources \ {SourceOf[p]} : am.src[t] = meta.src[t]
    BY <1>5, <1>10
  <2>4. UNCHANGED <<missed, queue, command>>
    BY <1>8
  <2> HIDE DEF am, ad, aw
  <2>5. /\ SectionBegins(p, "clear")
        /\ lock'.meta = am /\ disk' = ad /\ proc'[p] = aw
    BY <2>1, <2>2, <2>3, <2>4, SectionSummary
  <2> QED BY <2>5 DEF am, ad, aw
<1>15. Empties(p, d)
  BY <1>10, <1>14 DEF Empties, Noting
<1>16. /\ lock'.meta.top = made.gens + 1 /\ Noting(p).gen = made.gens + 1
       /\ ~Noting(p).evicted /\ ~proc'[p].evicted
       /\ proc'[p].pc = proc[p].pc /\ proc'[p].hand = proc[p].hand
  BY <1>3, <1>7, <1>10, <1>14 DEF Noting
<1> QED
  BY <1>8, <1>14, <1>15, <1>16, <1>17 DEF ClearDoes, d

(* The file a housekeeping pass goes on with: its own, or a new one.       *)
Equips(p, f, a) ==
    /\ a.w \in Writers /\ a.w.file = f /\ a.w.pc = proc[p].pc /\ a.w.hand = proc[p].hand
    /\ a.w.evicted = meta.src[SourceOf[p]].evicted
    /\ IsDisk(a.d) /\ a.m \in Metas
    /\ a.m.top = meta.top /\ a.m.src[SourceOf[p]].gen = meta.src[SourceOf[p]].gen
    /\ a.m.src[SourceOf[p]].evicted = meta.src[SourceOf[p]].evicted
    /\ \A t \in Sources \ {SourceOf[p]} : a.m.src[t] = meta.src[t]
    /\ \/ /\ f = proc[p].file /\ f # NoFile /\ a.d = disk
          /\ a.m.src[SourceOf[p]].next = meta.src[SourceOf[p]].next
       \/ /\ NewFile(p, f, meta, disk) /\ a.d = WithFile(disk, f)
          /\ a.m.src[SourceOf[p]].next = f[3] + 1

Equipment(p, from) ==
    IF from.file = NoFile
    THEN FileAllocated(p, LoadMeta(from, meta, SourceOf[p]), meta, disk)
    ELSE [w |-> LoadMeta(from, meta, SourceOf[p]), m |-> meta, d |-> disk]

LEMMA PassHasAFile ==
    ASSUME LogTyped, NEW p \in Procs, NEW from \in Writers,
           from.pc = proc[p].pc, from.hand = proc[p].hand, from.file \in {proc[p].file, NoFile}
    PROVE  \E f \in FileNames : Equips(p, f, Equipment(p, from))
<1> DEFINE s == SourceOf[p]
           w == LoadMeta(from, meta, s)
           a == Equipment(p, from)
<1>1. s \in Sources /\ meta \in Metas /\ IsDisk(disk)
  BY DEF LogTyped
<1>2. meta.src[s] \in SourceMetas
  BY <1>1 DEF Metas
<1>3. /\ w \in Writers /\ w.pc = proc[p].pc /\ w.hand = proc[p].hand
      /\ w.evicted = meta.src[s].evicted /\ w.file = from.file
  BY <1>2 DEF LoadMeta, Writers, SourceMetas
<1> HIDE DEF w
<1>4. ASSUME from.file = NoFile
      PROVE  \E f \in FileNames : Equips(p, f, a)
  <2>1. a = FileAllocated(p, w, meta, disk)
    BY <1>4 DEF Equipment, w
  <2>2. PICK f \in FileNames : Allocates(p, w, meta, disk, f, a)
    BY <1>1, <1>3, <2>1, Allocation
  <2> HIDE DEF a
  <2>3. /\ NewFile(p, f, meta, disk) /\ f[3] \in Nat
        /\ a.w = [w EXCEPT !.file = f, !.bytes = 0] /\ a.w \in Writers
        /\ a.m = [meta EXCEPT !.src[s].next = f[3] + 1] /\ a.m \in Metas
        /\ a.d = WithFile(disk, f)
    BY <2>2 DEF Allocates
  <2>4. IsDisk(a.d)
    <3>1. f \notin DOMAIN disk
      BY <2>3 DEF NewFile
    <3>2. IsDisk(WithFile(disk, f))
      BY <1>1, <3>1, AddedFile
    <3> QED BY <2>3, <3>2
  <2>5. /\ a.m.top = meta.top /\ \A t \in Sources \ {s} : a.m.src[t] = meta.src[t]
        /\ a.m.src[s] = [meta.src[s] EXCEPT !.next = f[3] + 1]
    BY <1>1, <2>3 DEF Metas
  <2>6. /\ a.m.src[s].gen = meta.src[s].gen /\ a.m.src[s].evicted = meta.src[s].evicted
        /\ a.m.src[s].next = f[3] + 1
    BY <1>2, <2>5 DEF SourceMetas
  <2>7. /\ a.w.file = f /\ a.w.pc = proc[p].pc /\ a.w.hand = proc[p].hand
        /\ a.w.evicted = meta.src[s].evicted
    BY <1>3, <2>3 DEF Writers
  <2>8. Equips(p, f, a)
    BY <2>3, <2>4, <2>5, <2>6, <2>7 DEF Equips
  <2> QED BY <2>8
<1>5. ASSUME from.file # NoFile
      PROVE  \E f \in FileNames : Equips(p, f, a)
  <2>1. a.w = w /\ a.m = meta /\ a.d = disk
    BY <1>5 DEF Equipment, w
  <2>2. from.file \in FileNames /\ from.file = proc[p].file
    BY <1>5 DEF Writers
  <2> HIDE DEF a
  <2>3. Equips(p, from.file, a)
    BY <1>1, <1>3, <1>5, <2>1, <2>2 DEF Equips
  <2> QED BY <2>2, <2>3
<1> QED BY <1>4, <1>5

(* Fewer files with the same lines are no larger.                          *)
Cells(d, F) == UNION {{f} \X DOMAIN d[f] : f \in F}

LEMMA FewerLines ==
    ASSUME NEW d, NEW e, IsDisk(e), NEW F, NEW G, F \subseteq G, G \subseteq DOMAIN e,
           \A f \in F : d[f] = e[f]
    PROVE  Size(d, F) <= Size(e, G) /\ Size(d, F) \in Nat
<1> DEFINE Row(f) == {f} \X DOMAIN e[f]
           rows == {Row(f) : f \in G}
           g == [f \in G |-> Row(f)]
<1>1. IsFiniteSet(G)
  BY FS_Subset DEF IsDisk
<1>2. g \in Surjection(G, rows)
  BY DEF Surjection
<1>3. IsFiniteSet(rows)
  <2> HIDE DEF g, rows
  <2> QED BY <1>1, <1>2, FS_Surjection
<1>4. ASSUME NEW f \in G PROVE IsFiniteSet(Row(f))
  <2>1. e[f] \in Seq(RecordSet)
    BY DEF IsDisk
  <2>2. DOMAIN e[f] = 1..Len(e[f]) /\ Len(e[f]) \in Int /\ 1 \in Int
    BY <2>1
  <2>3. IsFiniteSet(DOMAIN e[f])
    BY <2>2, FS_Interval
  <2>4. IsFiniteSet({f})
    BY FS_Singleton
  <2> QED BY <2>3, <2>4, FS_Product
<1>5. \A T \in rows : IsFiniteSet(T)
  BY <1>4
<1>6. IsFiniteSet(Cells(e, G))
  <2>1. Cells(e, G) = UNION rows
    BY DEF Cells
  <2> HIDE DEF rows
  <2> QED BY <1>3, <1>5, <2>1, FS_UNION
<1>7. Cells(d, F) \subseteq Cells(e, G)
  BY DEF Cells
<1>8. Cardinality(Cells(d, F)) <= Cardinality(Cells(e, G)) /\ Cardinality(Cells(d, F)) \in Nat
  BY <1>6, <1>7, FS_Subset, FS_CardinalityType
<1>9. Size(d, F) = Cardinality(Cells(d, F)) /\ Size(e, G) = Cardinality(Cells(e, G))
  BY DEF Size, Cells
<1> QED BY <1>8, <1>9

(* What a pass leaves: V is what the budget took, `ttl' tells whether old   *)
(* records went as well.                                                   *)
PassLeaves(p, V, ttl) ==
    LET s == SourceOf[p]
        f == proc'[p].file
    IN  /\ f \in FileNames
        /\ \/ /\ f = proc[p].file /\ f # NoFile /\ DOMAIN disk' \subseteq DOMAIN disk
              /\ Noting(p).next = meta.src[s].next
           \/ /\ NewFile(p, f, meta, disk) /\ DOMAIN disk' \subseteq DOMAIN disk \cup {f}
              /\ f \in DOMAIN disk' => disk'[f] = <<>>
              /\ Noting(p).next = f[3] + 1
        /\ \A g \in DOMAIN disk' \cap DOMAIN disk :
              LinesIn(disk', g) \subseteq LinesIn(disk, g) /\ Readable(disk'[g]) \subseteq Readable(disk[g])
        /\ V \subseteq FilesOf(disk, s) /\ \A v \in V : v \notin DOMAIN disk'
        /\ \A v \in V, g \in FilesOf(disk', s) \ {f} : g \notin left'.pass => v[3] <= g[3]
        /\ \A g \in DOMAIN disk : \A r \in Readable(disk[g]) :
              Kept(r) => \/ g \in V \/ (ttl /\ g \in left'.pass)
                         \/ g \in DOMAIN disk' /\ r \in Readable(disk'[g])

(* What does not end within the limits is left behind.                     *)
PassLimits(p, ttl) ==
    LET s == SourceOf[p]
        f == proc'[p].file
        closed == FilesOf(disk', s) \ {f}
    IN  /\ \/ Cardinality(FilesOf(disk', s)) <= MaxFiles /\ Size(disk', closed) <= SourceCap
           \/ closed \subseteq left'.pass
        /\ ttl => \A g \in closed : g \notin left'.pass => \A r \in LinesIn(disk', g) : Kept(r)
        /\ \A g \in DOMAIN disk : g[1] # s \/ g = f => g \in DOMAIN disk' /\ disk'[g] = disk[g]

LeavesBehind(p, ttl) ==
    LET s == SourceOf[p]
        f == proc'[p].file
    IN  /\ left'.clear = left.clear
        /\ \A g \in left'.pass : g # f /\ (g \in FilesOf(disk, s) \/ (g \in left.pass /\ (ttl => g[1] # s)))
        /\ \A g \in left.pass : (ttl => g[1] # s) /\ g # f => g \in left'.pass

HousekeepDoes(p, V, ttl) ==
    /\ SameGen(p) /\ proc'[p].pc = proc[p].pc /\ proc'[p].hand = proc[p].hand
    /\ proc'[p].evicted = Noting(p).evicted
    /\ Noting(p).evicted <=> meta.src[SourceOf[p]].evicted \/ V # {}
    /\ pruned' = pruned \/ (V # {} /\ pruned' = pruned \cup {SourceOf[p]})
    /\ PassLeaves(p, V, ttl) /\ PassLimits(p, ttl) /\ LeavesBehind(p, ttl)
    /\ left' \in [pass : SUBSET FileNames, clear : SUBSET FileNames]
    /\ \E n \in Nat : made' = [made EXCEPT !.faults = n]

(* The files of which all could be read are those of which a compaction    *)
(* leaves only what is shown.                                              *)
PassedFiles(e, f, s, ttl, reach, d) ==
    /\ ReadUpTo(e, FilesOf(e, s) \ {f}, reach)
    /\ ~ttl => reach = Ends(e, FilesOf(e, s) \ {f})
    /\ d = IF ttl THEN Compact(e, FilesOf(e, s) \ {f}, reach) ELSE e
AfterPassing(e, f, s, ttl, reach, d) ==
    LET unread == {g \in FilesOf(e, s) \ {f} : ttl /\ reach[g] < Len(e[g])} IN
    /\ IsDisk(d) /\ DOMAIN d \subseteq DOMAIN e
    /\ \A g \in DOMAIN d : LinesIn(d, g) \subseteq LinesIn(e, g) /\ Readable(d[g]) \subseteq Readable(e[g])
    /\ \A g \in DOMAIN e : \A r \in Readable(e[g]) :
         Kept(r) => g \in unread \/ (g \in DOMAIN d /\ r \in Readable(d[g]))
    /\ \A g \in DOMAIN e : g[1] # s \/ g = f => g \in DOMAIN d /\ d[g] = e[g]
    /\ ttl => \A g \in FilesOf(d, s) \ {f} : g \notin unread => \A r \in LinesIn(d, g) : Kept(r)

LEMMA PassFiles ==
    ASSUME NEW e, IsDisk(e), NEW f, NEW s, NEW ttl \in BOOLEAN, NEW reach, NEW d,
           PassedFiles(e, f, s, ttl, reach, d)
    PROVE  AfterPassing(e, f, s, ttl, reach, d)
<1>0. /\ ReadUpTo(e, FilesOf(e, s) \ {f}, reach)
      /\ ~ttl => reach = Ends(e, FilesOf(e, s) \ {f})
      /\ d = IF ttl THEN Compact(e, FilesOf(e, s) \ {f}, reach) ELSE e
  BY DEF PassedFiles
<1> DEFINE F == FilesOf(e, s) \ {f}
           unread == {g \in F : ttl /\ reach[g] < Len(e[g])}
           c == Compact(e, F, reach)
<1>1. F \in SUBSET DOMAIN e /\ \A g \in DOMAIN e : g[1] # s \/ g = f => g \notin F
  BY DEF FilesOf
<1>2. ReadUpTo(e, F, reach)
  BY <1>0
<1>3. \A g \in F : e[g] \in Seq(RecordSet) /\ reach[g] \in Nat /\ Len(e[g]) \in Nat
                   /\ End(e[g]) \in Nat /\ End(e[g]) <= Len(e[g]) /\ reach[g] <= End(e[g])
  <2> TAKE g \in F
  <2>1. e[g] \in Seq(RecordSet)
    BY <1>1 DEF IsDisk
  <2> HIDE DEF F
  <2> QED BY <1>2, <2>1, EndOfReading DEF ReadUpTo
<1>4. /\ IsDisk(c) /\ DOMAIN c \subseteq DOMAIN e /\ DOMAIN e \ F \subseteq DOMAIN c
      /\ \A g \in DOMAIN c : LinesIn(c, g) \subseteq LinesIn(e, g)
      /\ \A g \in DOMAIN c : Readable(c[g]) \subseteq Readable(e[g])
      /\ \A g \in DOMAIN c : g \notin F => c[g] = e[g]
      /\ \A g \in F : \A n \in 1..reach[g] : Kept(e[g][n]) => g \in DOMAIN c /\ e[g][n] \in Readable(c[g])
      /\ \A g \in F : g \in DOMAIN c /\ reach[g] = Len(e[g]) => \A r \in LinesIn(c, g) : Kept(r)
  <2> HIDE DEF F
  <2>1. IsDisk(c) /\ DOMAIN c \subseteq DOMAIN e /\ DOMAIN e \ F \subseteq DOMAIN c
    BY <1>1, <1>2, CompactedDisk
  <2>2. \A g \in F : \A n \in 1..reach[g] : Kept(e[g][n]) => g \in DOMAIN c /\ e[g][n] \in Readable(c[g])
    BY <1>1, <1>2, CompactedDisk
  <2>3. \A g \in F : g \in DOMAIN c /\ reach[g] = Len(e[g]) => \A r \in LinesIn(c, g) : Kept(r)
    BY <1>1, <1>2, CompactedDisk
  <2>4. \A g \in DOMAIN c : LinesIn(c, g) \subseteq LinesIn(e, g)
    BY <1>1, <1>2, CompactedDisk
  <2>5. \A g \in DOMAIN c : Readable(c[g]) \subseteq Readable(e[g])
    BY <1>1, <1>2, CompactedDisk
  <2>6. \A g \in DOMAIN c : g \notin F => c[g] = e[g]
    BY <1>1, <1>2, CompactedDisk
  <2> QED BY <2>1, <2>2, <2>3, <2>4, <2>5, <2>6
<1>5. CASE ~ttl
  <2>1. d = e /\ IsDisk(e)
    BY <1>0, <1>5
  <2>2. \A g \in FilesOf(d, s) \ {f} : g \in DOMAIN e
    BY <2>1 DEF FilesOf
  <2> QED BY <1>5, <2>1 DEF AfterPassing
<1>6. CASE ttl
  <2>1. d = c /\ \A g \in F : g \notin unread => ~(reach[g] < Len(e[g]))
    BY <1>0, <1>6
  <2>2. \A g \in unread : g \in F
    OBVIOUS
  <2> HIDE DEF c, unread
  <2>3. \A g \in F : g \notin unread => reach[g] = Len(e[g]) /\ reach[g] = End(e[g])
    <3> HIDE DEF F
    <3> QED BY <1>3, <2>1
  <2>4. ASSUME NEW g \in DOMAIN e, NEW r \in Readable(e[g]), Kept(r), g \notin unread
        PROVE  g \in DOMAIN c /\ r \in Readable(c[g])
    <3>1. CASE g \in F
      <4>1. PICK n \in 1..End(e[g]) : r = e[g][n]
        BY DEF Readable
      <4>2. n \in 1..reach[g]
        <5> HIDE DEF F
        <5> QED BY <2>3, <2>4, <3>1
      <4> HIDE DEF F
      <4> QED BY <1>4, <2>4, <3>1, <4>1, <4>2
    <3>2. CASE g \notin F
      <4>1. g \in DOMAIN c /\ c[g] = e[g]
        <5> HIDE DEF F
        <5> QED BY <1>4, <3>2
      <4> QED BY <2>4, <4>1
    <3> QED BY <3>1, <3>2
  <2>5. ASSUME NEW g \in FilesOf(c, s) \ {f}, g \notin unread, NEW r \in LinesIn(c, g) PROVE Kept(r)
    <3>1. g \in F /\ g \in DOMAIN c
      BY <1>4 DEF FilesOf
    <3> HIDE DEF F
    <3> QED BY <1>4, <2>3, <2>5, <3>1
  <2>6. \A g \in DOMAIN e : g[1] # s \/ g = f => g \in DOMAIN c /\ c[g] = e[g]
    <3> HIDE DEF F
    <3> QED BY <1>1, <1>4
  <2> HIDE DEF F
  <2>7. /\ IsDisk(c) /\ DOMAIN c \subseteq DOMAIN e
        /\ \A g \in DOMAIN c : LinesIn(c, g) \subseteq LinesIn(e, g) /\ Readable(c[g]) \subseteq Readable(e[g])
        /\ \A g \in DOMAIN e : \A r \in Readable(e[g]) :
                Kept(r) => g \in unread \/ (g \in DOMAIN c /\ r \in Readable(c[g]))
        /\ \A g \in DOMAIN e : g[1] # s \/ g = f => g \in DOMAIN c /\ c[g] = e[g]
        /\ \A g \in FilesOf(c, s) \ {f} : g \notin unread => \A r \in LinesIn(c, g) : Kept(r)
    BY <1>4, <2>4, <2>5, <2>6
  <2> QED BY <1>6, <2>1, <2>7 DEF unread, F, AfterPassing
<1> QED BY <1>5, <1>6

(* The budget takes the oldest it can.                                     *)
TakenBy(d, s, f, stuck, V, d2) ==
    /\ V \subseteq FilesOf(d, s) \ {f}
    /\ IsDisk(d2) /\ DOMAIN d2 = DOMAIN d \ V /\ \A g \in DOMAIN d2 : d2[g] = d[g]
    /\ \A v \in V, g \in FilesOf(d2, s) \ {f} : g \notin stuck => v[3] <= g[3]
    /\ \/ /\ Cardinality(FilesOf(d2, s)) <= MaxFiles
          /\ Size(d2, FilesOf(d2, s) \ {f}) <= SourceCap
       \/ FilesOf(d2, s) \ {f} \subseteq stuck

LEMMA VictimsFound ==
    ASSUME NEW d, IsDisk(d), NEW s, NEW f, NEW stuck, NEW T \in Victims(d, s, f, stuck)
    PROVE  TakenBy(d, s, f, stuck, T \ stuck, Without(d, T \ stuck))
<1> DEFINE V == T \ stuck
           closed == FilesOf(d, s) \ {f}
           d2 == Without(d, V)
<1>1. /\ T \subseteq closed /\ stuck \subseteq T
      /\ \A v \in T, g \in closed \ T : v[3] <= g[3]
      /\ \/ /\ Cardinality(FilesOf(d, s) \ V) <= MaxFiles
            /\ Size(d, FilesOf(d, s) \ V) <= SourceCap
         \/ T = closed
  BY DEF Victims
<1>2. IsDisk(d2) /\ DOMAIN d2 = DOMAIN d \ V /\ \A g \in DOMAIN d2 : d2[g] = d[g]
  <2> HIDE DEF V
  <2> QED BY DroppedFiles
<1> HIDE DEF d2
<1>3. FilesOf(d2, s) = FilesOf(d, s) \ V
  <2> HIDE DEF V
  <2> QED BY <1>2 DEF FilesOf
<1>4. ASSUME NEW v \in V, NEW g \in FilesOf(d2, s) \ {f}, g \notin stuck PROVE v[3] <= g[3]
  <2>1. g \in closed \ T /\ v \in T
    BY <1>3, <1>4
  <2> HIDE DEF closed, V
  <2> QED BY <1>1, <2>1
<1>5. CASE T = closed
  <2>1. FilesOf(d2, s) \ {f} \subseteq stuck
    BY <1>3, <1>5
  <2> QED BY <1>1, <1>2, <1>4, <2>1 DEF TakenBy, d2
<1>6. CASE Cardinality(FilesOf(d, s) \ V) <= MaxFiles /\ Size(d, FilesOf(d, s) \ V) <= SourceCap
  <2> DEFINE G == FilesOf(d, s) \ V
             F == FilesOf(d2, s) \ {f}
  <2>1. F \subseteq G /\ G \subseteq DOMAIN d /\ \A g \in F : d2[g] = d[g]
    BY <1>2, <1>3 DEF FilesOf
  <2>2. Size(d, G) <= SourceCap /\ Cardinality(FilesOf(d2, s)) <= MaxFiles
    BY <1>3, <1>6
  <2> HIDE DEF F, G
  <2>3. Size(d2, F) <= Size(d, G) /\ Size(d2, F) \in Nat /\ Size(d, G) \in Nat
    <3>1. Size(d2, F) <= Size(d, G) /\ Size(d2, F) \in Nat
      BY <2>1, FewerLines
    <3>2. Size(d, G) \in Nat
      BY <2>1, FewerLines
    <3> QED BY <3>1, <3>2
  <2>4. SourceCap \in Nat
    BY LogConstants DEF LogConstants
  <2>5. Size(d2, F) <= SourceCap
    BY <2>2, <2>3, <2>4
  <2> QED BY <1>1, <1>2, <1>4, <2>2, <2>5 DEF F, TakenBy, d2
<1> QED BY <1>1, <1>5, <1>6

PicksOf(p, op, ttl, a, closed, reach, stuck, T) ==
    LET d == IF ttl THEN Compact(a.d, closed, reach) ELSE a.d
        unread == {g \in closed : ttl /\ reach[g] < Len(a.d[g])}
        V == T \ stuck
        evicted == a.w.evicted \/ V # {}
    IN  /\ ReadUpTo(a.d, closed, reach) /\ (~ttl => reach = Ends(a.d, closed))
        /\ stuck \subseteq closed
        /\ T \in Victims(d, SourceOf[p], a.w.file, stuck)
        /\ Section(p, op, [a.m EXCEPT !.src[SourceOf[p]].evicted = evicted],
                   Without(d, V), [a.w EXCEPT !.evicted = evicted])
        /\ pruned' = pruned \/ (V # {} /\ pruned' = pruned \union {SourceOf[p]})
        /\ left' = [left EXCEPT !.pass =
              ((IF ttl THEN OfOthers(@, SourceOf[p]) ELSE @) \union unread \union stuck)
                 \ {a.w.file}]

Chosen(p, op, ttl, a) ==
    /\ \E n \in Nat : made' = [made EXCEPT !.faults = n]
    /\ \E reach, stuck, T :
         PicksOf(p, op, ttl, a, FilesOf(a.d, SourceOf[p]) \ {a.w.file}, reach, stuck, T)

LEMMA HousekeepPicks ==
    ASSUME LogTyped, NEW p \in Procs, NEW op, NEW from, NEW ttl \in BOOLEAN,
           Housekeep(p, op, from, ttl), IsDisk(Equipment(p, from).d)
    PROVE  Chosen(p, op, ttl, Equipment(p, from))
<1> DEFINE s == SourceOf[p]
           a == Equipment(p, from)
           closed == FilesOf(a.d, s) \ {a.w.file}
           ends == Ends(a.d, closed)
           reaches == IF ttl /\ Fault THEN Reaches(a.d, closed) ELSE {ends}
           D(reach) == IF ttl THEN Compact(a.d, closed, reach) ELSE a.d
           U(reach) == {g \in closed : ttl /\ reach[g] < Len(a.d[g])}
           Does(reach, stuck) ==
               \E T \in Victims(D(reach), s, a.w.file, stuck) :
                    LET V == T \ stuck
                        evicted == a.w.evicted \/ V # {}
                    IN  /\ Section(p, op, [a.m EXCEPT !.src[s].evicted = evicted],
                                   Without(D(reach), V), [a.w EXCEPT !.evicted = evicted])
                        /\ pruned' = IF \E g \in V : \E n \in DOMAIN D(reach)[g] : Kept(D(reach)[g][n])
                                     THEN pruned \union {s} ELSE pruned
                        /\ left' = [left EXCEPT !.pass =
                              ((IF ttl THEN OfOthers(@, s) ELSE @) \union U(reach) \union stuck)
                                 \ {a.w.file}]
                        /\ IF reach = ends /\ stuck = {} THEN UNCHANGED made ELSE Faulted
<1>1. PICK reach \in reaches, stuck \in IF Fault THEN SUBSET closed ELSE {{}} : Does(reach, stuck)
  BY DEF Housekeep, Equipment
<1>8. IF reach = ends /\ stuck = {} THEN UNCHANGED made ELSE Faulted
  BY <1>1
<1>2. \E n \in Nat : made' = [made EXCEPT !.faults = n]
  <2>1. made = [made EXCEPT !.faults = made.faults] /\ made.faults \in Nat /\ made.faults + 1 \in Nat
    BY DEF LogTyped, MadeTyped
  <2> QED BY <1>8, <2>1 DEF Faulted
<1>3. stuck \subseteq closed
  BY <1>1
<1>4. \A g \in closed : a.d[g] \in Seq(RecordSet) /\ End(a.d[g]) \in Nat
  <2> TAKE g \in closed
  <2>1. g \in DOMAIN a.d
    BY DEF FilesOf
  <2>2. a.d[g] \in Seq(RecordSet)
    BY <2>1 DEF IsDisk
  <2> QED BY <2>2, EndOfReading
<1>5. ReadUpTo(a.d, closed, reach) /\ (~ttl => reach = ends)
  <2> HIDE DEF a, closed
  <2>1. CASE reach = ends
    BY <1>4, <2>1 DEF ReadUpTo, Ends
  <2>2. CASE ttl /\ reach \in Reaches(a.d, closed)
    BY <1>4, <2>2 DEF ReadUpTo, Reaches
  <2> QED BY <1>1, <2>1, <2>2
<1>6. PICK T \in Victims(D(reach), s, a.w.file, stuck) :
        LET V == T \ stuck
            evicted == a.w.evicted \/ V # {}
        IN  /\ Section(p, op, [a.m EXCEPT !.src[s].evicted = evicted],
                       Without(D(reach), V), [a.w EXCEPT !.evicted = evicted])
            /\ pruned' = IF \E g \in V : \E n \in DOMAIN D(reach)[g] : Kept(D(reach)[g][n])
                         THEN pruned \union {s} ELSE pruned
            /\ left' = [left EXCEPT !.pass =
                  ((IF ttl THEN OfOthers(@, s) ELSE @) \union U(reach) \union stuck)
                     \ {a.w.file}]
  BY <1>1
<1>7. pruned' = pruned \/ (T \ stuck # {} /\ pruned' = pruned \union {s})
  BY <1>6
<1>9. PicksOf(p, op, ttl, a, closed, reach, stuck, T)
  <2> HIDE DEF a, closed
  <2> QED BY <1>3, <1>5, <1>6, <1>7 DEF PicksOf
<1>10. \E r, k, T2 : PicksOf(p, op, ttl, a, closed, r, k, T2)
  <2> HIDE DEF a, closed
  <2> QED BY <1>9
<1> QED BY <1>2, <1>10 DEF Chosen

LEMMA HousekeepSection ==
    ASSUME LogTyped, NEW p \in Procs, NEW op \in Ops, NEW from \in Writers, NEW ttl \in BOOLEAN,
           from.pc = proc[p].pc, from.hand = proc[p].hand, from.file \in {proc[p].file, NoFile},
           Housekeep(p, op, from, ttl), UNCHANGED <<queue, epochs, command, missed>>
    PROVE  SectionBegins(p, op) /\ \E V : HousekeepDoes(p, V, ttl)
<1> DEFINE s == SourceOf[p]
           a == Equipment(p, from)
           f == a.w.file
<1>1. f \in FileNames /\ Equips(p, f, a)
  <2>1. PICK k \in FileNames : Equips(p, k, a)
    BY PassHasAFile
  <2>2. a.w.file = k
    BY <2>1 DEF Equips
  <2> HIDE DEF a
  <2> QED BY <2>1, <2>2
<1>2. /\ a.w \in Writers /\ a.w.file = f /\ a.w.pc = proc[p].pc /\ a.w.hand = proc[p].hand
      /\ a.w.evicted = meta.src[s].evicted
      /\ IsDisk(a.d) /\ a.m \in Metas
      /\ a.m.top = meta.top /\ a.m.src[s].gen = meta.src[s].gen
      /\ a.m.src[s].evicted = meta.src[s].evicted
      /\ \A t \in Sources \ {s} : a.m.src[t] = meta.src[t]
      /\ \/ /\ f = proc[p].file /\ f # NoFile /\ a.d = disk
            /\ a.m.src[s].next = meta.src[s].next
         \/ /\ NewFile(p, f, meta, disk) /\ a.d = WithFile(disk, f)
            /\ a.m.src[s].next = f[3] + 1
  BY <1>1 DEF Equips
<1>3. s \in Sources /\ IsDisk(disk) /\ meta \in Metas /\ proc \in [Procs -> Writers]
      /\ left \in [pass : SUBSET FileNames, clear : SUBSET FileNames]
  BY DEF LogTyped
<1>40. f \in FileNames
  BY <1>1
<1> DEFINE e == a.d
           closed == FilesOf(e, s) \ {f}
<1>4. /\ \E n \in Nat : made' = [made EXCEPT !.faults = n]
      /\ \E reach, stuck, T : PicksOf(p, op, ttl, a, closed, reach, stuck, T)
  <2>1. IsDisk(Equipment(p, from).d)
    BY <1>2
  <2>2. Chosen(p, op, ttl, Equipment(p, from))
    BY <2>1, HousekeepPicks
  <2> QED BY <2>2 DEF Chosen
<1>5. PICK reach, stuck, T : PicksOf(p, op, ttl, a, closed, reach, stuck, T)
  <2> HIDE DEF a, closed
  <2> QED BY <1>4
<1> DEFINE d == IF ttl THEN Compact(e, closed, reach) ELSE e
           unread == {g \in closed : ttl /\ reach[g] < Len(e[g])}
<1> DEFINE V == T \ stuck
           evicted == a.w.evicted \/ V # {}
           m2 == [a.m EXCEPT !.src[s].evicted = evicted]
           n2 == [a.m.src[s] EXCEPT !.evicted = evicted]
           w2 == [a.w EXCEPT !.evicted = evicted]
           d2 == Without(d, V)
<1>7. /\ Section(p, op, m2, d2, w2)
      /\ pruned' = pruned \/ (V # {} /\ pruned' = pruned \union {s})
      /\ left' = [left EXCEPT !.pass =
            ((IF ttl THEN OfOthers(@, s) ELSE @) \union unread \union stuck) \ {f}]
      /\ ReadUpTo(e, closed, reach) /\ (~ttl => reach = Ends(e, closed))
      /\ stuck \subseteq closed /\ T \in Victims(d, s, f, stuck)
  <2> HIDE DEF a, closed
  <2> QED BY <1>5 DEF PicksOf
(* What it will write of meta.json.                                        *)
<1>8. evicted \in BOOLEAN /\ (evicted <=> meta.src[s].evicted \/ V # {})
  BY <1>2
<1> HIDE DEF evicted, a, f
<1>9. a.m.src[s] \in SourceMetas /\ n2 \in SourceMetas
  BY <1>2, <1>3, <1>8 DEF Metas, SourceMetas
<1>10. m2.src = [a.m.src EXCEPT ![s] = n2] /\ m2.top = meta.top
  BY <1>2, <1>3 DEF Metas
<1>11. m2 \in Metas
  BY <1>2, <1>9, <1>10 DEF Metas
<1>12. /\ m2.src[s] = n2 /\ \A t \in Sources \ {s} : m2.src[t] = meta.src[t]
       /\ n2.gen = meta.src[s].gen /\ n2.evicted = evicted /\ n2.next = a.m.src[s].next
  <2>2. n2.gen = a.m.src[s].gen /\ n2.evicted = evicted /\ n2.next = a.m.src[s].next
    BY <1>9 DEF SourceMetas
  <2> HIDE DEF m2, n2
  <2> QED BY <1>2, <1>3, <1>10, <2>2 DEF Metas
<1>13. /\ w2 \in Writers /\ w2.file = f /\ w2.pc = proc[p].pc /\ w2.hand = proc[p].hand
       /\ w2.evicted = evicted
  BY <1>2, <1>8 DEF Writers
<1> HIDE DEF m2, n2, w2
(* The files.                                                              *)
<1>14. d = IF ttl THEN Compact(e, closed, reach) ELSE e
  OBVIOUS
<1>15. /\ ReadUpTo(e, closed, reach) /\ (~ttl => reach = Ends(e, closed)) /\ stuck \subseteq closed
       /\ unread \subseteq closed
  BY <1>7
<1>16. IsDisk(e)
  BY <1>2
<1> HIDE DEF d, e
<1>39. unread = {g \in FilesOf(e, s) \ {f} : ttl /\ reach[g] < Len(e[g])}
  OBVIOUS
<1>17. /\ IsDisk(d) /\ DOMAIN d \subseteq DOMAIN e
       /\ \A g \in DOMAIN d : LinesIn(d, g) \subseteq LinesIn(e, g) /\ Readable(d[g]) \subseteq Readable(e[g])
       /\ \A g \in DOMAIN e : \A r \in Readable(e[g]) :
            Kept(r) => g \in unread \/ (g \in DOMAIN d /\ r \in Readable(d[g]))
       /\ \A g \in DOMAIN e : g[1] # s \/ g = f => g \in DOMAIN d /\ d[g] = e[g]
       /\ ttl => \A g \in FilesOf(d, s) \ {f} : g \notin unread => \A r \in LinesIn(d, g) : Kept(r)
  <2>1. PassedFiles(e, f, s, ttl, reach, d)
    BY <1>14, <1>15 DEF PassedFiles
  <2>2. AfterPassing(e, f, s, ttl, reach, d)
    BY <1>16, <2>1, PassFiles
  <2> HIDE DEF unread
  <2> QED BY <1>39, <2>2 DEF AfterPassing
<1>18. /\ V \subseteq FilesOf(d, s) \ {f}
       /\ IsDisk(d2) /\ DOMAIN d2 = DOMAIN d \ V /\ \A g \in DOMAIN d2 : d2[g] = d[g]
       /\ \A v \in V, g \in FilesOf(d2, s) \ {f} : g \notin stuck => v[3] <= g[3]
       /\ \/ /\ Cardinality(FilesOf(d2, s)) <= MaxFiles
             /\ Size(d2, FilesOf(d2, s) \ {f}) <= SourceCap
          \/ FilesOf(d2, s) \ {f} \subseteq stuck
  <2>1. T \in Victims(d, s, f, stuck)
    BY <1>7
  <2>2. TakenBy(d, s, f, stuck, V, d2)
    BY <1>17, <2>1, VictimsFound
  <2> HIDE DEF V, d2
  <2> QED BY <2>2 DEF TakenBy
<1> HIDE DEF V, d2, unread
<1>19. /\ SectionBegins(p, op)
       /\ lock'.meta = m2 /\ disk' = d2 /\ proc'[p] = w2
  BY <1>7, <1>11, <1>12, <1>13, <1>18, SectionSummary
<1>20. SameGen(p) /\ Noting(p).evicted = evicted /\ Noting(p).next = a.m.src[s].next
  BY <1>10, <1>12, <1>19 DEF SameGen, Noting
<1>21. proc'[p].file = f
  BY <1>13, <1>19
<1>22. \/ /\ f = proc[p].file /\ f # NoFile /\ e = disk /\ Noting(p).next = meta.src[s].next
       \/ /\ NewFile(p, f, meta, disk) /\ Noting(p).next = f[3] + 1
          /\ DOMAIN e = DOMAIN disk \cup {f} /\ e[f] = <<>> /\ f \notin DOMAIN disk
          /\ \A g \in DOMAIN disk : e[g] = disk[g]
  <2>1. \/ /\ f = proc[p].file /\ f # NoFile /\ e = disk /\ Noting(p).next = meta.src[s].next
        \/ NewFile(p, f, meta, disk) /\ e = WithFile(disk, f) /\ Noting(p).next = f[3] + 1
    BY <1>2, <1>20 DEF e
  <2>2. ASSUME NewFile(p, f, meta, disk), e = WithFile(disk, f)
        PROVE  /\ DOMAIN e = DOMAIN disk \cup {f} /\ e[f] = <<>> /\ f \notin DOMAIN disk
               /\ \A g \in DOMAIN disk : e[g] = disk[g]
    <3>1. f \notin DOMAIN disk
      BY <2>2 DEF NewFile
    <3>2. /\ DOMAIN WithFile(disk, f) = DOMAIN disk \cup {f} /\ WithFile(disk, f)[f] = <<>>
          /\ \A g \in DOMAIN disk : WithFile(disk, f)[g] = disk[g]
      BY <1>3, <1>40, <3>1, AddedFile
    <3> QED BY <2>2, <3>1, <3>2
  <2> QED BY <2>1, <2>2
<1>23. /\ \A g \in DOMAIN disk : g \in DOMAIN e /\ e[g] = disk[g]
       /\ \A g \in DOMAIN e : g # f => g \in DOMAIN disk
  BY <1>22
<1>24. closed \subseteq FilesOf(disk, s)
  BY <1>23 DEF FilesOf
<1>25. V \subseteq FilesOf(disk, s) /\ f \notin V
  BY <1>17, <1>18, <1>23 DEF FilesOf
<1> HIDE DEF closed
<1>26. /\ left'.clear = left.clear
       /\ left'.pass = ((IF ttl THEN OfOthers(left.pass, s) ELSE left.pass) \union unread \union stuck) \ {f}
       /\ left' = [pass |-> left'.pass, clear |-> left'.clear]
  BY <1>3, <1>7
<1>27. LeavesBehind(p, ttl)
  <2>1. unread \subseteq FilesOf(disk, s) /\ stuck \subseteq FilesOf(disk, s)
    BY <1>15, <1>24
  <2> QED BY <1>21, <1>26, <2>1 DEF LeavesBehind, OfOthers
<1>28. left' \in [pass : SUBSET FileNames, clear : SUBSET FileNames]
  <2>1. unread \subseteq FileNames /\ stuck \subseteq FileNames
    BY <1>3, <1>15, <1>24 DEF FilesOf, IsDisk
  <2> QED BY <1>3, <1>26, <2>1 DEF OfOthers
<1>29. \A g \in FilesOf(d2, s) \ {f} : g \in unread \/ g \in stuck => g \in left'.pass
  BY <1>26
<1>30. PassLimits(p, ttl)
  <2>1. \/ Cardinality(FilesOf(d2, s)) <= MaxFiles /\ Size(d2, FilesOf(d2, s) \ {f}) <= SourceCap
        \/ FilesOf(d2, s) \ {f} \subseteq left'.pass
    BY <1>18, <1>29
  <2>2. ASSUME ttl, NEW g \in FilesOf(d2, s) \ {f}, g \notin left'.pass, NEW r \in LinesIn(d2, g)
        PROVE  Kept(r)
    <3>1. g \in FilesOf(d, s) \ {f} /\ g \notin unread /\ d2[g] = d[g]
      BY <1>18, <1>29, <2>2 DEF FilesOf
    <3>2. LinesIn(d2, g) = LinesIn(d, g)
      BY <3>1 DEF LinesIn
    <3> QED BY <1>17, <2>2, <3>1, <3>2
  <2>3. ASSUME NEW g \in DOMAIN disk, g[1] # s \/ g = f
        PROVE  g \in DOMAIN d2 /\ d2[g] = disk[g]
    <3>1. g \in DOMAIN e /\ e[g] = disk[g] /\ g \in DOMAIN d /\ d[g] = e[g]
      BY <1>17, <1>23, <2>3
    <3>2. g \notin V
      BY <1>25, <2>3 DEF FilesOf
    <3> QED BY <1>18, <3>1, <3>2
  <2> QED BY <1>19, <1>21, <2>1, <2>2, <2>3 DEF PassLimits
<1>31. ASSUME NEW g \in DOMAIN disk' \cap DOMAIN disk
       PROVE  LinesIn(disk', g) \subseteq LinesIn(disk, g) /\ Readable(disk'[g]) \subseteq Readable(disk[g])
  <2>1. g \in DOMAIN d /\ g \in DOMAIN d2 /\ d2[g] = d[g] /\ e[g] = disk[g]
    BY <1>18, <1>19, <1>23
  <2>2. LinesIn(d, g) \subseteq LinesIn(e, g) /\ Readable(d[g]) \subseteq Readable(e[g])
    BY <1>17, <2>1
  <2>3. LinesIn(d2, g) = LinesIn(d, g) /\ LinesIn(e, g) = LinesIn(disk, g)
    BY <2>1 DEF LinesIn
  <2> QED BY <1>19, <2>1, <2>2, <2>3
<1>32. ASSUME NEW g \in DOMAIN disk, NEW r \in Readable(disk[g]), Kept(r)
       PROVE  g \in V \/ (ttl /\ g \in left'.pass) \/ (g \in DOMAIN disk' /\ r \in Readable(disk'[g]))
  <2>1. g \in DOMAIN e /\ r \in Readable(e[g])
    BY <1>23
  <2>2. CASE g \in unread
    <3>1. ttl /\ g # f
      BY <2>2 DEF unread, closed
    <3> QED BY <1>26, <2>2, <3>1
  <2>3. CASE g \notin unread
    <3>1. g \in DOMAIN d /\ r \in Readable(d[g])
      BY <1>17, <1>32, <2>1, <2>3
    <3> QED BY <1>18, <1>19, <3>1
  <2> QED BY <2>2, <2>3
<1>33. \A v \in V, g \in FilesOf(disk', s) \ {f} : g \notin left'.pass => v[3] <= g[3]
  BY <1>18, <1>19, <1>29
<1>34. \/ /\ f = proc[p].file /\ f # NoFile /\ DOMAIN disk' \subseteq DOMAIN disk
          /\ Noting(p).next = meta.src[s].next
       \/ /\ NewFile(p, f, meta, disk) /\ DOMAIN disk' \subseteq DOMAIN disk \cup {f}
          /\ f \in DOMAIN disk' => disk'[f] = <<>>
          /\ Noting(p).next = f[3] + 1
  <2>1. DOMAIN disk' \subseteq DOMAIN e
    BY <1>17, <1>18, <1>19
  <2>2. ASSUME f \in DOMAIN disk' PROVE disk'[f] = e[f]
    BY <1>17, <1>18, <1>19, <2>1, <2>2
  <2> QED BY <1>22, <2>1, <2>2
<1>35. \A v \in V : v \notin DOMAIN disk'
  BY <1>18, <1>19
<1>36. PassLeaves(p, V, ttl)
  BY <1>21, <1>25, <1>31, <1>32, <1>33, <1>34, <1>35, <1>40 DEF PassLeaves
<1>37. /\ proc'[p].pc = proc[p].pc /\ proc'[p].hand = proc[p].hand
       /\ proc'[p].evicted = Noting(p).evicted
  BY <1>13, <1>19, <1>20
<1>38. HousekeepDoes(p, V, ttl)
  BY <1>4, <1>7, <1>8, <1>20, <1>27, <1>28, <1>30, <1>36, <1>37 DEF HousekeepDoes
<1> QED BY <1>19, <1>38

LEMMA MaintainSection ==
    ASSUME LogTyped, NEW p \in Procs, Maintain(p)
    PROVE  SectionBegins(p, "maintain") /\ \E V : HousekeepDoes(p, V, TRUE)
<1> DEFINE w == proc[p]
           from == IF w.bytes > 0 THEN [w EXCEPT !.file = NoFile, !.bytes = 0] ELSE w
<1>1. w \in Writers
  BY DEF LogTyped
<1>2. /\ from \in Writers /\ from.pc = w.pc /\ from.hand = w.hand
      /\ from.file \in {w.file, NoFile}
  BY <1>1 DEF Writers
<1>3. Housekeep(p, "maintain", from, TRUE) /\ UNCHANGED <<queue, epochs, command, missed>>
  BY DEF Maintain
<1>4. "maintain" \in Ops
  BY DEF Ops
<1> HIDE DEF from
<1> QED BY <1>2, <1>3, <1>4, HousekeepSection

LEMMA RotateSection ==
    ASSUME LogTyped, NEW p \in Procs, Rotate(p)
    PROVE  /\ SectionBegins(p, "rotate") /\ \E V : HousekeepDoes(p, V, FALSE)
           /\ proc[p].pc = "append"
<1> DEFINE w == proc[p]
           from == [w EXCEPT !.file = NoFile]
<1>1. w \in Writers
  BY DEF LogTyped
<1>2. /\ from \in Writers /\ from.pc = w.pc /\ from.hand = w.hand
      /\ from.file \in {w.file, NoFile}
  BY <1>1 DEF Writers
<1>3. /\ Housekeep(p, "rotate", from, FALSE) /\ UNCHANGED <<queue, epochs, command, missed>>
      /\ proc[p].pc = "append"
  BY DEF Rotate
<1>4. "rotate" \in Ops
  BY DEF Ops
<1> HIDE DEF from
<1> QED BY <1>2, <1>3, <1>4, HousekeepSection

----------------------------------------------------------------------------
(* Types are kept. *)

LEMMA AfterTyped ==
    ASSUME NEW w, NEW op, NEW ok PROVE After(w, op, ok) \in WriterStages
BY DEF After, WriterStages

LEMMA ToldTyped ==
    ASSUME CommandTyped, NEW ok
    PROVE  Told(ok) \in [at : {"none", "ask", "wait"}, owner : Sources, ok : SUBSET Sources, upto : Nat]
<1> DEFINE oks == IF ok THEN command.ok \union {command.owner} ELSE command.ok
           other == CHOOSE s \in Sources : s # App
<1>1. oks \in SUBSET Sources /\ command.upto \in Nat
  BY DEF CommandTyped
<1>2. Sources # {App} => other \in Sources
  <2>1. Sources # {App} => \E s \in Sources : s # App
    OBVIOUS
  <2> QED BY <2>1
<1> HIDE DEF oks, other
<1>3. Sources # {App} => [command EXCEPT !.ok = oks, !.at = "ask", !.owner = other]
        \in [at : {"none", "ask", "wait"}, owner : Sources, ok : SUBSET Sources, upto : Nat]
  BY <1>1, <1>2 DEF CommandTyped
<1>4. /\ NoCommand \in [at : {"none", "ask", "wait"}, owner : Sources, ok : SUBSET Sources, upto : Nat]
      /\ [NoCommand EXCEPT !.ok = oks, !.upto = command.upto]
            \in [at : {"none", "ask", "wait"}, owner : Sources, ok : SUBSET Sources, upto : Nat]
  BY <1>1 DEF NoCommand
<1> QED BY <1>3, <1>4 DEF Told, oks, other

LEMMA ClearCommandTyped == MadeTyped => ClearCommand \in RecordSet
<1> SUFFICES ASSUME MadeTyped PROVE ClearCommand \in RecordSet
  OBVIOUS
<1>1. made.clears \in 0..MaxClears
  BY DEF MadeTyped
<1>2. made.clears \in 0..(MaxTime + MaxClears) /\ -1 \in -1..MaxRecords
  BY <1>1, BoundsTyped
<1> QED BY <1>2 DEF ClearCommand, RecordSet

(* One line more in file f. *)
Grown(f, x) == [g \in DOMAIN disk |-> IF g = f THEN Append(disk[g], x) ELSE disk[g]]

LEMMA GrownDisk ==
    ASSUME IsDisk(disk), NEW x \in RecordSet, NEW f
    PROVE  /\ IsDisk(Grown(f, x)) /\ DOMAIN Grown(f, x) = DOMAIN disk
           /\ \A g \in DOMAIN disk : \A r \in LinesIn(Grown(f, x), g) :
                r \in LinesIn(disk, g) \/ (g = f /\ r = x)
           /\ \A g \in DOMAIN disk : LinesIn(disk, g) \subseteq LinesIn(Grown(f, x), g)
           /\ \A g \in DOMAIN disk : Readable(disk[g]) \subseteq Readable(Grown(f, x)[g])
           /\ \A g \in DOMAIN disk : g # f => Grown(f, x)[g] = disk[g]
<1> DEFINE d == Grown(f, x)
<1>1. DOMAIN d = DOMAIN disk /\ \A g \in DOMAIN disk : d[g] = IF g = f THEN Append(disk[g], x) ELSE disk[g]
  BY DEF Grown
<1>2. \A g \in DOMAIN disk : disk[g] \in Seq(RecordSet) /\ Append(disk[g], x) \in Seq(RecordSet)
  BY DEF IsDisk
<1>3. d \in [DOMAIN disk -> Seq(RecordSet)]
  BY <1>2 DEF Grown
<1>4. IsDisk(d)
  BY <1>1, <1>3 DEF IsDisk
<1>5. ASSUME NEW g \in DOMAIN disk
      PROVE  /\ \A r \in LinesIn(d, g) : r \in LinesIn(disk, g) \/ (g = f /\ r = x)
             /\ LinesIn(disk, g) \subseteq LinesIn(d, g)
             /\ Readable(disk[g]) \subseteq Readable(d[g])
  <2>1. CASE g = f
    <3> DEFINE ls == disk[g]
    <3>1. d[g] = Append(ls, x) /\ ls \in Seq(RecordSet)
      BY <1>1, <1>2, <2>1
    <3>2. LinesIn(d, g) = {d[g][n] : n \in DOMAIN d[g]} /\ LinesIn(disk, g) = {ls[n] : n \in DOMAIN ls}
      BY DEF LinesIn
    <3> HIDE DEF d, ls
    <3>3. DOMAIN d[g] = 1..(Len(ls) + 1) /\ DOMAIN ls = 1..Len(ls) /\ Len(ls) \in Nat
          /\ (\A k \in 1..Len(ls) : d[g][k] = ls[k]) /\ d[g][Len(ls) + 1] = x
      BY <3>1
    <3>4. \A n \in 1..(Len(ls) + 1) : n \in 1..Len(ls) \/ n = Len(ls) + 1
      BY <3>3
    <3>5. \A k \in 1..Len(ls) : k \in 1..(Len(ls) + 1)
      BY <3>3
    <3>6. Readable(ls) \subseteq Readable(d[g])
      BY <3>1, ReadableGrows
    <3> QED BY <2>1, <3>2, <3>3, <3>4, <3>5, <3>6 DEF ls
  <2>2. CASE g # f
    BY <1>1, <2>2 DEF LinesIn
  <2> QED BY <2>1, <2>2
<1> QED BY <1>1, <1>4, <1>5

(* The line that an append leaves at the end of a file of p: its record,   *)
(* or none.                                                                *)
LineFrom(p, x) ==
    /\ disk' = Grown(proc[p].file, x) /\ x \in RecordSet
    /\ Half(x) \/ x = proc[p].hand

LEMMA WritesALine ==
    ASSUME LogTyped, NEW p \in Procs, Write(p) \/ WriteFails(p)
    PROVE  \E x : LineFrom(p, x) /\ (WriteFails(p) => Half(x))
<1> DEFINE f == proc[p].file
           r == proc[p].hand
<1>1. r \in RecordSet
  BY DEF LogTyped, Writers
<1>2. Half(Torn) /\ Half(Spoiled) /\ Half(Garbled)
  BY DEF Half
<1>3. Torn \in RecordSet /\ Spoiled \in RecordSet /\ Garbled \in RecordSet
  BY <1>2, HalvesAreRecords
<1>4. CASE Write(p)
  <2> DEFINE x == IF disk[f] # <<>> /\ disk[f][Len(disk[f])] = Torn THEN Spoiled ELSE r
  <2>1. disk' = [g \in DOMAIN disk |-> IF g = f THEN Added(disk[g], r) ELSE disk[g]]
    BY <1>4 DEF Write
  <2>2. disk' = Grown(f, x)
    BY <2>1 DEF Grown, Added
  <2>3. x = Spoiled \/ x = r
    OBVIOUS
  <2>4. WriteFails(p) => Half(x)
    <3>1. SUFFICES ASSUME WriteFails(p) PROVE FALSE
      OBVIOUS
    <3>2. made.faults \in Nat /\ made' = [made EXCEPT !.faults = made.faults + 1] /\ made' = made
      BY <1>4, <3>1 DEF Write, WriteFails, Faulted, LogTyped, MadeTyped
    <3>3. made'.faults = made.faults + 1
      BY <3>2 DEF LogTyped, MadeTyped
    <3>4. made'.faults = made.faults
      BY <3>2
    <3> QED BY <3>2, <3>3, <3>4
  <2> HIDE DEF x
  <2> QED BY <1>1, <1>2, <1>3, <2>2, <2>3, <2>4 DEF LineFrom
<1>5. CASE WriteFails(p)
  <2>1. PICK x \in {Torn, Garbled} :
          disk' = [g \in DOMAIN disk |-> IF g = f THEN Append(disk[g], x) ELSE disk[g]]
    BY <1>5 DEF WriteFails
  <2> QED BY <1>2, <1>3, <2>1 DEF LineFrom, Grown
<1> QED BY <1>4, <1>5

(* What the other steps make of the writer of p: only its stage, its open  *)
(* file, its record in hand and its counters change.                       *)
OnlyWriter(p) == proc' \in [Procs -> Writers] /\ \A q \in Procs \ {p} : proc'[q] = proc[q]
Carries(p) == proc'[p].hand = proc[p].hand /\ proc'[p].evicted = proc[p].evicted
Same(p) == Carries(p) /\ proc'[p].file = proc[p].file

LEMMA CommitWriter ==
    ASSUME LogTyped, NEW p \in Procs, Commit(p)
    PROVE  OnlyWriter(p) /\ Same(p) /\ proc'[p].pc = After(proc[p], lock.op, TRUE)
<1> DEFINE after == After(proc[p], lock.op, TRUE)
           window == IF lock.op = "maintain" THEN lock.window ELSE proc[p].window
<1>1. proc \in [Procs -> Writers] /\ proc[p] \in Writers /\ lock \in Locks
  BY LockHeld DEF LogTyped, Commit
<1>2. proc' = [proc EXCEPT ![p].pc = after, ![p].window = IF lock.op = "maintain" THEN lock.window ELSE @]
  BY DEF Commit
<1>3. proc' = [proc EXCEPT ![p] = [proc[p] EXCEPT !.pc = after, !.window = window]]
  BY <1>1, <1>2
<1>4. after \in WriterStages /\ window \in Windows
  BY <1>1, AfterTyped DEF Writers, Locks
<1> HIDE DEF after, window
<1>5. [proc[p] EXCEPT !.pc = after, !.window = window] \in Writers
  BY <1>1, <1>4 DEF Writers
<1>6. proc'[p] = [proc[p] EXCEPT !.pc = after, !.window = window]
  BY <1>1, <1>3
<1>7. proc'[p].hand = proc[p].hand /\ proc'[p].evicted = proc[p].evicted
      /\ proc'[p].file = proc[p].file /\ proc'[p].pc = after
  BY <1>1, <1>6 DEF Writers
<1>8. OnlyWriter(p)
  BY <1>1, <1>3, <1>5 DEF OnlyWriter
<1> QED BY <1>7, <1>8 DEF Same, Carries, after

LEMMA CommitFailsWriter ==
    ASSUME LogTyped, NEW p \in Procs, CommitFails(p)
    PROVE  /\ OnlyWriter(p)
           /\ lock.op = "open" => proc'[p] = Off
           /\ lock.op # "open" => Same(p) /\ proc'[p].pc = After(proc[p], lock.op, FALSE)
<1> DEFINE after == After(proc[p], lock.op, FALSE)
           w == [proc[p] EXCEPT !.pc = after]
<1>1. proc \in [Procs -> Writers] /\ proc[p] \in Writers
  BY DEF LogTyped
<1>2. proc' = [proc EXCEPT ![p] = IF lock.op = "open" THEN Off ELSE w]
  BY DEF CommitFails
<1>3. after \in WriterStages
  BY AfterTyped
<1> HIDE DEF after
<1>4. w \in Writers /\ w.pc = after /\ w.hand = proc[p].hand /\ w.evicted = proc[p].evicted
      /\ w.file = proc[p].file
  BY <1>1, <1>3 DEF Writers
<1> HIDE DEF w
<1>5. proc'[p] = IF lock.op = "open" THEN Off ELSE w
  BY <1>1, <1>2
<1>6. OnlyWriter(p)
  BY <1>1, <1>2, <1>4, IdleIsWriter DEF OnlyWriter
<1> QED BY <1>4, <1>5, <1>6 DEF Same, Carries, after

(* A section that fails may have read meta.json before.                    *)
MayHaveRead(p) ==
    \/ proc'[p].evicted = proc[p].evicted
    \/ lock.by = NoProc /\ proc'[p].evicted = meta.src[SourceOf[p]].evicted

LEMMA SectionFailsWriter ==
    ASSUME LogTyped, NEW p \in Procs, SectionFails(p)
    PROVE  /\ OnlyWriter(p) /\ proc'[p].file \in {proc[p].file, NoFile}
           /\ proc'[p].hand = proc[p].hand /\ MayHaveRead(p)
           /\ proc'[p].pc # "clear"
           /\ proc'[p].pc \in {"due", "append"} => proc[p].pc \in {"due", "append"}
           /\ proc[p].pc # "down" /\ lock.by # p
<1> DEFINE op == CASE proc[p].pc = "append" -> "rotate"
                   [] proc[p].pc \in {"count", "clear"} -> proc[p].pc
                   [] OTHER -> "maintain"
           creates == op = "rotate" \/ (op = "maintain" /\ (proc[p].bytes > 0 \/ proc[p].file = NoFile))
           after == After(proc[p], op, FALSE)
           read == [LoadMeta(proc[p], meta, SourceOf[p]) EXCEPT !.file = NoFile, !.bytes = 0]
<1>1. proc \in [Procs -> Writers] /\ proc[p] \in Writers /\ meta.src[SourceOf[p]] \in SourceMetas
  BY DEF LogTyped, Metas
<1>2. PICK v \in {proc[p]} \cup (IF creates /\ LockFree(p) THEN {read} ELSE {}) :
        proc' = [proc EXCEPT ![p] = [v EXCEPT !.pc = after]]
  BY DEF SectionFails
<1>3. /\ proc[p].pc # "down" /\ after \in WriterStages /\ after # "clear" /\ after # "due"
      /\ after = "append" => proc[p].pc \in {"due", "append"}
  <2>1. after \in WriterStages
    BY AfterTyped
  <2>2. proc[p].pc \in {"startup", "due", "rollover", "append", "count", "clear"}
    BY DEF SectionFails
  <2>3. op \in {"rotate", "maintain", "count", "clear"}
    BY <2>2
  <2> QED BY <2>1, <2>2, <2>3 DEF After
<1> HIDE DEF after, creates
<1>4. /\ read \in Writers /\ read.hand = proc[p].hand /\ read.file = NoFile
      /\ read.evicted = meta.src[SourceOf[p]].evicted
  BY <1>1 DEF LoadMeta, Writers, SourceMetas
<1> HIDE DEF read
<1>5. /\ v \in Writers /\ v.hand = proc[p].hand /\ v.file \in {proc[p].file, NoFile}
      /\ \/ v.evicted = proc[p].evicted
         \/ lock.by = NoProc /\ v.evicted = meta.src[SourceOf[p]].evicted
  <2>1. v = proc[p] \/ (v = read /\ lock.by = NoProc)
    BY <1>2 DEF LockFree
  <2> QED BY <1>1, <1>4, <2>1
<1> DEFINE w == [v EXCEPT !.pc = after]
<1>6. w \in Writers /\ w.pc = after /\ w.hand = v.hand /\ w.evicted = v.evicted /\ w.file = v.file
  BY <1>3, <1>5 DEF Writers
<1>7. proc' = [proc EXCEPT ![p] = w]
  BY <1>2
<1> HIDE DEF w
<1>8. proc'[p] = w
  BY <1>1, <1>7
<1>9. OnlyWriter(p)
  BY <1>1, <1>6, <1>7 DEF OnlyWriter
<1>10. lock.by # p
  BY DEF SectionFails
<1>11. MayHaveRead(p)
  BY <1>5, <1>6, <1>8 DEF MayHaveRead
<1> QED BY <1>3, <1>5, <1>6, <1>8, <1>9, <1>10, <1>11

LEMMA QueueElements ==
    ASSUME NEW q \in Seq(RecordSet)
    PROVE  /\ q # <<>> => /\ Head(q) \in RecordSet /\ Tail(q) \in Seq(RecordSet)
                          /\ 1 \in DOMAIN q /\ Head(q) = q[1]
                          /\ \A n \in DOMAIN Tail(q) : n + 1 \in DOMAIN q /\ Tail(q)[n] = q[n + 1] /\ n + 1 > 1
           /\ \A n \in DOMAIN q : q[n] \in RecordSet /\ n \in Nat \ {0}
           /\ \A r \in RecordSet : /\ Append(q, r) \in Seq(RecordSet)
                                   /\ \A n \in DOMAIN Append(q, r) :
                                        \/ n \in DOMAIN q /\ Append(q, r)[n] = q[n]
                                        \/ n = Len(q) + 1 /\ Append(q, r)[n] = r
           /\ \A n \in DOMAIN q : n < Len(q) + 1
OBVIOUS

LEMMA TakeWriter ==
    ASSUME LogTyped, NEW p \in Procs, Take(p)
    PROVE  /\ OnlyWriter(p) /\ proc'[p].hand = Head(queue[p])
           /\ proc'[p].evicted = proc[p].evicted /\ proc'[p].file = proc[p].file
           /\ proc'[p].pc = IF Head(queue[p]).id = -1 THEN "clear" ELSE IF Due(p) THEN "due" ELSE "append"
<1> DEFINE stage == IF Head(queue[p]).id = -1 THEN "clear" ELSE IF Due(p) THEN "due" ELSE "append"
           head == Head(queue[p])
           w == [proc[p] EXCEPT !.hand = head, !.pc = stage]
<1>1. proc \in [Procs -> Writers] /\ proc[p] \in Writers /\ queue[p] \in Seq(RecordSet) /\ queue[p] # <<>>
  BY DEF LogTyped, Take
<1>2. proc' = [proc EXCEPT ![p] = w]
  BY DEF Take
<1>3. stage \in WriterStages /\ head \in RecordSet
  BY <1>1, QueueElements DEF WriterStages
<1> HIDE DEF stage, head
<1>4. w \in Writers /\ w.hand = head /\ w.pc = stage /\ w.evicted = proc[p].evicted /\ w.file = proc[p].file
  BY <1>1, <1>3 DEF Writers
<1> HIDE DEF w
<1>5. proc'[p] = w /\ OnlyWriter(p)
  BY <1>1, <1>2, <1>4 DEF OnlyWriter
<1> QED BY <1>4, <1>5 DEF stage, head

LEMMA IdleTimeoutWriter ==
    ASSUME LogTyped, NEW p \in Procs, IdleTimeout(p)
    PROVE  OnlyWriter(p) /\ Same(p) /\ proc'[p].pc = "rollover"
<1> DEFINE w == [proc[p] EXCEPT !.pc = "rollover"]
<1>1. proc \in [Procs -> Writers] /\ proc[p] \in Writers
  BY DEF LogTyped
<1>2. proc' = [proc EXCEPT ![p] = w]
  BY <1>1 DEF IdleTimeout
<1>4. w \in Writers /\ w.hand = proc[p].hand /\ w.pc = "rollover" /\ w.evicted = proc[p].evicted /\ w.file = proc[p].file
  BY <1>1 DEF Writers, WriterStages
<1> HIDE DEF w
<1>5. proc'[p] = w /\ OnlyWriter(p)
  BY <1>1, <1>2, <1>4 DEF OnlyWriter
<1> QED BY <1>4, <1>5 DEF Same, Carries

LEMMA WriteWriter ==
    ASSUME LogTyped, NEW p \in Procs, Write(p) \/ WriteFails(p)
    PROVE  /\ OnlyWriter(p) /\ proc'[p].hand = Torn
           /\ proc'[p].evicted = proc[p].evicted /\ proc'[p].file = proc[p].file
           /\ proc'[p].pc \in {"count", "idle"}
<1>1. proc \in [Procs -> Writers] /\ proc[p] \in Writers
  BY DEF LogTyped
<1>2. CASE Write(p)
  <2> DEFINE stage == IF proc[p].hand.cut THEN "count" ELSE "idle"
             trimmed == IF proc[p].hand.cut THEN proc[p].trimmed + 1 ELSE proc[p].trimmed
             bytes == proc[p].bytes + 1
             w == [proc[p] EXCEPT !.bytes = bytes, !.hand = Torn, !.trimmed = trimmed, !.pc = stage]
  <2>1. proc' = [proc EXCEPT ![p] = w]
    BY <1>1, <1>2 DEF Write, Writers
  <2>2. stage \in WriterStages /\ stage \in {"count", "idle"}
    BY DEF WriterStages
  <2>3. trimmed \in Nat /\ bytes \in Nat
    BY <1>1 DEF Writers
  <2> HIDE DEF stage, trimmed, bytes
  <2>4. w \in Writers /\ w.hand = Torn /\ w.pc = stage /\ w.evicted = proc[p].evicted /\ w.file = proc[p].file
    BY <1>1, <2>2, <2>3, TornIsRecord DEF Writers
  <2> HIDE DEF w
  <2> QED BY <1>1, <2>1, <2>2, <2>4 DEF OnlyWriter
<1>3. CASE WriteFails(p)
  <2> DEFINE w == [proc[p] EXCEPT !.pc = "idle", !.hand = Torn]
  <2>1. proc' = [proc EXCEPT ![p] = w]
    BY <1>3 DEF WriteFails
  <2>4. w \in Writers /\ w.hand = Torn /\ w.pc = "idle" /\ w.evicted = proc[p].evicted /\ w.file = proc[p].file
    BY <1>1, TornIsRecord DEF Writers, WriterStages
  <2> HIDE DEF w
  <2> QED BY <1>1, <2>1, <2>4 DEF OnlyWriter
<1> QED BY <1>2, <1>3

LEMMA CrashWriter ==
    ASSUME LogTyped, NEW p \in Procs, Crash(p)
    PROVE  OnlyWriter(p) /\ proc'[p] = Off
BY IdleIsWriter DEF LogTyped, Crash, OnlyWriter

LEMMA SectionTyped ==
    ASSUME LogTyped, NEW p \in Procs, NEW op, SectionBegins(p, op),
           made' \in [records : 0..MaxRecords, clears : 0..MaxClears, gens : Nat, faults : Nat],
           epochs' \in Nat, pruned' \subseteq Sources,
           left' \in [pass : SUBSET FileNames, clear : SUBSET FileNames]
    PROVE  LogTyped'
<1>1. /\ lock' \in Locks /\ proc' \in [Procs -> Writers] /\ IsDisk(disk')
      /\ UNCHANGED <<clock, meta, missed, queue, command>>
  BY DEF SectionBegins
<1>2. ClockTyped' /\ CommandTyped' /\ MadeTyped'
  BY <1>1 DEF LogTyped, ClockTyped, CommandTyped, MadeTyped
<1> QED BY <1>1, <1>2 DEF LogTyped

LEMMA MadeGrows ==
    ASSUME MadeTyped
    PROVE  /\ made.records < MaxRecords => [made EXCEPT !.records = @ + 1] \in
                [records : 0..MaxRecords, clears : 0..MaxClears, gens : Nat, faults : Nat]
           /\ made.clears < MaxClears => [made EXCEPT !.clears = @ + 1] \in
                [records : 0..MaxRecords, clears : 0..MaxClears, gens : Nat, faults : Nat]
           /\ \A n \in Nat : [made EXCEPT !.gens = @ + 1, !.faults = n] \in
                [records : 0..MaxRecords, clears : 0..MaxClears, gens : Nat, faults : Nat]
           /\ \A n \in Nat : [made EXCEPT !.faults = n] \in
                [records : 0..MaxRecords, clears : 0..MaxClears, gens : Nat, faults : Nat]
           /\ [made EXCEPT !.faults = @ + 1] \in
                [records : 0..MaxRecords, clears : 0..MaxClears, gens : Nat, faults : Nat]
<1> DEFINE R == [records : 0..MaxRecords, clears : 0..MaxClears, gens : Nat, faults : Nat]
<1>1. made \in R /\ made.records \in 0..MaxRecords /\ made.clears \in 0..MaxClears
  BY DEF MadeTyped
<1>2. /\ made.records < MaxRecords => made.records + 1 \in 0..MaxRecords
      /\ made.clears < MaxClears => made.clears + 1 \in 0..MaxClears
      /\ made.gens + 1 \in Nat /\ made.faults + 1 \in Nat
  BY <1>1, BoundsTyped
<1>3. \A n \in Nat : [made EXCEPT !.gens = @ + 1, !.faults = n] \in R
  BY <1>1, <1>2
<1>4. \A n \in Nat : [made EXCEPT !.faults = n] \in R
  BY <1>1
<1>5. made.records < MaxRecords => [made EXCEPT !.records = @ + 1] \in R
  BY <1>1, <1>2
<1>6. made.clears < MaxClears => [made EXCEPT !.clears = @ + 1] \in R
  BY <1>1, <1>2
<1>7. [made EXCEPT !.faults = @ + 1] \in R
  BY <1>1, <1>2
<1> QED BY <1>3, <1>4, <1>5, <1>6, <1>7

LEMMA LeftAfterSections ==
    ASSUME LogTyped, NEW p \in Procs
    PROVE  /\ OpenDoes(p) => left' \in [pass : SUBSET FileNames, clear : SUBSET FileNames]
           /\ ClearDoes(p) => left' \in [pass : SUBSET FileNames, clear : SUBSET FileNames]
<1>1. left \in [pass : SUBSET FileNames, clear : SUBSET FileNames] /\ DOMAIN disk \subseteq FileNames
  BY DEF LogTyped, IsDisk
<1>2. ASSUME OpenDoes(p) PROVE left' \in [pass : SUBSET FileNames, clear : SUBSET FileNames]
  <2>1. PICK f \in FileNames : left' = [left EXCEPT !.pass = @ \ {f}]
    BY <1>2 DEF OpenDoes
  <2> QED BY <1>1, <2>1
<1>3. ASSUME ClearDoes(p) PROVE left' \in [pass : SUBSET FileNames, clear : SUBSET FileNames]
  <2>1. PICK stay \in SUBSET FilesOf(disk, SourceOf[p]) :
          left' = [pass  |-> OfOthers(left.pass, SourceOf[p]) \cup stay,
                   clear |-> OfOthers(left.clear, SourceOf[p]) \cup stay]
    BY <1>3 DEF ClearDoes
  <2>2. stay \subseteq FileNames
    BY <1>1 DEF FilesOf
  <2>3. OfOthers(left.pass, SourceOf[p]) \subseteq FileNames /\ OfOthers(left.clear, SourceOf[p]) \subseteq FileNames
    BY <1>1 DEF OfOthers
  <2> QED BY <2>1, <2>2, <2>3
<1> QED BY <1>2, <1>3

LEMMA SectionsKeepTypes ==
    ASSUME LogTyped, NEW p \in Procs,
           Open(p) \/ Maintain(p) \/ Rotate(p) \/ PersistCounters(p) \/ Clear(p)
    PROVE  LogTyped'
<1>0. MadeTyped /\ epochs \in Nat /\ epochs + 1 \in Nat /\ pruned \subseteq Sources
  BY DEF LogTyped
<1>m. made \in [records : 0..MaxRecords, clears : 0..MaxClears, gens : Nat, faults : Nat]
  BY <1>0 DEF MadeTyped
<1>1. CASE Open(p)
  <2>1. SectionBegins(p, "open") /\ OpenDoes(p)
    BY <1>1, OpenSection
  <2>3. UNCHANGED <<made, pruned>> /\ left' \in [pass : SUBSET FileNames, clear : SUBSET FileNames]
    BY <2>1, LeftAfterSections DEF OpenDoes
  <2>2. epochs' \in Nat
    BY <1>0, <1>1 DEF Open
  <2> QED BY <1>0, <1>m, <2>1, <2>2, <2>3, SectionTyped
<1>2. CASE Maintain(p)
  <2>1. SectionBegins(p, "maintain") /\ \E V : HousekeepDoes(p, V, TRUE)
    BY <1>2, MaintainSection
  <2>3. /\ made' \in [records : 0..MaxRecords, clears : 0..MaxClears, gens : Nat, faults : Nat]
        /\ pruned' \subseteq Sources /\ left' \in [pass : SUBSET FileNames, clear : SUBSET FileNames]
    <3>1. /\ pruned' = pruned \/ pruned' = pruned \cup {SourceOf[p]}
          /\ left' \in [pass : SUBSET FileNames, clear : SUBSET FileNames]
          /\ \E n \in Nat : made' = [made EXCEPT !.faults = n]
      <4>1. PICK V : HousekeepDoes(p, V, TRUE)
        BY <2>1
      <4> QED BY <4>1 DEF HousekeepDoes
    <3>2. made' \in [records : 0..MaxRecords, clears : 0..MaxClears, gens : Nat, faults : Nat]
      BY <1>0, <3>1, MadeGrows
    <3> QED BY <1>0, <3>1, <3>2
  <2>2. epochs' \in Nat
    BY <1>0, <1>2 DEF Maintain
  <2> QED BY <2>1, <2>2, <2>3, SectionTyped
<1>3. CASE Rotate(p)
  <2>1. SectionBegins(p, "rotate") /\ \E V : HousekeepDoes(p, V, FALSE)
    BY <1>3, RotateSection
  <2>3. /\ made' \in [records : 0..MaxRecords, clears : 0..MaxClears, gens : Nat, faults : Nat]
        /\ pruned' \subseteq Sources /\ left' \in [pass : SUBSET FileNames, clear : SUBSET FileNames]
    <3>1. /\ pruned' = pruned \/ pruned' = pruned \cup {SourceOf[p]}
          /\ left' \in [pass : SUBSET FileNames, clear : SUBSET FileNames]
          /\ \E n \in Nat : made' = [made EXCEPT !.faults = n]
      <4>1. PICK V : HousekeepDoes(p, V, FALSE)
        BY <2>1
      <4> QED BY <4>1 DEF HousekeepDoes
    <3>2. made' \in [records : 0..MaxRecords, clears : 0..MaxClears, gens : Nat, faults : Nat]
      BY <1>0, <3>1, MadeGrows
    <3> QED BY <1>0, <3>1, <3>2
  <2>2. epochs' \in Nat
    BY <1>0, <1>3 DEF Rotate
  <2> QED BY <2>1, <2>2, <2>3, SectionTyped
<1>4. CASE PersistCounters(p)
  <2>1. SectionBegins(p, "count") /\ UNCHANGED <<made, pruned, left>>
    BY <1>4, CountSection DEF CountDoes
  <2>2. epochs' \in Nat
    BY <1>0, <1>4 DEF PersistCounters
  <2>3. left' \in [pass : SUBSET FileNames, clear : SUBSET FileNames]
    BY <2>1 DEF LogTyped
  <2> QED BY <1>0, <1>m, <2>1, <2>2, <2>3, SectionTyped
<1>5. CASE Clear(p)
  <2>1. SectionBegins(p, "clear") /\ ClearDoes(p)
    BY <1>5, ClearSection
  <2>3. /\ pruned' \subseteq Sources
        /\ made' \in [records : 0..MaxRecords, clears : 0..MaxClears, gens : Nat, faults : Nat]
    BY <1>0, <2>1, MadeGrows DEF ClearDoes
  <2>4. left' \in [pass : SUBSET FileNames, clear : SUBSET FileNames]
    BY <2>1, LeftAfterSections
  <2>2. epochs' \in Nat
    BY <1>0, <1>5 DEF Clear
  <2> QED BY <2>1, <2>2, <2>3, <2>4, SectionTyped
<1> QED BY <1>1, <1>2, <1>3, <1>4, <1>5

(* The steps that open no section, and what they leave of the types. *)
LEMMA CommandKept ==
    ASSUME CommandTyped, command' = command \/ command' = NoCommand \/ \E ok \in BOOLEAN : command' = Told(ok)
    PROVE  CommandTyped'
<1>1. NoCommand \in [at : {"none", "ask", "wait"}, owner : Sources, ok : SUBSET Sources, upto : Nat]
  BY DEF NoCommand
<1>2. command' \in [at : {"none", "ask", "wait"}, owner : Sources, ok : SUBSET Sources, upto : Nat]
  BY <1>1, ToldTyped DEF CommandTyped
<1> QED BY <1>2 DEF CommandTyped

LEMMA WriterStepsKeepTypes ==
    ASSUME LogTyped, NEW p \in Procs,
           \/ Commit(p) \/ CommitFails(p) \/ SectionFails(p) \/ Take(p) \/ IdleTimeout(p)
           \/ Write(p) \/ WriteFails(p) \/ Crash(p)
    PROVE  LogTyped'
<1>0. /\ ClockTyped /\ MadeTyped /\ CommandTyped /\ IsDisk(disk) /\ meta \in Metas
      /\ lock = [by |-> NoProc] \/ lock \in Locks
      /\ proc \in [Procs -> Writers] /\ queue \in [Procs -> Seq(RecordSet)]
      /\ epochs \in Nat /\ pruned \subseteq Sources /\ missed \subseteq Sources
      /\ left \in [pass : SUBSET FileNames, clear : SUBSET FileNames]
  BY DEF LogTyped
<1>a. SourceOf[p] \in Sources /\ queue[p] \in Seq(RecordSet) /\ proc[p].hand \in RecordSet
  BY <1>0 DEF Writers
<1>b. MadeTyped' \/ ~(made' = made \/ Faulted)
  BY <1>0, MadeGrows DEF MadeTyped, Faulted
<1>c. UNCHANGED clock => ClockTyped'
  BY <1>0 DEF ClockTyped
<1>1. CASE Commit(p)
  <2>1. proc' \in [Procs -> Writers]
    BY <1>1, CommitWriter DEF OnlyWriter
  <2>2. /\ meta' = lock.meta /\ lock' = [by |-> NoProc] /\ lock \in Locks
        /\ command' = command \/ \E ok \in BOOLEAN : command' = Told(ok)
        /\ UNCHANGED <<clock, disk, queue, epochs, made, pruned, missed, left>>
    BY <1>1, LockHeld DEF Commit
  <2>3. meta' \in Metas
    BY <2>2 DEF Locks
  <2> QED BY <1>0, <1>b, <1>c, <2>1, <2>2, <2>3, CommandKept DEF LogTyped
<1>2. CASE CommitFails(p)
  <2>1. proc' \in [Procs -> Writers]
    BY <1>2, CommitFailsWriter DEF OnlyWriter
  <2>2. /\ lock' = [by |-> NoProc] /\ (made' = made \/ Faulted)
        /\ command' = command \/ \E ok \in BOOLEAN : command' = Told(ok)
        /\ missed' = missed \cup {SourceOf[p]}
        /\ UNCHANGED <<clock, disk, meta, queue, epochs, pruned, left>>
    BY <1>2 DEF CommitFails
  <2>3. MadeTyped' /\ ClockTyped'
    BY <1>b, <1>c, <2>2
  <2>4. CommandTyped'
    BY <1>0, <2>2, CommandKept
  <2>5. missed' \subseteq Sources
    BY <1>0, <1>a, <2>2
  <2>6. /\ IsDisk(disk') /\ meta' \in Metas /\ queue' \in [Procs -> Seq(RecordSet)]
        /\ epochs' \in Nat /\ pruned' \subseteq Sources
        /\ left' \in [pass : SUBSET FileNames, clear : SUBSET FileNames]
    BY <1>0, <2>2
  <2>7. lock' = [by |-> NoProc]
    BY <2>2
  <2> QED BY <2>1, <2>3, <2>4, <2>5, <2>6, <2>7 DEF LogTyped
<1>3. CASE SectionFails(p)
  <2>1. proc' \in [Procs -> Writers]
    BY <1>3, SectionFailsWriter DEF OnlyWriter
  <2>2. /\ command' = command \/ \E ok \in BOOLEAN : command' = Told(ok)
        /\ UNCHANGED <<clock, disk, meta, lock, queue, epochs, pruned, missed, left>> /\ Faulted
    BY <1>3 DEF SectionFails
  <2> QED BY <1>0, <1>b, <1>c, <2>1, <2>2, CommandKept DEF LogTyped
<1>4. CASE Take(p)
  <2>1. proc' \in [Procs -> Writers]
    BY <1>4, TakeWriter DEF OnlyWriter
  <2>2. /\ queue[p] # <<>> /\ queue' = [queue EXCEPT ![p] = Tail(@)]
        /\ UNCHANGED <<clock, disk, meta, lock, epochs, made, command, pruned, missed, left>>
    BY <1>4 DEF Take
  <2>3. queue' \in [Procs -> Seq(RecordSet)]
    BY <1>0, <1>a, <2>2
  <2> QED BY <1>0, <1>b, <1>c, <2>1, <2>2, <2>3, CommandKept DEF LogTyped
<1>5. CASE IdleTimeout(p)
  <2>1. proc' \in [Procs -> Writers]
    BY <1>5, IdleTimeoutWriter DEF OnlyWriter
  <2>2. UNCHANGED <<clock, disk, meta, lock, queue, epochs, made, command, pruned, missed, left>>
    BY <1>5 DEF IdleTimeout
  <2> QED BY <1>0, <1>b, <1>c, <2>1, <2>2, CommandKept DEF LogTyped
<1>6. CASE Write(p) \/ WriteFails(p)
  <2>1. proc' \in [Procs -> Writers]
    BY <1>6, WriteWriter DEF OnlyWriter
  <2>2. /\ UNCHANGED <<clock, meta, lock, queue, epochs, command, pruned, missed, left>>
        /\ made' = made \/ Faulted
    BY <1>6 DEF Write, WriteFails
  <2>3. IsDisk(disk')
    <3>1. PICK x : LineFrom(p, x)
      BY <1>6, WritesALine
    <3>2. x \in RecordSet /\ disk' = Grown(proc[p].file, x)
      BY <3>1 DEF LineFrom
    <3>3. IsDisk(Grown(proc[p].file, x))
      BY <1>0, <3>2, GrownDisk
    <3> QED BY <3>2, <3>3
  <2> QED BY <1>0, <1>b, <1>c, <2>1, <2>2, <2>3, CommandKept DEF LogTyped
<1>7. CASE Crash(p)
  <2>1. proc' \in [Procs -> Writers]
    BY <1>7, CrashWriter DEF OnlyWriter
  <2>2. /\ UNCHANGED <<clock, disk, meta, epochs, pruned, left>> /\ Faulted
        /\ lock' = lock \/ lock' = [by |-> NoProc]
        /\ missed' = missed \/ missed' = missed \cup {SourceOf[p]}
        /\ command' = command \/ command' = NoCommand
        /\ queue' = [queue EXCEPT ![p] = <<>>]
    BY <1>7 DEF Crash
  <2>3. queue' \in [Procs -> Seq(RecordSet)]
    BY <1>0, <2>2
  <2> QED BY <1>0, <1>a, <1>b, <1>c, <2>1, <2>2, <2>3, CommandKept DEF LogTyped
<1> QED BY <1>1, <1>2, <1>3, <1>4, <1>5, <1>6, <1>7

LEMMA BlankMetaTyped == BlankMeta \in Metas
BY DEF BlankMeta, BlankSource, Metas, SourceMetas

(* A record or a command joins the queue of p, or nothing does.            *)
Enqueues(p, r) == queue' = [queue EXCEPT ![p] = Append(@, r)]
NewRecord(big) == [id |-> made.records + 1, t |-> clock.utc, cut |-> big]

LEMMA NewRecordTyped ==
    ASSUME LogTyped, made.records < MaxRecords, NEW big \in BOOLEAN
    PROVE  NewRecord(big) \in RecordSet
<1>1. clock.utc \in 0..MaxTime /\ made.records \in 0..MaxRecords
  BY DEF LogTyped, ClockTyped, MadeTyped
<1>2. clock.utc \in 0..(MaxTime + MaxClears) /\ made.records + 1 \in -1..MaxRecords
  BY <1>1, BoundsTyped
<1> QED BY <1>2 DEF NewRecord, RecordSet

LEMMA OtherStepsKeepTypes ==
    ASSUME LogTyped,
           \/ \E p \in Procs : Record(p) \/ RequestClear(p) \/ AskOwner(p)
           \/ OwnerFails \/ LoseMeta \/ Tick \/ ChangeClock
           \/ UNCHANGED logVars
    PROVE  LogTyped'
<1>0. /\ ClockTyped /\ MadeTyped /\ CommandTyped /\ IsDisk(disk) /\ meta \in Metas
      /\ lock = [by |-> NoProc] \/ lock \in Locks
      /\ proc \in [Procs -> Writers] /\ queue \in [Procs -> Seq(RecordSet)]
      /\ epochs \in Nat /\ pruned \subseteq Sources /\ missed \subseteq Sources
      /\ left \in [pass : SUBSET FileNames, clear : SUBSET FileNames]
  BY DEF LogTyped
<1>b. MadeTyped' \/ ~(made' = made \/ Faulted)
  BY <1>0, MadeGrows DEF MadeTyped, Faulted
<1>c. UNCHANGED clock => ClockTyped'
  BY <1>0 DEF ClockTyped
<1>1. ASSUME NEW p \in Procs, Record(p) PROVE LogTyped'
  <2>1. /\ made.records < MaxRecords /\ made' = [made EXCEPT !.records = @ + 1]
        /\ queue' = queue \/ \E big \in BOOLEAN : Enqueues(p, NewRecord(big))
        /\ UNCHANGED <<clock, disk, meta, lock, proc, epochs, command, pruned, missed, left>>
    BY <1>1 DEF Record, Enqueues, NewRecord
  <2>2. queue' \in [Procs -> Seq(RecordSet)]
    <3>1. ASSUME NEW big \in BOOLEAN, Enqueues(p, NewRecord(big)) PROVE queue' \in [Procs -> Seq(RecordSet)]
      <4>1. NewRecord(big) \in RecordSet
        BY <2>1, NewRecordTyped
      <4> QED BY <1>0, <3>1, <4>1 DEF Enqueues
    <3> QED BY <1>0, <2>1, <3>1
  <2>3. MadeTyped'
    BY <1>0, <2>1, MadeGrows DEF MadeTyped
  <2> QED BY <1>0, <1>c, <2>1, <2>2, <2>3, CommandKept DEF LogTyped
<1>2. ASSUME NEW p \in Procs, RequestClear(p) PROVE LogTyped'
  <2>1. /\ made.clears < MaxClears /\ made' = [made EXCEPT !.clears = @ + 1]
        /\ command' = [NoCommand EXCEPT !.at = "ask", !.upto = made.records]
        /\ UNCHANGED <<clock, disk, meta, lock, proc, queue, epochs, pruned, missed, left>>
    BY <1>2 DEF RequestClear
  <2>2. MadeTyped'
    BY <1>0, <2>1, MadeGrows DEF MadeTyped
  <2>3. made.records \in Nat
    BY <1>0, BoundsTyped DEF MadeTyped
  <2>4. CommandTyped'
    BY <2>1, <2>3 DEF CommandTyped, NoCommand
  <2> QED BY <1>0, <1>c, <2>1, <2>2, <2>4 DEF LogTyped
<1>3. ASSUME NEW p \in Procs, AskOwner(p) PROVE LogTyped'
  <2>1. /\ Enqueues(p, ClearCommand) /\ command' = [command EXCEPT !.at = "wait"]
        /\ UNCHANGED <<clock, disk, meta, lock, proc, epochs, made, pruned, missed, left>>
    BY <1>3 DEF AskOwner, Enqueues
  <2>2. queue' \in [Procs -> Seq(RecordSet)]
    BY <1>0, <2>1, ClearCommandTyped DEF Enqueues
  <2>3. CommandTyped'
    BY <1>0, <2>1 DEF CommandTyped
  <2> QED BY <1>0, <1>b, <1>c, <2>1, <2>2, <2>3 DEF LogTyped
<1>4. CASE OwnerFails
  <2>1. /\ \E ok \in BOOLEAN : command' = Told(ok)
        /\ UNCHANGED <<clock, disk, meta, lock, proc, queue, epochs, made, pruned, missed, left>>
    BY <1>4 DEF OwnerFails
  <2> QED BY <1>0, <1>b, <1>c, <2>1, CommandKept DEF LogTyped
<1>5. CASE LoseMeta
  <2>1. /\ meta' = BlankMeta /\ missed' = Sources /\ Faulted
        /\ UNCHANGED <<clock, disk, lock, proc, queue, epochs, command, pruned, left>>
    BY <1>5 DEF LoseMeta
  <2> QED BY <1>0, <1>b, <1>c, <2>1, BlankMetaTyped, CommandKept DEF LogTyped
<1>6. CASE Tick \/ ChangeClock
  <2>1. /\ made' = made \/ Faulted
        /\ UNCHANGED <<disk, meta, lock, proc, queue, epochs, command, pruned, missed, left>>
    BY <1>6 DEF Tick, ChangeClock
  <2>2. clock.utc \in 0..MaxTime /\ clock.offset \in Offsets
    BY <1>0 DEF ClockTyped
  <2>3. \/ clock.utc < MaxTime /\ clock' = [clock EXCEPT !.utc = clock.utc + 1]
        \/ \E o \in Offsets : clock' = [clock EXCEPT !.offset = o]
        \/ clock.utc > 0 /\ clock' = [clock EXCEPT !.utc = clock.utc - 1]
    BY <1>0, <1>6 DEF Tick, ChangeClock, ClockTyped
  <2>4. /\ clock.utc < MaxTime => clock.utc + 1 \in 0..MaxTime
        /\ clock.utc > 0 => clock.utc - 1 \in 0..MaxTime
    BY <2>2, BoundsTyped
  <2>5. ClockTyped'
    BY <1>0, <2>2, <2>3, <2>4 DEF ClockTyped
  <2> QED BY <1>0, <1>b, <2>1, <2>5, CommandKept DEF LogTyped
<1>7. CASE UNCHANGED logVars
  BY <1>0, <1>7 DEF logVars, LogTyped, ClockTyped, MadeTyped, CommandTyped
<1> QED BY <1>1, <1>2, <1>3, <1>4, <1>5, <1>6, <1>7

LEMMA LogTypedStart == LogInit => LogTyped
<1> SUFFICES ASSUME LogInit PROVE LogTyped
  OBVIOUS
<1>1. ClockTyped /\ MadeTyped /\ CommandTyped
  BY BoundsTyped DEF LogInit, ClockTyped, MadeTyped, CommandTyped, NoCommand
<1>2. IsDisk(disk)
  <2>1. disk = <<>> /\ DOMAIN disk = {}
    BY DEF LogInit
  <2>2. IsFiniteSet(DOMAIN disk) /\ disk \in [DOMAIN disk -> Seq(RecordSet)]
    BY <2>1, FS_EmptySet
  <2> QED BY <2>1, <2>2 DEF IsDisk
<1>3. proc \in [Procs -> Writers] /\ queue \in [Procs -> Seq(RecordSet)]
  BY IdleIsWriter DEF LogInit
<1>4. meta \in Metas
  BY BlankMetaTyped DEF LogInit
<1>5. left \in [pass : SUBSET FileNames, clear : SUBSET FileNames]
  BY DEF LogInit
<1> QED BY <1>1, <1>2, <1>3, <1>4, <1>5 DEF LogInit, LogTyped

LEMMA LogTypedStep == LogTyped /\ [LogNext]_logVars => LogTyped'
BY SectionsKeepTypes, WriterStepsKeepTypes, OtherStepsKeepTypes DEF LogNext, WriterStep

----------------------------------------------------------------------------
----------------------------------------------------------------------------
(* Sections and flags. *)

Holds(s) == lock.by # NoProc /\ SourceOf[lock.by] = s
Noted(s) == IF Holds(s) THEN lock.meta.src[s] ELSE meta.src[s]

SectionKnown ==
    lock.by # NoProc =>
        LET s == SourceOf[lock.by] IN
        /\ proc[lock.by].pc # "down"
        /\ \A t \in Sources \ {s} : lock.meta.src[t] = meta.src[t]
        /\ lock.op # "clear" => lock.meta.top = meta.top /\ lock.meta.src[s].gen = meta.src[s].gen
        /\ lock.op = "clear" =>
             /\ lock.meta.top = made.gens /\ lock.meta.src[s].gen = made.gens
             /\ meta.top < made.gens /\ \A t \in Sources : meta.src[t].gen < made.gens
        /\ lock.op = "rotate" => proc[lock.by].pc = "append"
GensCounted == meta.top <= made.gens /\ \A s \in Sources : meta.src[s].gen <= made.gens
HandsRecord == \A p \in Procs : proc[p].pc \in {"due", "append"} => proc[p].hand.id # -1
FlagsKept ==
    /\ \A s \in pruned \ missed : Noted(s).evicted
    /\ \A p \in Procs : proc[p].pc # "down" /\ SourceOf[p] \in pruned \ missed => proc[p].evicted

LEMMA OneWriter == ASSUME NEW p \in Procs, NEW q \in Procs, SourceOf[p] = SourceOf[q] PROVE p = q
BY OneWriterEach DEF OneWriterEach

LEMMA GensTyped ==
    ASSUME LogTyped
    PROVE  /\ made.gens \in Nat /\ meta.top \in Nat
           /\ \A s \in Sources : meta.src[s].gen \in Nat /\ meta.src[s].next \in Nat \ {0}
           /\ meta \in Metas /\ proc \in [Procs -> Writers]
BY DEF LogTyped, MadeTyped, Metas, SourceMetas

(* A step by which no section begins or ends, and that leaves the writer   *)
(* that holds the lock where it is.                                        *)
HolderWaits ==
    /\ lock' = lock /\ meta' = meta /\ made'.gens = made.gens
    /\ lock.by # NoProc => proc'[lock.by].pc = proc[lock.by].pc
(* The lock is given up without a word to meta.json. *)
Abandoned(p) ==
    /\ lock.by = p /\ lock'.by = NoProc /\ meta' = meta /\ made'.gens = made.gens
    /\ missed' = missed \cup {SourceOf[p]}
NoFlagsLost ==
    /\ pruned' = pruned
    /\ \A p \in Procs : proc'[p].pc # "down" =>
          proc[p].pc # "down" /\ MayHaveRead(p)
HandsStay ==
    \A p \in Procs : proc'[p].pc \in {"due", "append"} =>
        (proc[p].pc \in {"due", "append"} /\ proc'[p].hand = proc[p].hand) \/ proc'[p].hand.id # -1

LEMMA WaitingKeeps ==
    ASSUME LogTyped, SectionKnown, GensCounted, HolderWaits
    PROVE  SectionKnown' /\ GensCounted'
BY DEF SectionKnown, GensCounted, HolderWaits

LEMMA WaitingKeepsFlags ==
    ASSUME LogTyped, FlagsKept, HolderWaits, missed' = missed, NoFlagsLost
    PROVE  FlagsKept'
<1>1. \A s : Noted(s)' = Noted(s)
  BY DEF Noted, Holds, HolderWaits
<1>2. \A s \in pruned' \ missed' : Noted(s)'.evicted
  BY <1>1 DEF FlagsKept, NoFlagsLost
<1>3. ASSUME NEW p \in Procs, proc'[p].pc # "down", SourceOf[p] \in pruned' \ missed'
      PROVE  proc'[p].evicted
  <2>1. MayHaveRead(p) /\ proc[p].evicted
    BY <1>3 DEF FlagsKept, NoFlagsLost
  <2>2. lock.by = NoProc => meta.src[SourceOf[p]].evicted
    BY <1>3 DEF FlagsKept, NoFlagsLost, Noted, Holds
  <2> QED BY <2>1, <2>2 DEF MayHaveRead
<1> QED BY <1>2, <1>3 DEF FlagsKept

LEMMA AbandoningKeeps ==
    ASSUME LogTyped, NEW p \in Procs, SectionKnown, GensCounted, FlagsKept, Abandoned(p), NoFlagsLost
    PROVE  SectionKnown' /\ GensCounted' /\ FlagsKept'
<1>1. SectionKnown' /\ GensCounted'
  BY DEF SectionKnown, GensCounted, Abandoned
<1>2. \A s \in pruned' \ missed' : s \in pruned \ missed /\ Noted(s)' = Noted(s)
  BY DEF Noted, Holds, Abandoned, NoFlagsLost
<1>3. ASSUME NEW q \in Procs, proc'[q].pc # "down", SourceOf[q] \in pruned' \ missed'
      PROVE  proc'[q].evicted
  <2>1. MayHaveRead(q) /\ proc[q].evicted
    BY <1>2, <1>3 DEF FlagsKept, NoFlagsLost
  <2>2. lock.by # NoProc
    BY SourceTyped DEF Abandoned
  <2> QED BY <2>1, <2>2 DEF MayHaveRead
<1> QED BY <1>1, <1>2, <1>3 DEF FlagsKept

LEMMA HandsStayKeeps == HandsRecord /\ HandsStay => HandsRecord'
BY DEF HandsRecord, HandsStay

LogBase == LogTyped /\ SectionKnown /\ GensCounted /\ HandsRecord /\ FlagsKept

(* The four groups of steps.                                               *)
Begins(p) == Open(p) \/ Maintain(p) \/ Rotate(p) \/ PersistCounters(p) \/ Clear(p)
Quietly ==
    \/ \E p \in Procs : \/ SectionFails(p) \/ Take(p) \/ IdleTimeout(p) \/ Write(p) \/ WriteFails(p)
                        \/ (Crash(p) /\ lock.by # p) \/ Record(p) \/ RequestClear(p) \/ AskOwner(p)
    \/ OwnerFails \/ Tick \/ ChangeClock \/ UNCHANGED logVars
Abandons(p) == CommitFails(p) \/ (Crash(p) /\ lock.by = p)

LEMMA StepGroups ==
    [LogNext]_logVars =>
        \/ \E p \in Procs : Begins(p) \/ Commit(p) \/ Abandons(p)
        \/ Quietly \/ LoseMeta
BY DEF LogNext, WriterStep, Begins, Quietly, Abandons

LEMMA QuietSteps ==
    ASSUME LogBase, Quietly
    PROVE  HolderWaits /\ missed' = missed /\ NoFlagsLost /\ HandsStay
<1>0. LogTyped /\ made \in [records : 0..MaxRecords, clears : 0..MaxClears, gens : Nat, faults : Nat]
  BY DEF LogBase, LogTyped, MadeTyped
<1>w. ASSUME NEW p \in Procs, OnlyWriter(p), lock.by # p, UNCHANGED <<lock, meta, pruned, missed>>,
             made'.gens = made.gens,
             proc'[p].pc # "down" => proc[p].pc # "down" /\ MayHaveRead(p),
             proc'[p].pc \in {"due", "append"} =>
               (proc[p].pc \in {"due", "append"} /\ proc'[p].hand = proc[p].hand) \/ proc'[p].hand.id # -1
      PROVE  HolderWaits /\ missed' = missed /\ NoFlagsLost /\ HandsStay
  <2>1. lock.by # NoProc => lock.by \in Procs \ {p}
    BY <1>0, <1>w, LockHeld
  <2>2. HolderWaits
    BY <1>w, <2>1 DEF HolderWaits, OnlyWriter
  <2>3. \A q \in Procs \ {p} : MayHaveRead(q)
    BY <1>w DEF MayHaveRead, OnlyWriter
  <2>4. NoFlagsLost
    BY <1>w, <2>3 DEF NoFlagsLost, OnlyWriter
  <2>5. HandsStay
    BY <1>w DEF HandsStay, OnlyWriter
  <2> QED BY <1>w, <2>2, <2>4, <2>5
<1>o. ASSUME UNCHANGED <<lock, meta, proc, pruned, missed>>, made'.gens = made.gens
      PROVE  HolderWaits /\ missed' = missed /\ NoFlagsLost /\ HandsStay
  BY <1>o DEF HolderWaits, NoFlagsLost, HandsStay, MayHaveRead
<1>f. Faulted \/ made' = made => made'.gens = made.gens
  BY <1>0 DEF Faulted
<1>1. ASSUME NEW p \in Procs, SectionFails(p)
      PROVE  HolderWaits /\ missed' = missed /\ NoFlagsLost /\ HandsStay
  <2>1. lock.by # p /\ UNCHANGED <<lock, meta, pruned, missed>> /\ Faulted
    BY <1>1 DEF SectionFails
  <2> QED BY <1>0, <1>1, <1>f, <1>w, <2>1, SectionFailsWriter
<1>2. ASSUME NEW p \in Procs, Take(p)
      PROVE  HolderWaits /\ missed' = missed /\ NoFlagsLost /\ HandsStay
  <2>1. lock.by # p /\ UNCHANGED <<lock, meta, pruned, missed, made>> /\ proc[p].pc = "idle"
    BY <1>2 DEF Take
  <2> QED BY <1>0, <1>2, <1>f, <1>w, <2>1, TakeWriter DEF MayHaveRead
<1>3. ASSUME NEW p \in Procs, IdleTimeout(p)
      PROVE  HolderWaits /\ missed' = missed /\ NoFlagsLost /\ HandsStay
  <2>1. lock.by # p /\ UNCHANGED <<lock, meta, pruned, missed, made>> /\ proc[p].pc = "idle"
    BY <1>3 DEF IdleTimeout
  <2> QED BY <1>0, <1>3, <1>f, <1>w, <2>1, IdleTimeoutWriter DEF Same, Carries, MayHaveRead
<1>4. ASSUME NEW p \in Procs, Write(p) \/ WriteFails(p)
      PROVE  HolderWaits /\ missed' = missed /\ NoFlagsLost /\ HandsStay
  <2>1. /\ lock.by # p /\ UNCHANGED <<lock, meta, pruned, missed>> /\ proc[p].pc = "append"
        /\ made' = made \/ Faulted
    BY <1>4 DEF Write, WriteFails
  <2> QED BY <1>0, <1>4, <1>f, <1>w, <2>1, WriteWriter DEF MayHaveRead
<1>5. ASSUME NEW p \in Procs, Crash(p), lock.by # p
      PROVE  HolderWaits /\ missed' = missed /\ NoFlagsLost /\ HandsStay
  <2>1. UNCHANGED <<lock, meta, pruned, missed>> /\ Faulted
    BY <1>5 DEF Crash
  <2>2. proc'[p].pc = "down"
    BY <1>0, <1>5, CrashWriter DEF Off, Idle
  <2> QED BY <1>0, <1>5, <1>f, <1>w, <2>1, <2>2, CrashWriter DEF MayHaveRead
<1>6. ASSUME NEW p \in Procs, Record(p) \/ RequestClear(p) \/ AskOwner(p)
      PROVE  HolderWaits /\ missed' = missed /\ NoFlagsLost /\ HandsStay
  <2>1. UNCHANGED <<lock, meta, proc, pruned, missed>> /\ made'.gens = made.gens
    BY <1>0, <1>6 DEF Record, RequestClear, AskOwner
  <2> QED BY <1>o, <2>1
<1>7. ASSUME OwnerFails \/ Tick \/ ChangeClock \/ UNCHANGED logVars
      PROVE  HolderWaits /\ missed' = missed /\ NoFlagsLost /\ HandsStay
  <2>1. UNCHANGED <<lock, meta, proc, pruned, missed>> /\ (made' = made \/ Faulted)
    BY <1>7 DEF OwnerFails, Tick, ChangeClock, logVars
  <2> QED BY <1>f, <1>o, <2>1
<1> QED BY <1>1, <1>2, <1>3, <1>4, <1>5, <1>6, <1>7 DEF Quietly

LEMMA AbandonSteps ==
    ASSUME LogBase, NEW p \in Procs, Abandons(p)
    PROVE  Abandoned(p) /\ NoFlagsLost /\ HandsStay
<1>0. /\ LogTyped /\ made \in [records : 0..MaxRecords, clears : 0..MaxClears, gens : Nat, faults : Nat]
      /\ SectionKnown
  BY DEF LogBase, LogTyped, MadeTyped
<1>1. CASE CommitFails(p)
  <2>1. /\ lock.by = p /\ lock' = [by |-> NoProc] /\ UNCHANGED <<meta, pruned>>
        /\ missed' = missed \cup {SourceOf[p]} /\ (made' = made \/ Faulted) /\ p # NoProc
    BY <1>1, SourceTyped DEF CommitFails
  <2>2. Abandoned(p)
    <3>1. made'.gens = made.gens
      BY <1>0, <2>1 DEF Faulted
    <3> QED BY <2>1, <3>1 DEF Abandoned
  <2>3. proc[p].pc # "down"
    BY <1>0, <2>1 DEF SectionKnown
  <2>4. OnlyWriter(p)
    BY <1>0, <1>1, CommitFailsWriter
  <2>5. lock.op = "open" => proc'[p].pc = "down"
    BY <1>0, <1>1, CommitFailsWriter DEF Off, Idle
  <2>6. lock.op # "open" => Same(p) /\ proc'[p].pc = After(proc[p], lock.op, FALSE)
    BY <1>0, <1>1, CommitFailsWriter
  <2>7. lock.op # "open" => (proc'[p].pc \in {"due", "append"} => proc[p].pc = "due")
    BY <2>6 DEF After
  <2>8. NoFlagsLost
    <3>1. \A q \in Procs : proc'[q].pc # "down" => proc[q].pc # "down" /\ proc'[q].evicted = proc[q].evicted
      BY <2>1, <2>3, <2>4, <2>5, <2>6 DEF OnlyWriter, Same, Carries
    <3> QED BY <2>1, <3>1 DEF NoFlagsLost, MayHaveRead
  <2>9. HandsStay
    BY <2>4, <2>5, <2>6, <2>7 DEF HandsStay, OnlyWriter, Same, Carries
  <2> QED BY <2>2, <2>8, <2>9
<1>2. CASE Crash(p) /\ lock.by = p
  <2>1. /\ lock' = [by |-> NoProc] /\ UNCHANGED <<meta, pruned>>
        /\ missed' = missed \cup {SourceOf[p]} /\ Faulted
    BY <1>2 DEF Crash
  <2>2. Abandoned(p)
    BY <1>0, <1>2, <2>1 DEF Abandoned, Faulted
  <2>3. OnlyWriter(p) /\ proc'[p].pc = "down"
    BY <1>0, <1>2, CrashWriter DEF Off, Idle
  <2> QED BY <2>1, <2>2, <2>3 DEF NoFlagsLost, HandsStay, OnlyWriter, MayHaveRead
<1> QED BY <1>1, <1>2 DEF Abandons

(* What every section that begins says of itself. *)
SectionSays(p, op) ==
    /\ SectionBegins(p, op) /\ op \in Ops
    /\ op = "clear" => /\ lock'.meta.top = made.gens + 1 /\ Noting(p).gen = made.gens + 1
                       /\ made'.gens = made.gens + 1
    /\ op # "clear" => SameGen(p) /\ made'.gens = made.gens
    /\ op = "clear" => Clear(p)
    /\ proc'[p].pc # "down" /\ proc'[p].hand \in {proc[p].hand, Torn}
    /\ proc'[p].pc \in {"due", "append"} => proc[p].pc \in {"due", "append"} /\ proc'[p].hand = proc[p].hand
    /\ op = "rotate" => proc'[p].pc = "append"
    /\ SourceOf[p] \in pruned' \ missed => Noting(p).evicted /\ proc'[p].evicted
    /\ pruned' \ {SourceOf[p]} = pruned \ {SourceOf[p]}

LEMMA SectionSaysSo ==
    ASSUME LogBase, NEW p \in Procs, Begins(p)
    PROVE  \E op : SectionSays(p, op)
<1> DEFINE s == SourceOf[p]
<1>0. /\ LogTyped /\ made \in [records : 0..MaxRecords, clears : 0..MaxClears, gens : Nat, faults : Nat]
      /\ SectionKnown /\ FlagsKept
  BY DEF LogBase, LogTyped, MadeTyped
<1>f. lock.by = NoProc => (s \in pruned \ missed => meta.src[s].evicted)
  BY <1>0 DEF FlagsKept, Noted, Holds
<1>1. CASE Open(p)
  <2>1. SectionBegins(p, "open") /\ OpenDoes(p)
    BY <1>0, <1>1, OpenSection
  <2>2. SectionSays(p, "open")
    BY <1>f, <2>1 DEF SectionSays, SectionBegins, OpenDoes, Ops
  <2> QED BY <2>2
<1>h. ASSUME NEW op \in {"maintain", "rotate"}, SectionBegins(p, op), NEW V, NEW ttl, HousekeepDoes(p, V, ttl),
             proc[p].pc # "down", op = "rotate" => proc[p].pc = "append"
      PROVE  SectionSays(p, op)
  <2>1. op \in Ops /\ op # "clear"
    BY DEF Ops
  <2>2. lock.by = NoProc
    BY <1>h DEF SectionBegins
  <2>3. s \in pruned' \ missed => Noting(p).evicted /\ proc'[p].evicted
    <3>1. pruned' = pruned \/ (V # {} /\ pruned' = pruned \cup {s})
      BY <1>h DEF HousekeepDoes
    <3>2. /\ Noting(p).evicted <=> meta.src[s].evicted \/ V # {}
          /\ proc'[p].evicted = Noting(p).evicted
      BY <1>h DEF HousekeepDoes
    <3> QED BY <1>f, <2>2, <3>1, <3>2
  <2>4. pruned' \ {s} = pruned \ {s}
    BY <1>h DEF HousekeepDoes
  <2>5. made'.gens = made.gens
    BY <1>0, <1>h DEF HousekeepDoes
  <2> QED BY <1>h, <2>1, <2>3, <2>4, <2>5 DEF SectionSays, HousekeepDoes
<1>2. CASE Maintain(p)
  <2>1. PICK V : HousekeepDoes(p, V, TRUE)
    BY <1>0, <1>2, MaintainSection
  <2>2. SectionBegins(p, "maintain")
    BY <1>0, <1>2, MaintainSection
  <2>3. proc[p].pc # "down"
    BY <1>2 DEF Maintain
  <2>4. SectionSays(p, "maintain")
    BY <1>h, <2>1, <2>2, <2>3
  <2> QED BY <2>4
<1>3. CASE Rotate(p)
  <2>1. PICK V : HousekeepDoes(p, V, FALSE)
    BY <1>0, <1>3, RotateSection
  <2>2. SectionBegins(p, "rotate") /\ proc[p].pc = "append"
    BY <1>0, <1>3, RotateSection
  <2>4. SectionSays(p, "rotate")
    BY <1>h, <2>1, <2>2
  <2> QED BY <2>4
<1>4. CASE PersistCounters(p)
  <2>1. SectionBegins(p, "count") /\ CountDoes(p) /\ proc[p].pc = "count"
    BY <1>0, <1>4, CountSection DEF PersistCounters
  <2>2. s \in pruned \ missed => proc[p].evicted
    BY <1>0, <2>1 DEF FlagsKept
  <2>3. SectionSays(p, "count")
    BY <2>1, <2>2 DEF SectionSays, SectionBegins, CountDoes, Ops
  <2> QED BY <2>3
<1>5. CASE Clear(p)
  <2>1. SectionBegins(p, "clear") /\ ClearDoes(p) /\ proc[p].pc = "clear"
    BY <1>0, <1>5, ClearSection DEF Clear
  <2>2. made'.gens = made.gens + 1
    BY <1>0, <2>1 DEF ClearDoes
  <2>3. SectionSays(p, "clear")
    BY <1>5, <2>1, <2>2 DEF SectionSays, SectionBegins, ClearDoes, Ops
  <2> QED BY <2>3
<1> QED BY <1>1, <1>2, <1>3, <1>4, <1>5 DEF Begins

LEMMA BeginningKeeps ==
    ASSUME LogBase, NEW p \in Procs, Begins(p)
    PROVE  SectionKnown' /\ GensCounted' /\ HandsRecord' /\ FlagsKept'
<1> DEFINE s == SourceOf[p]
<1>0. /\ LogTyped /\ SectionKnown /\ GensCounted /\ HandsRecord /\ FlagsKept
      /\ made.gens \in Nat /\ meta.top \in Nat /\ \A t \in Sources : meta.src[t].gen \in Nat
  BY GensTyped DEF LogBase
<1>1. PICK op : SectionSays(p, op)
  BY SectionSaysSo
<1>2. /\ lock.by = NoProc /\ lock'.by = p /\ lock'.op = op /\ meta' = meta /\ missed' = missed
      /\ \A q \in Procs \ {p} : proc'[q] = proc[q]
      /\ \A t \in Sources \ {s} : lock'.meta.src[t] = meta.src[t]
      /\ made'.gens \in {made.gens, made.gens + 1}
  BY <1>1 DEF SectionSays, SectionBegins
<1>3. SectionKnown'
  <2>1. op # "clear" => lock'.meta.top = meta.top /\ lock'.meta.src[s].gen = meta.src[s].gen
    BY <1>1 DEF SectionSays, SameGen, Noting
  <2>2. op = "clear" =>
             /\ lock'.meta.top = made'.gens /\ lock'.meta.src[s].gen = made'.gens
             /\ meta.top < made'.gens /\ \A t \in Sources : meta.src[t].gen < made'.gens
    BY <1>0, <1>1 DEF SectionSays, Noting, GensCounted
  <2>3. proc'[p].pc # "down" /\ (op = "rotate" => proc'[p].pc = "append")
    BY <1>1 DEF SectionSays
  <2> QED BY <1>2, <2>1, <2>2, <2>3 DEF SectionKnown
<1>4. GensCounted'
  BY <1>0, <1>2 DEF GensCounted
<1>5. HandsRecord'
  BY <1>0, <1>1, <1>2 DEF HandsRecord, SectionSays
<1>6. FlagsKept'
  <2>1. Noted(s)' = Noting(p) /\ \A t \in Sources \ {s} : Noted(t)' = Noted(t)
    BY <1>2, SourceTyped DEF Noted, Holds, Noting
  <2>2. \A t \in pruned' \ missed' : t # s => t \in pruned \ missed /\ t \in Sources
    BY <1>0, <1>1, <1>2 DEF SectionSays, LogTyped
  <2>3. s \in pruned' \ missed' => Noting(p).evicted /\ proc'[p].evicted
    BY <1>1, <1>2 DEF SectionSays
  <2>4. \A t \in pruned' \ missed' : Noted(t)'.evicted
    <3> TAKE t \in pruned' \ missed'
    <3>1. CASE t = s
      BY <2>1, <2>3, <3>1
    <3>2. CASE t # s
      BY <1>0, <2>1, <2>2, <3>2 DEF FlagsKept
    <3> QED BY <3>1, <3>2
  <2>5. \A q \in Procs : proc'[q].pc # "down" /\ SourceOf[q] \in pruned' \ missed' => proc'[q].evicted
    <3> SUFFICES ASSUME NEW q \in Procs, proc'[q].pc # "down", SourceOf[q] \in pruned' \ missed'
                 PROVE  proc'[q].evicted
      OBVIOUS
    <3>1. CASE q = p
      BY <2>3, <3>1
    <3>2. CASE q # p
      <4>1. SourceOf[q] # s
        BY <3>2, OneWriter
      <4> QED BY <1>0, <1>2, <2>2, <3>2, <4>1 DEF FlagsKept
    <3> QED BY <3>1, <3>2
  <2> QED BY <2>4, <2>5 DEF FlagsKept
<1> QED BY <1>3, <1>4, <1>5, <1>6

LEMMA CommittingKeeps ==
    ASSUME LogBase, NEW p \in Procs, Commit(p)
    PROVE  SectionKnown' /\ GensCounted' /\ HandsRecord' /\ FlagsKept'
<1> DEFINE s == SourceOf[p]
<1>0. /\ LogTyped /\ SectionKnown /\ GensCounted /\ HandsRecord /\ FlagsKept
      /\ made.gens \in Nat /\ meta.top \in Nat /\ \A t \in Sources : meta.src[t].gen \in Nat
  BY GensTyped DEF LogBase
<1>1. /\ lock.by = p /\ lock' = [by |-> NoProc] /\ meta' = lock.meta
      /\ UNCHANGED <<made, pruned, missed>> /\ p # NoProc
  BY SourceTyped DEF Commit
<1>2. OnlyWriter(p) /\ Same(p) /\ proc'[p].pc = After(proc[p], lock.op, TRUE)
  BY <1>0, CommitWriter
<1>3. SectionKnown'
  BY <1>1 DEF SectionKnown
<1>4. GensCounted'
  <2>1. CASE lock.op = "clear"
    BY <1>0, <1>1, <2>1 DEF GensCounted, SectionKnown
  <2>2. CASE lock.op # "clear"
    BY <1>0, <1>1, <2>2 DEF GensCounted, SectionKnown
  <2> QED BY <2>1, <2>2
<1>5. HandsRecord'
  <2>1. proc'[p].pc \in {"due", "append"} => proc[p].pc \in {"due", "append"}
    BY <1>0, <1>1, <1>2 DEF After, SectionKnown
  <2> QED BY <1>0, <1>2, <2>1 DEF HandsRecord, OnlyWriter, Same, Carries
<1>6. FlagsKept'
  <2>1. \A t \in Sources : Noted(t)' = Noted(t)
    BY <1>0, <1>1 DEF Noted, Holds, SectionKnown
  <2>2. pruned \subseteq Sources
    BY <1>0 DEF LogTyped
  <2>3. proc[p].pc # "down"
    BY <1>0, <1>1 DEF SectionKnown
  <2> QED BY <1>0, <1>1, <1>2, <2>1, <2>2, <2>3 DEF FlagsKept, OnlyWriter, Same, Carries
<1> QED BY <1>3, <1>4, <1>5, <1>6

LEMMA LosingMetaKeeps ==
    ASSUME LogBase, LoseMeta
    PROVE  SectionKnown' /\ GensCounted' /\ HandsRecord' /\ FlagsKept'
<1>0. /\ LogTyped /\ HandsRecord /\ made.gens \in Nat /\ pruned \subseteq Sources
      /\ made \in [records : 0..MaxRecords, clears : 0..MaxClears, gens : Nat, faults : Nat]
  BY GensTyped DEF LogBase, LogTyped, MadeTyped
<1>1. /\ lock.by = NoProc /\ meta' = BlankMeta /\ missed' = Sources /\ Faulted
      /\ UNCHANGED <<lock, proc, pruned>>
  BY DEF LoseMeta
<1>2. made'.gens = made.gens
  BY <1>0, <1>1 DEF Faulted
<1>3. BlankMeta.top = 0 /\ \A t \in Sources : BlankMeta.src[t].gen = 0
  BY DEF BlankMeta, BlankSource
<1>4. SectionKnown'
  BY <1>1 DEF SectionKnown
<1>5. GensCounted'
  BY <1>0, <1>1, <1>2, <1>3 DEF GensCounted
<1>6. HandsRecord' /\ FlagsKept'
  BY <1>0, <1>1 DEF HandsRecord, FlagsKept
<1> QED BY <1>4, <1>5, <1>6

(* Types, what an open section knows, and the flags, hold together.        *)
THEOREM LogBaseInductive == LogSpec => []LogBase
<1>1. LogInit => LogBase
  <2> SUFFICES ASSUME LogInit PROVE LogBase
    OBVIOUS
  <2>1. LogTyped
    BY LogTypedStart
  <2>2. SectionKnown /\ FlagsKept /\ HandsRecord
    BY SourceTyped DEF LogInit, SectionKnown, FlagsKept, HandsRecord, Off, Idle
  <2>3. GensCounted
    BY DEF LogInit, GensCounted, BlankMeta, BlankSource
  <2> QED BY <2>1, <2>2, <2>3 DEF LogBase
<1>2. LogBase /\ [LogNext]_logVars => LogBase'
  <2> SUFFICES ASSUME LogBase, [LogNext]_logVars PROVE LogBase'
    OBVIOUS
  <2>1. LogTyped' /\ LogTyped
    BY LogTypedStep DEF LogBase
  <2>2. SectionKnown' /\ GensCounted' /\ HandsRecord' /\ FlagsKept'
    <3>1. ASSUME NEW p \in Procs, Abandons(p)
          PROVE  SectionKnown' /\ GensCounted' /\ HandsRecord' /\ FlagsKept'
      BY <2>1, <3>1, AbandonSteps, AbandoningKeeps, HandsStayKeeps DEF LogBase
    <3>2. ASSUME Quietly
          PROVE  SectionKnown' /\ GensCounted' /\ HandsRecord' /\ FlagsKept'
      BY <2>1, <3>2, QuietSteps, WaitingKeeps, WaitingKeepsFlags, HandsStayKeeps DEF LogBase
    <3> QED BY <3>1, <3>2, StepGroups, BeginningKeeps, CommittingKeeps, LosingMetaKeeps
  <2> QED BY <2>1, <2>2 DEF LogBase
<1> QED BY <1>1, <1>2, PTL DEF LogSpec

(* What the budget took of a source stays flagged until it is cleared,     *)
(* over restarts, maintenance and the writes of the other process          *)
(* (prune_locked, load_meta_state, persist_counters).                      *)
THEOREM EvictionStaysFlagged == LogSpec => []EvictionIsTold
<1>1. LogBase => EvictionIsTold
  BY DEF LogBase, FlagsKept, EvictionIsTold, Noted, Holds
<1> QED BY <1>1, LogBaseInductive, PTL

----------------------------------------------------------------------------
(* Epochs and queues.  A writer that runs has been handed an epoch, and so *)
(* has every file on disk: Open and Clear hand out a new one, and a writer *)
(* names its files by its own.                                             *)

FilesBegun == \A f \in DOMAIN disk : f[2] \in 1..epochs /\ f[3] \in Nat \ {0}
WritersBegun == \A p \in Procs : proc[p].pc # "down" => proc[p].epoch \in 1..epochs
LeftBegun == \A f \in left.pass \cup left.clear : f[1] \in Sources /\ f[2] \in 1..epochs
QueuesFit == \A p \in Procs : Len(queue[p]) <= QueueCap
LogNamed == LogBase /\ FilesBegun /\ WritersBegun /\ LeftBegun /\ QueuesFit

LEMMA AllocatedName ==
    ASSUME NEW p \in Procs, NEW w \in Writers, NEW m \in Metas, NEW d, IsDisk(d)
    PROVE  LET a == FileAllocated(p, w, m, d) IN
           /\ a.w.epoch = w.epoch
           /\ \A f \in DOMAIN a.d \ DOMAIN d : f[2] = w.epoch /\ f[3] \in Nat \ {0}
<1> DEFINE s == SourceOf[p]
           n == FreeIndex(d, s, w.epoch, m.src[s].next)
           f == <<s, w.epoch, n>>
           v == [w EXCEPT !.file = f, !.bytes = 0]
<1>1. s \in Sources /\ w.epoch \in Nat /\ m.src[s] \in SourceMetas /\ m.src[s].next \in Nat \ {0}
  BY DEF Writers, Metas, SourceMetas
<1>2. n \in Nat \ {0}
  <2> HIDE DEF s
  <2> QED BY <1>1, FreeIndexIsFree
<1>3. f[2] = w.epoch /\ f[3] = n
  OBVIOUS
<1>4. LET a == FileAllocated(p, w, m, d) IN a.w = v /\ a.d = WithFile(d, f)
  BY DEF FileAllocated
<1> HIDE DEF n, f
<1>5. v.epoch = w.epoch
  BY DEF Writers
<1>6. DOMAIN WithFile(d, f) = DOMAIN d \cup {f}
  BY DEF WithFile
<1> QED BY <1>2, <1>3, <1>4, <1>5, <1>6

(* A section of p leaves files that have begun, named by its own epoch,    *)
(* which it had or has just been handed.                                   *)
NamesFiles(p) ==
    /\ \A q \in Procs \ {p} : proc'[q] = proc[q]
    /\ \A f \in DOMAIN disk' \ DOMAIN disk : f[2] = proc'[p].epoch /\ f[3] \in Nat \ {0}
    /\ queue' = queue
    /\ \/ epochs' = epochs /\ proc'[p].epoch = proc[p].epoch /\ proc[p].pc # "down"
       \/ epochs' = epochs + 1 /\ proc'[p].epoch = epochs + 1

LEMMA SectionNames ==
    ASSUME LogTyped, NEW p \in Procs, NEW op, NEW m, NEW d, NEW w, Section(p, op, m, d, w)
    PROVE  disk' = d /\ proc'[p] = w /\ \A q \in Procs \ {p} : proc'[q] = proc[q]
BY DEF Section, LogTyped

LEMMA OpenNames ==
    ASSUME LogTyped, NEW p \in Procs, Open(p)
    PROVE  NamesFiles(p)
<1> DEFINE s == SourceOf[p]
           v == [Idle EXCEPT !.epoch = epochs + 1]
           w == LoadMeta(v, meta, s)
           a == FileAllocated(p, w, meta, disk)
<1>1. s \in Sources /\ meta \in Metas /\ IsDisk(disk) /\ meta.src[s] \in SourceMetas /\ epochs + 1 \in Nat
  <2>1. meta \in Metas /\ IsDisk(disk) /\ epochs + 1 \in Nat
    BY DEF LogTyped
  <2> QED BY <2>1 DEF Metas
<1>2. v \in Writers /\ v.epoch = epochs + 1
  BY <1>1, IdleIsWriter DEF Writers, Idle
<1>3. w \in Writers /\ w.epoch = epochs + 1
  <2> HIDE DEF v
  <2> QED BY <1>1, <1>2 DEF LoadMeta, Writers, SourceMetas
<1>4. Section(p, "open", a.m, a.d, a.w) /\ epochs' = epochs + 1 /\ queue' = queue
  BY DEF Open
<1> HIDE DEF w
<1>5. a.w.epoch = w.epoch /\ \A f \in DOMAIN a.d \ DOMAIN disk : f[2] = w.epoch /\ f[3] \in Nat \ {0}
  BY <1>1, <1>3, AllocatedName
<1> HIDE DEF a
<1>6. disk' = a.d /\ proc'[p] = a.w /\ \A q \in Procs \ {p} : proc'[q] = proc[q]
  BY <1>4, SectionNames
<1> QED BY <1>3, <1>4, <1>5, <1>6 DEF NamesFiles

LEMMA ClearNames ==
    ASSUME LogTyped, NEW p \in Procs, Clear(p)
    PROVE  NamesFiles(p)
<1> DEFINE s == SourceOf[p]
           g == made.gens + 1
           m == [meta EXCEPT !.top = g, !.src[s].gen = g, !.src[s].evicted = FALSE, !.src[s].trimmed = 0]
           n == [meta.src[s] EXCEPT !.gen = g, !.evicted = FALSE, !.trimmed = 0]
           w == [proc[p] EXCEPT !.epoch = epochs + 1, !.bytes = 0, !.window = Window,
                                !.evicted = FALSE, !.trimmed = 0]
<1>0. PICK stay \in SUBSET FilesOf(disk, s), creates \in BOOLEAN : Emptied(p, stay, creates)
  BY ClearEmpties
<1> DEFINE d == Without(disk, FilesOf(disk, s) \ stay)
           a == IF creates THEN FileAllocated(p, w, m, d)
                ELSE [w |-> [w EXCEPT !.file = NoFile], m |-> m, d |-> d]
<1>00. a = Cleared(p, stay, creates)
  BY DEF Cleared, Doomed
<1>01. /\ Section(p, "clear", a.m, a.d, a.w)
       /\ left' = [pass  |-> OfOthers(left.pass, s) \cup stay,
                   clear |-> OfOthers(left.clear, s) \cup stay]
       /\ made' = [made EXCEPT !.gens = @ + 1,
                      !.faults = IF stay = {} /\ creates THEN @ ELSE @ + 1]
  <2> HIDE DEF a
  <2> QED BY <1>0, <1>00 DEF Emptied
<1>1. /\ s \in Sources /\ meta \in Metas /\ IsDisk(disk) /\ proc[p] \in Writers /\ g \in Nat
      /\ meta.src[s] \in SourceMetas /\ epochs + 1 \in Nat /\ Window \in Windows
  <2>1. meta \in Metas /\ IsDisk(disk) /\ proc[p] \in Writers /\ g \in Nat /\ epochs + 1 \in Nat
    BY DEF LogTyped, MadeTyped
  <2>2. Window \in Windows
    BY WindowTyped DEF LogTyped
  <2> QED BY <2>1, <2>2 DEF Metas
<1>2. m.src = [meta.src EXCEPT ![s] = n] /\ m.top = g /\ n \in SourceMetas
  BY <1>1 DEF Metas, SourceMetas
<1>3. m \in Metas
  BY <1>1, <1>2 DEF Metas
<1>4. w \in Writers /\ w.epoch = epochs + 1
  BY <1>1 DEF Writers
<1>5. IsDisk(d) /\ DOMAIN d \subseteq DOMAIN disk
  <2>1. IsDisk(Without(disk, FilesOf(disk, s) \ stay))
    BY <1>1, DroppedFiles
  <2> QED BY <2>1 DEF Without
<1>6. Section(p, "clear", a.m, a.d, a.w) /\ epochs' = epochs + 1 /\ queue' = queue
  <2>1. epochs' = epochs + 1 /\ queue' = queue
    BY DEF Clear
  <2> QED BY <1>01, <2>1
<1> HIDE DEF m, w, d
<1>8. a.w.epoch = w.epoch /\ \A f \in DOMAIN a.d \ DOMAIN d : f[2] = w.epoch /\ f[3] \in Nat \ {0}
  <2>1. CASE creates
    <3>1. LET b == FileAllocated(p, w, m, d) IN
            /\ b.w.epoch = w.epoch
            /\ \A f \in DOMAIN b.d \ DOMAIN d : f[2] = w.epoch /\ f[3] \in Nat \ {0}
      BY <1>3, <1>4, <1>5, AllocatedName
    <3> QED BY <2>1, <3>1
  <2>2. CASE ~creates
    BY <1>4, <2>2 DEF Writers
  <2> QED BY <2>1, <2>2
<1> HIDE DEF a
<1>9. disk' = a.d /\ proc'[p] = a.w /\ \A q \in Procs \ {p} : proc'[q] = proc[q]
  BY <1>6, SectionNames
<1> QED BY <1>4, <1>5, <1>6, <1>8, <1>9 DEF NamesFiles

LEMMA HousekeepNames ==
    ASSUME LogTyped, NEW p \in Procs, NEW op, NEW from \in Writers, NEW ttl \in BOOLEAN,
           from.epoch = proc[p].epoch, proc[p].pc # "down",
           from.pc = proc[p].pc, from.hand = proc[p].hand, from.file \in {proc[p].file, NoFile},
           Housekeep(p, op, from, ttl), UNCHANGED <<queue, epochs>>
    PROVE  NamesFiles(p)
<1> DEFINE s == SourceOf[p]
           w == LoadMeta(from, meta, s)
           a == Equipment(p, from)
<1>1. s \in Sources /\ meta \in Metas /\ IsDisk(disk) /\ meta.src[s] \in SourceMetas
  <2>1. meta \in Metas /\ IsDisk(disk)
    BY DEF LogTyped
  <2> QED BY <2>1 DEF Metas
<1>2. w \in Writers /\ w.epoch = proc[p].epoch
  BY <1>1 DEF LoadMeta, Writers, SourceMetas
<1>3. /\ a.w \in Writers /\ a.w.epoch = w.epoch
      /\ \A f \in DOMAIN a.d \ DOMAIN disk : f[2] = w.epoch /\ f[3] \in Nat \ {0}
  <2>1. CASE from.file = NoFile
    <3>1. a = FileAllocated(p, w, meta, disk)
      BY <2>1 DEF Equipment
    <3> HIDE DEF w
    <3>2. \E f \in FileNames : Allocates(p, w, meta, disk, f, a)
      BY <1>1, <1>2, <3>1, Allocation
    <3>3. /\ a.w.epoch = w.epoch
          /\ \A f \in DOMAIN a.d \ DOMAIN disk : f[2] = w.epoch /\ f[3] \in Nat \ {0}
      BY <1>1, <1>2, <3>1, AllocatedName
    <3> HIDE DEF a
    <3> QED BY <3>2, <3>3 DEF Allocates
  <2>2. CASE from.file # NoFile
    BY <1>2, <2>2 DEF Equipment
  <2> QED BY <2>1, <2>2
<1> DEFINE closed == FilesOf(a.d, s) \ {a.w.file}
           D(reach) == IF ttl THEN Compact(a.d, closed, reach) ELSE a.d
<1>4. PICK reach, V, evicted :
        Section(p, op, [a.m EXCEPT !.src[s].evicted = evicted],
                Without(D(reach), V), [a.w EXCEPT !.evicted = evicted])
  <2>1. Chosen(p, op, ttl, Equipment(p, from))
    <3>1. \E f \in FileNames : Equips(p, f, Equipment(p, from))
      BY PassHasAFile
    <3>2. IsDisk(Equipment(p, from).d)
      BY <3>1 DEF Equips
    <3> QED BY <3>2, HousekeepPicks
  <2>2. PICK reach, stuck, T : PicksOf(p, op, ttl, a, closed, reach, stuck, T)
    BY <2>1 DEF Chosen
  <2> HIDE DEF a, closed
  <2>3. LET V == T \ stuck
            evicted == a.w.evicted \/ V # {}
        IN  Section(p, op, [a.m EXCEPT !.src[s].evicted = evicted],
                    Without(D(reach), V), [a.w EXCEPT !.evicted = evicted])
    BY <2>2 DEF PicksOf
  <2> HIDE DEF D
  <2> QED BY <2>3
<1> DEFINE d == D(reach)
           v == [a.w EXCEPT !.evicted = evicted]
<1>5. disk' = Without(d, V) /\ proc'[p] = v /\ \A q \in Procs \ {p} : proc'[q] = proc[q]
  <2> DEFINE m == [a.m EXCEPT !.src[s].evicted = evicted]
             e == Without(d, V)
  <2>1. Section(p, op, m, e, v)
    BY <1>4
  <2> HIDE DEF m, e, v
  <2> QED BY <2>1, SectionNames DEF e
<1>6. v.epoch = a.w.epoch
  BY <1>3 DEF Writers
<1>7. DOMAIN Without(d, V) \subseteq DOMAIN d /\ DOMAIN d \subseteq DOMAIN a.d
  BY DEF Without, Compact
<1> HIDE DEF a, d, v, w
<1> QED BY <1>2, <1>3, <1>5, <1>6, <1>7 DEF NamesFiles

LEMMA SectionsNameFiles ==
    ASSUME LogTyped, NEW p \in Procs, Begins(p)
    PROVE  NamesFiles(p)
<1>0. proc[p] \in Writers
  BY DEF LogTyped
<1>1. CASE Open(p) \/ Clear(p)
  BY <1>1, OpenNames, ClearNames
<1>2. CASE Maintain(p)
  <2> DEFINE from == IF proc[p].bytes > 0 THEN [proc[p] EXCEPT !.file = NoFile, !.bytes = 0] ELSE proc[p]
  <2>1. /\ from \in Writers /\ from.epoch = proc[p].epoch
        /\ from.pc = proc[p].pc /\ from.hand = proc[p].hand /\ from.file \in {proc[p].file, NoFile}
    BY <1>0 DEF Writers
  <2>2. Housekeep(p, "maintain", from, TRUE) /\ UNCHANGED <<queue, epochs>> /\ proc[p].pc # "down"
    BY <1>2 DEF Maintain
  <2> HIDE DEF from
  <2> QED BY <2>1, <2>2, HousekeepNames
<1>3. CASE Rotate(p)
  <2> DEFINE from == [proc[p] EXCEPT !.file = NoFile]
  <2>1. /\ from \in Writers /\ from.epoch = proc[p].epoch
        /\ from.pc = proc[p].pc /\ from.hand = proc[p].hand /\ from.file \in {proc[p].file, NoFile}
    BY <1>0 DEF Writers
  <2>2. Housekeep(p, "rotate", from, FALSE) /\ UNCHANGED <<queue, epochs>> /\ proc[p].pc # "down"
    BY <1>3 DEF Rotate
  <2> HIDE DEF from
  <2> QED BY <2>1, <2>2, HousekeepNames
<1>4. CASE PersistCounters(p)
  BY <1>4, SectionNames DEF PersistCounters, NamesFiles
<1> QED BY <1>1, <1>2, <1>3, <1>4 DEF Begins

(* Every other step leaves the names of the files, and a writer that runs  *)
(* after it ran before, in the same epoch.                                 *)
KeepsNames ==
    /\ DOMAIN disk' \subseteq DOMAIN disk /\ epochs' = epochs
    /\ \A p \in Procs : proc'[p].pc # "down" => proc[p].pc # "down" /\ proc'[p].epoch = proc[p].epoch

LEMMA WriterKeepsEpoch ==
    ASSUME LogBase, NEW p \in Procs,
           \/ Commit(p) \/ CommitFails(p) \/ SectionFails(p) \/ Take(p) \/ IdleTimeout(p)
           \/ Write(p) \/ WriteFails(p) \/ Crash(p)
    PROVE  KeepsNames
<1>0. proc \in [Procs -> Writers] /\ proc[p] \in Writers
  BY DEF LogBase, LogTyped
<1>1. Off.pc = "down"
  BY DEF Off, Idle
<1>2. lock.by = p => proc[p].pc # "down"
  BY SourceTyped DEF LogBase, SectionKnown
<1>3. /\ DOMAIN disk' \subseteq DOMAIN disk /\ epochs' = epochs
      /\ \A q \in Procs \ {p} : proc'[q] = proc[q]
  BY <1>0 DEF Commit, CommitFails, SectionFails, Take, IdleTimeout, Write, WriteFails, Crash
<1>4. proc'[p].pc # "down" => proc[p].pc # "down" /\ proc'[p].epoch = proc[p].epoch
  <2>1. CASE Commit(p)
    BY <1>0, <1>2, <2>1 DEF Commit, Writers
  <2>2. CASE CommitFails(p)
    BY <1>0, <1>1, <1>2, <2>2 DEF CommitFails, Writers
  <2>3. CASE SectionFails(p)
    <3> DEFINE op == CASE proc[p].pc = "append" -> "rotate"
                       [] proc[p].pc \in {"count", "clear"} -> proc[p].pc
                       [] OTHER -> "maintain"
               pc == After(proc[p], op, FALSE)
               read == [LoadMeta(proc[p], meta, SourceOf[p]) EXCEPT !.file = NoFile, !.bytes = 0]
    <3>1. PICK v \in {proc[p], read} : proc' = [proc EXCEPT ![p] = [v EXCEPT !.pc = pc]]
      BY <2>3 DEF SectionFails
    <3>2. meta.src[SourceOf[p]] \in SourceMetas
      BY DEF LogBase, LogTyped, Metas
    <3>3. read \in Writers /\ read.epoch = proc[p].epoch
      BY <1>0, <3>2 DEF LoadMeta, Writers, SourceMetas
    <3> HIDE DEF pc, read
    <3>4. v \in Writers /\ v.epoch = proc[p].epoch
      BY <1>0, <3>1, <3>3
    <3>5. [v EXCEPT !.pc = pc].epoch = v.epoch
      BY <3>4 DEF Writers
    <3>6. proc'[p] = [v EXCEPT !.pc = pc]
      BY <1>0, <3>1
    <3>7. proc'[p].epoch = proc[p].epoch
      BY <3>4, <3>5, <3>6
    <3> QED BY <2>3, <3>7 DEF SectionFails
  <2>4. CASE Take(p)
    <3> DEFINE r == Head(queue[p])
               pc == IF Head(queue[p]).id = -1 THEN "clear" ELSE IF Due(p) THEN "due" ELSE "append"
               w == [proc[p] EXCEPT !.hand = r, !.pc = pc]
    <3>1. proc' = [proc EXCEPT ![p] = w]
      BY <1>0, <2>4 DEF Take, Writers
    <3> HIDE DEF r, pc
    <3>2. w.epoch = proc[p].epoch
      BY <1>0 DEF Writers
    <3> HIDE DEF w
    <3> QED BY <1>0, <2>4, <3>1, <3>2 DEF Take
  <2>5. CASE IdleTimeout(p)
    <3> DEFINE w == [proc[p] EXCEPT !.pc = "rollover"]
    <3>1. proc' = [proc EXCEPT ![p] = w]
      BY <1>0, <2>5 DEF IdleTimeout, Writers
    <3>2. w.epoch = proc[p].epoch
      BY <1>0 DEF Writers
    <3> HIDE DEF w
    <3> QED BY <1>0, <2>5, <3>1, <3>2 DEF IdleTimeout
  <2>6. CASE Write(p)
    <3> DEFINE b == proc[p].bytes + 1
               t == IF proc[p].hand.cut THEN proc[p].trimmed + 1 ELSE proc[p].trimmed
               pc == IF proc[p].hand.cut THEN "count" ELSE "idle"
               w == [proc[p] EXCEPT !.bytes = b, !.hand = Torn, !.trimmed = t, !.pc = pc]
    <3>1. proc' = [proc EXCEPT ![p] = w]
      BY <1>0, <2>6 DEF Write, Writers
    <3> HIDE DEF b, t, pc
    <3>2. w.epoch = proc[p].epoch
      BY <1>0 DEF Writers
    <3> HIDE DEF w
    <3> QED BY <1>0, <2>6, <3>1, <3>2 DEF Write
  <2>7. CASE WriteFails(p)
    <3> DEFINE w == [proc[p] EXCEPT !.pc = "idle", !.hand = Torn]
    <3>1. proc' = [proc EXCEPT ![p] = w]
      BY <1>0, <2>7 DEF WriteFails, Writers
    <3>2. w.epoch = proc[p].epoch
      BY <1>0 DEF Writers
    <3> HIDE DEF w
    <3> QED BY <1>0, <2>7, <3>1, <3>2 DEF WriteFails
  <2>8. CASE Crash(p)
    BY <1>0, <1>1, <2>8 DEF Crash
  <2> QED BY <2>1, <2>2, <2>3, <2>4, <2>5, <2>6, <2>7, <2>8
<1> QED BY <1>3, <1>4 DEF KeepsNames

LEMMA NamesStay ==
    ASSUME LogTyped, LogTyped', FilesBegun, WritersBegun, KeepsNames
    PROVE  FilesBegun' /\ WritersBegun'
BY DEF FilesBegun, WritersBegun, KeepsNames

LEMMA NamesAreBegun ==
    ASSUME LogTyped, FilesBegun, WritersBegun, NEW p \in Procs, NamesFiles(p), proc'[p].epoch \in Nat
    PROVE  FilesBegun' /\ WritersBegun'
<1>1. epochs \in Nat /\ epochs' \in Nat /\ epochs <= epochs'
  BY DEF LogTyped, NamesFiles
<1>2. proc'[p].epoch \in 1..epochs'
  BY <1>1 DEF NamesFiles, WritersBegun
<1>3. FilesBegun'
  <2> SUFFICES ASSUME NEW f \in DOMAIN disk' PROVE f[2] \in 1..epochs' /\ f[3] \in Nat \ {0}
    BY DEF FilesBegun
  <2>1. CASE f \in DOMAIN disk
    BY <1>1, <2>1 DEF FilesBegun
  <2>2. CASE f \notin DOMAIN disk
    BY <1>2, <2>2 DEF NamesFiles
  <2> QED BY <2>1, <2>2
<1>4. WritersBegun'
  BY <1>1, <1>2 DEF WritersBegun, NamesFiles
<1> QED BY <1>3, <1>4

(* What a section leaves behind was there before, and no other step leaves *)
(* anything behind.                                                        *)
LeavesOld ==
    \A f \in left'.pass \cup left'.clear : f \in DOMAIN disk \/ f \in left.pass \cup left.clear

LEMMA SectionsLeaveOld ==
    ASSUME LogTyped, NEW p \in Procs, Begins(p)
    PROVE  LeavesOld
<1>0. left \in [pass : SUBSET FileNames, clear : SUBSET FileNames]
  BY DEF LogTyped
<1>1. CASE Open(p)
  <2>1. \E f : left' = [left EXCEPT !.pass = @ \ {f}]
    BY <1>1, OpenSection DEF OpenDoes
  <2> QED BY <1>0, <2>1 DEF LeavesOld
<1>2. ASSUME NEW V, NEW ttl, HousekeepDoes(p, V, ttl) PROVE LeavesOld
  BY <1>2 DEF HousekeepDoes, LeavesBehind, LeavesOld, FilesOf
<1>3. CASE PersistCounters(p)
  BY <1>3 DEF PersistCounters, LeavesOld
<1>4. CASE Clear(p)
  <2>1. PICK stay \in SUBSET FilesOf(disk, SourceOf[p]) :
          left' = [pass  |-> OfOthers(left.pass, SourceOf[p]) \cup stay,
                   clear |-> OfOthers(left.clear, SourceOf[p]) \cup stay]
    BY <1>4, ClearSection DEF ClearDoes
  <2> QED BY <2>1 DEF LeavesOld, OfOthers, FilesOf
<1> QED BY <1>1, <1>2, <1>3, <1>4, MaintainSection, RotateSection DEF Begins

LEMMA LeftStaysBegun ==
    ASSUME LogTyped, FilesBegun, LeftBegun, LeavesOld, epochs' \in Nat, epochs <= epochs'
    PROVE  LeftBegun'
<1>1. epochs \in Nat /\ DOMAIN disk \subseteq FileNames
  BY DEF LogTyped, IsDisk
<1>2. \A f \in DOMAIN disk : f[1] \in Sources
  BY <1>1 DEF FileNames
<1> QED BY <1>1, <1>2 DEF LeftBegun, FilesBegun, LeavesOld

(* What joins a queue finds room in it; the rest only makes queues shorter.*)
LEMMA QueuesStayFit ==
    ASSUME LogTyped, QueuesFit, [LogNext]_logVars
    PROVE  QueuesFit'
<1>0. queue \in [Procs -> Seq(RecordSet)] /\ QueueCap \in Nat \ {0}
  BY BoundsTyped DEF LogTyped
<1>1. ASSUME NEW p \in Procs, NEW r, Enqueues(p, r), Len(queue[p]) < QueueCap, r \in RecordSet
      PROVE  QueuesFit'
  <2>1. Len(Append(queue[p], r)) = Len(queue[p]) + 1 /\ Len(queue[p]) \in Nat
    BY <1>0, <1>1
  <2> QED BY <1>0, <1>1, <2>1 DEF QueuesFit, Enqueues
<1>2. ASSUME NEW p \in Procs, Record(p) PROVE QueuesFit'
  <2>1. /\ made.records < MaxRecords
        /\ \/ queue' = queue
           \/ Len(queue[p]) < QueueCap /\ \E big \in BOOLEAN : Enqueues(p, NewRecord(big))
    <3>1. queue[p] \in Seq(RecordSet)
      BY <1>0
    <3>2. Len(queue[p]) \in Nat
      BY <3>1
    <3>3. made.records < MaxRecords /\
          \E big \in BOOLEAN :
            queue' = IF Len(queue[p]) >= QueueCap THEN queue
                     ELSE [queue EXCEPT ![p] = Append(@, NewRecord(big))]
      BY <1>2 DEF Record, NewRecord
    <3>4. ~(Len(queue[p]) >= QueueCap) => Len(queue[p]) < QueueCap
      BY <1>0, <3>2
    <3> QED BY <3>3, <3>4 DEF Enqueues
  <2>2. \A big \in BOOLEAN : NewRecord(big) \in RecordSet
    BY <2>1, NewRecordTyped
  <2>3. CASE queue' = queue
    BY <2>3 DEF QueuesFit
  <2> QED BY <1>1, <2>1, <2>2, <2>3
<1>3. ASSUME NEW p \in Procs, AskOwner(p) PROVE QueuesFit'
  BY <1>1, <1>3, ClearCommandTyped DEF AskOwner, Enqueues, LogTyped
<1>4. ASSUME NEW p \in Procs, Take(p) PROVE QueuesFit'
  <2>1. queue[p] \in Seq(RecordSet) /\ queue[p] # <<>> /\ queue' = [queue EXCEPT ![p] = Tail(@)]
    BY <1>0, <1>4 DEF Take
  <2>2. Len(Tail(queue[p])) <= Len(queue[p]) /\ Len(queue[p]) \in Nat /\ Len(Tail(queue[p])) \in Nat
    BY <2>1
  <2> QED BY <1>0, <2>1, <2>2 DEF QueuesFit
<1>5. ASSUME NEW p \in Procs, Crash(p) PROVE QueuesFit'
  BY <1>0, <1>5 DEF Crash, QueuesFit
<1>6. ASSUME queue' = queue PROVE QueuesFit'
  BY <1>6 DEF QueuesFit
<1>7. \/ queue' = queue
      \/ \E p \in Procs : Record(p) \/ AskOwner(p) \/ Take(p) \/ Crash(p)
  <2>1. ASSUME NEW p \in Procs, Begins(p) PROVE queue' = queue
    BY <2>1 DEF Begins, Open, Maintain, Rotate, PersistCounters, Clear
  <2>2. ASSUME NEW p \in Procs,
               \/ Commit(p) \/ CommitFails(p) \/ SectionFails(p) \/ IdleTimeout(p)
               \/ Write(p) \/ WriteFails(p) \/ RequestClear(p)
        PROVE  queue' = queue
    BY <2>2 DEF Commit, CommitFails, SectionFails, IdleTimeout, Write, WriteFails, RequestClear
  <2>3. OwnerFails \/ LoseMeta \/ Tick \/ ChangeClock \/ UNCHANGED logVars => queue' = queue
    BY DEF OwnerFails, LoseMeta, Tick, ChangeClock, logVars
  <2> QED BY <2>1, <2>2, <2>3 DEF LogNext, WriterStep, Begins
<1> QED BY <1>2, <1>3, <1>4, <1>5, <1>6, <1>7

(* Files, writers and queues keep to what was handed out: the inductive    *)
(* invariant behind the types of the log (ConsoleLogStore in               *)
(* console_log_store.rs).                                                  *)
THEOREM NamesInductive == LogSpec => []LogNamed
<1>1. LogInit => FilesBegun /\ WritersBegun /\ LeftBegun /\ QueuesFit
  BY BoundsTyped DEF LogInit, FilesBegun, WritersBegun, LeftBegun, QueuesFit, Off, Idle
<1>2. ASSUME LogBase, LogBase', FilesBegun, WritersBegun, LeftBegun, QueuesFit, [LogNext]_logVars
      PROVE  FilesBegun' /\ WritersBegun' /\ LeftBegun' /\ QueuesFit'
  <2>0. LogTyped /\ LogTyped' /\ QueuesFit' /\ epochs \in Nat /\ epochs' \in Nat
    BY <1>2, QueuesStayFit DEF LogBase, LogTyped
  <2>1. ASSUME NEW p \in Procs, Begins(p) PROVE FilesBegun' /\ WritersBegun' /\ LeftBegun'
    <3>1. proc'[p].epoch \in Nat
      BY <2>0 DEF LogTyped, Writers
    <3>2. NamesFiles(p)
      BY <2>0, <2>1, SectionsNameFiles
    <3>3. epochs <= epochs'
      BY <2>0, <3>2 DEF NamesFiles
    <3> QED BY <1>2, <2>0, <2>1, <3>1, <3>2, <3>3, NamesAreBegun, SectionsLeaveOld, LeftStaysBegun
  <2>2. ASSUME KeepsNames, left' = left PROVE FilesBegun' /\ WritersBegun' /\ LeftBegun'
    <3>1. LeavesOld /\ epochs <= epochs'
      BY <2>0, <2>2 DEF LeavesOld, KeepsNames
    <3> QED BY <1>2, <2>0, <2>2, <3>1, NamesStay, LeftStaysBegun
  <2>3. ASSUME NEW p \in Procs,
               \/ Commit(p) \/ CommitFails(p) \/ SectionFails(p) \/ Take(p) \/ IdleTimeout(p)
               \/ Write(p) \/ WriteFails(p) \/ Crash(p)
        PROVE  FilesBegun' /\ WritersBegun' /\ LeftBegun'
    <3>1. left' = left
      BY <2>3 DEF Commit, CommitFails, SectionFails, Take, IdleTimeout, Write, WriteFails, Crash
    <3> QED BY <1>2, <2>2, <2>3, <3>1, WriterKeepsEpoch
  <2>4. ASSUME \/ \E p \in Procs : Record(p) \/ RequestClear(p) \/ AskOwner(p)
               \/ OwnerFails \/ LoseMeta \/ Tick \/ ChangeClock
               \/ UNCHANGED logVars
        PROVE  FilesBegun' /\ WritersBegun' /\ LeftBegun'
    <3>1. disk' = disk /\ epochs' = epochs /\ proc' = proc /\ left' = left
      BY <2>4 DEF Record, RequestClear, AskOwner, OwnerFails, LoseMeta, Tick, ChangeClock, logVars
    <3>2. KeepsNames
      BY <3>1 DEF KeepsNames
    <3> QED BY <2>2, <3>1, <3>2
  <2> QED BY <1>2, <2>0, <2>1, <2>3, <2>4 DEF LogNext, WriterStep, Begins
<1> QED BY <1>1, <1>2, LogBaseInductive, PTL DEF LogSpec, LogNamed

(* Every variable of the console log keeps its type: a file names a source,*)
(* an epoch that has begun and an index, and no queue exceeds its limit    *)
(* (allocate_file_locked, try_send in ConsoleLogStore).                    *)
THEOREM LogTypeCorrect == LogSpec => []LogTypeOK
<1>1. LogNamed => LogTypeOK
  <2> SUFFICES ASSUME LogNamed PROVE LogTypeOK
    OBVIOUS
  <2>1. LogTyped /\ GensCounted /\ FilesBegun /\ LeftBegun /\ QueuesFit
    BY DEF LogNamed, LogBase
  <2>2. clock \in [utc : 0..MaxTime, offset : Offsets] /\ made.gens \in Nat
    BY <2>1 DEF LogTyped, ClockTyped, MadeTyped
  <2>3. \A f \in DOMAIN disk :
          f[1] \in Sources /\ f[2] \in 1..epochs /\ f[3] \in Nat \ {0} /\ Lines(f) \subseteq RecordSet
    <3> TAKE f \in DOMAIN disk
    <3>1. f \in FileNames /\ disk[f] \in Seq(RecordSet)
      BY <2>1 DEF LogTyped, IsDisk
    <3>2. f[1] \in Sources
      BY <3>1 DEF FileNames
    <3>3. Lines(f) \subseteq RecordSet
      BY <3>1 DEF Lines
    <3> QED BY <2>1, <3>2, <3>3 DEF FilesBegun
  <2>4. /\ meta.top \in 0..made.gens
        /\ \A s \in Sources : meta.src[s].next \in Nat \ {0} /\ meta.src[s].gen \in 0..made.gens
    BY <2>1, <2>2, GensTyped DEF GensCounted
  <2>5. lock.by \in Procs \union {NoProc}
    BY <2>1, LockHeld
  <2>6. \A p \in Procs :
          /\ proc[p].pc \in {"down", "idle", "startup", "due", "rollover", "append", "count", "clear"}
          /\ proc[p].hand \in RecordSet
    BY <2>1 DEF LogTyped, Writers, WriterStages
  <2> QED BY <2>1, <2>2, <2>3, <2>4, <2>5, <2>6 DEF LogTypeOK, QueuesFit, LeftBegun
<1> QED BY <1>1, NamesInductive, PTL

----------------------------------------------------------------------------
(* What a confirmed clear has forgotten. *)

Recent(r, u) == r.id = -1 \/ r.id > u
Newer(r, u) == Half(r) \/ r.id > u

(* The lines of a source, but in files that a clear could not delete.      *)
Remaining(d, kept, s) == UNION {LinesIn(d, f) : f \in FilesOf(d, s) \ kept}

FilesOwned ==
    \A p \in Procs : proc[p].file = NoFile \/ (proc[p].file \in FileNames /\ proc[p].file[1] = SourceOf[p])

(* An owner that has done it, and one that has confirmed it.               *)
HasForgotten(p) ==
    /\ \A r \in Remaining(disk, left.clear, SourceOf[p]) : Newer(r, command.upto)
    /\ \A n \in DOMAIN queue[p] : Recent(queue[p][n], command.upto)
    /\ proc[p].pc \in {"due", "append"} => Recent(proc[p].hand, command.upto)
Forgot(p) == SourceOf[p] \in command.ok => HasForgotten(p)
(* One that has it in its queue or in hand. *)
WillForget(p) ==
    /\ \A n \in DOMAIN queue[p] : queue[p][n] = ClearCommand =>
          \A k \in DOMAIN queue[p] : k > n => Recent(queue[p][k], command.upto)
    /\ proc[p].hand = ClearCommand =>
          /\ \A n \in DOMAIN queue[p] : Recent(queue[p][n], command.upto)
          /\ lock.by = p /\ lock.op = "clear" =>
               \A r \in Remaining(disk, left.clear, SourceOf[p]) : Newer(r, command.upto)
Numbered(p) ==
    /\ proc[p].hand.id = -1 => proc[p].hand.t <= made.clears
    /\ \A n \in DOMAIN queue[p] : queue[p][n].id = -1 => queue[p][n].t <= made.clears

(* Only a process confirms.                                                *)
Confirmed == \A s \in command.ok : \E p \in Procs : SourceOf[p] = s

Forgetting ==
    /\ FilesOwned /\ Confirmed /\ command.upto <= made.records
    /\ \A p \in Procs : Forgot(p) /\ WillForget(p) /\ Numbered(p)

LEMMA StoredLines ==
    ASSUME NEW d, NEW kept, NEW s, NEW r
    PROVE  r \in Remaining(d, kept, s) <=>
              \E f \in DOMAIN d : f[1] = s /\ f \notin kept /\ r \in LinesIn(d, f)
BY DEF Remaining, FilesOf

(* A step after which p is no worse off. *)
AtRest(p) ==
    /\ Remaining(disk', left'.clear, SourceOf[p]) \subseteq Remaining(disk, left.clear, SourceOf[p])
    /\ queue'[p] = queue[p] \/ queue'[p] = <<>>
    /\ proc'[p].hand = proc[p].hand \/ proc'[p].hand = Torn
    /\ proc'[p].pc \in {"due", "append"} => proc[p].pc \in {"due", "append"} /\ proc'[p].hand = proc[p].hand
    /\ lock'.by = p /\ lock'.op = "clear" =>
         (lock.by = p /\ lock.op = "clear") \/ Remaining(disk', left'.clear, SourceOf[p]) = {}
Justified(p) == SourceOf[p] \in command'.ok => HasForgotten(p)
Weaker ==
    command'.upto \in {command.upto, 0} /\ made'.clears = made.clears /\ made'.records >= made.records

LEMMA RecordNumbers ==
    ASSUME LogTyped
    PROVE  /\ made.records \in Nat /\ made.clears \in Nat /\ command.upto \in Nat
           /\ \A p \in Procs : /\ proc[p].hand.id \in Int /\ proc[p].hand.t \in Nat
                               /\ \A n \in DOMAIN queue[p] : queue[p][n].id \in Int /\ queue[p][n].t \in Nat
           /\ \A s \in Sources : \A r \in Remaining(disk, left.clear, s) : r.id \in Int
           /\ Torn.id = 0 /\ ClearCommand.id = -1 /\ ClearCommand.t = made.clears /\ ClearCommand # Torn
<1>1. \A r \in RecordSet : r.id \in Int /\ r.t \in Nat
  BY BoundsTyped DEF RecordSet
<1>2. made.records \in Nat /\ made.clears \in Nat /\ command.upto \in Nat
  BY BoundsTyped DEF LogTyped, MadeTyped, CommandTyped
<1>3. ASSUME NEW p \in Procs
      PROVE  /\ proc[p].hand.id \in Int /\ proc[p].hand.t \in Nat
             /\ \A n \in DOMAIN queue[p] : queue[p][n].id \in Int /\ queue[p][n].t \in Nat
  <2>1. proc[p].hand \in RecordSet /\ queue[p] \in Seq(RecordSet)
    BY DEF LogTyped, Writers
  <2> QED BY <1>1, <2>1, QueueElements
<1>4. ASSUME NEW s \in Sources, NEW r \in Remaining(disk, left.clear, s) PROVE r.id \in Int
  <2>1. PICK f \in DOMAIN disk : r \in LinesIn(disk, f)
    BY StoredLines
  <2>2. disk[f] \in Seq(RecordSet)
    BY DEF LogTyped, IsDisk
  <2>3. r \in RecordSet
    BY <2>1, <2>2 DEF LinesIn
  <2> QED BY <1>1, <2>3
<1>5. Torn.id = 0 /\ ClearCommand.id = -1 /\ ClearCommand.t = made.clears
  BY DEF Torn, ClearCommand
<1> QED BY <1>2, <1>3, <1>4, <1>5

LEMMA StillKeeps ==
    ASSUME LogTyped, LogTyped', NEW p \in Procs, AtRest(p), Justified(p), Weaker, WillForget(p), Numbered(p)
    PROVE  Forgot(p)' /\ WillForget(p)' /\ Numbered(p)'
<1>0. /\ command.upto \in Nat /\ command'.upto \in Nat /\ command'.upto <= command.upto
      /\ \A n \in DOMAIN queue[p] : queue[p][n].id \in Int
      /\ proc[p].hand.id \in Int /\ \A r \in Remaining(disk, left.clear, SourceOf[p]) : r.id \in Int
  BY RecordNumbers DEF Weaker
<1>1. \A i \in Int : i > command.upto => i > command'.upto
  BY <1>0
<1>2. /\ \A n \in DOMAIN queue[p] : Recent(queue[p][n], command.upto) => Recent(queue[p][n], command'.upto)
      /\ Recent(proc[p].hand, command.upto) => Recent(proc[p].hand, command'.upto)
      /\ \A r \in Remaining(disk, left.clear, SourceOf[p]) : Newer(r, command.upto) => Newer(r, command'.upto)
  BY <1>0, <1>1 DEF Recent, Newer
<1>3. ClearCommand' = ClearCommand
  BY DEF Weaker, ClearCommand
<1>4. DOMAIN <<>> = {}
  OBVIOUS
<1>5. Forgot(p)'
  BY <1>2, <1>4 DEF Forgot, HasForgotten, AtRest, Justified
<1>6. WillForget(p)'
  BY <1>2, <1>3, <1>4, RecordNumbers DEF WillForget, AtRest
<1>7. Numbered(p)'
  BY <1>4, RecordNumbers DEF Numbered, AtRest, Weaker
<1> QED BY <1>5, <1>6, <1>7

LEMMA ToldSays ==
    ASSUME CommandTyped, NEW ok
    PROVE  /\ Told(ok).upto \in {command.upto, 0}
           /\ Told(ok).ok \subseteq IF ok THEN command.ok \cup {command.owner} ELSE command.ok
<1> DEFINE oks == IF ok THEN command.ok \union {command.owner} ELSE command.ok
           other == CHOOSE s \in Sources : s # App
           asks == [command EXCEPT !.ok = oks, !.at = "ask", !.owner = other]
           ends == [NoCommand EXCEPT !.ok = oks, !.upto = command.upto]
<1>1. Told(ok) = asks \/ Told(ok) = NoCommand \/ Told(ok) = ends
  BY DEF Told
<1>2. NoCommand.ok = {} /\ NoCommand.upto = 0 /\ ends.ok = oks /\ ends.upto = command.upto
  BY DEF NoCommand
<1>3. asks.ok = oks /\ asks.upto = command.upto
  BY DEF CommandTyped
<1> HIDE DEF asks, ends
<1> QED BY <1>1, <1>2, <1>3

LEMMA OwnerTold ==
    ASSUME CommandTyped
    PROVE  /\ Told(TRUE).upto \in {command.upto, 0} /\ Told(FALSE).upto \in {command.upto, 0}
           /\ Told(TRUE).ok \subseteq command.ok \cup {command.owner}
           /\ Told(FALSE).ok \subseteq command.ok
<1>1. \A ok \in BOOLEAN : /\ Told(ok).upto \in {command.upto, 0}
                          /\ Told(ok).ok \subseteq IF ok THEN command.ok \cup {command.owner} ELSE command.ok
  BY ToldSays
<1>2. Told(TRUE).upto \in {command.upto, 0} /\ Told(TRUE).ok \subseteq command.ok \cup {command.owner}
  BY <1>1
<1>3. Told(FALSE).upto \in {command.upto, 0} /\ Told(FALSE).ok \subseteq command.ok
  BY <1>1
<1> QED BY <1>2, <1>3

(* Nothing is added to the files while a section works on them.            *)
LEMMA SectionStores ==
    ASSUME LogTyped, NEW p \in Procs, Begins(p)
    PROVE  /\ \A s \in Sources : Remaining(disk', left'.clear, s) \subseteq Remaining(disk, left.clear, s)
           /\ Clear(p) => Remaining(disk', left'.clear, SourceOf[p]) = {}
           /\ \/ proc'[p].file \in {proc[p].file, NoFile}
              \/ proc'[p].file \in FileNames /\ proc'[p].file[1] = SourceOf[p]
<1> DEFINE s == SourceOf[p]
<1>0. IsDisk(disk)
  BY DEF LogTyped
<1>1. CASE Open(p)
  <2>1. PICK f \in FileNames : NewFile(p, f, meta, disk) /\ disk' = WithFile(disk, f) /\ proc'[p].file = f
    BY <1>1, OpenSection DEF OpenDoes
  <2>2. f \notin DOMAIN disk /\ f[1] = s
    BY <2>1 DEF NewFile
  <2>3. /\ DOMAIN disk' = DOMAIN disk \cup {f} /\ disk'[f] = <<>>
        /\ \A g \in DOMAIN disk : disk'[g] = disk[g]
    BY <1>0, <2>1, <2>2, AddedToDisk
  <2>4. \A g \in DOMAIN disk' : \A r \in LinesIn(disk', g) : g \in DOMAIN disk /\ r \in LinesIn(disk, g)
    BY <2>3 DEF LinesIn
  <2>5. left'.clear = left.clear
    BY <1>1 DEF Open, LogTyped
  <2> QED BY <1>1, <2>1, <2>2, <2>4, <2>5, StoredLines DEF Open, Clear
<1>h. ASSUME NEW V, NEW ttl, HousekeepDoes(p, V, ttl), proc[p].pc # "clear"
      PROVE  /\ \A t \in Sources : Remaining(disk', left'.clear, t) \subseteq Remaining(disk, left.clear, t)
             /\ Clear(p) => Remaining(disk', left'.clear, SourceOf[p]) = {}
             /\ \/ proc'[p].file = proc[p].file
                \/ proc'[p].file \in FileNames /\ proc'[p].file[1] = SourceOf[p]
  <2> DEFINE f == proc'[p].file
  <2>1. /\ f \in FileNames
        /\ \/ f = proc[p].file /\ DOMAIN disk' \subseteq DOMAIN disk
           \/ /\ NewFile(p, f, meta, disk) /\ DOMAIN disk' \subseteq DOMAIN disk \cup {f}
              /\ f \in DOMAIN disk' => disk'[f] = <<>>
        /\ \A g \in DOMAIN disk' \cap DOMAIN disk : LinesIn(disk', g) \subseteq LinesIn(disk, g)
    BY <1>h DEF HousekeepDoes, PassLeaves
  <2>2. \A g \in DOMAIN disk' : \A r \in LinesIn(disk', g) : g \in DOMAIN disk /\ r \in LinesIn(disk, g)
    BY <2>1 DEF LinesIn
  <2>3. f = proc[p].file \/ f[1] = s
    BY <2>1 DEF NewFile
  <2>4. left'.clear = left.clear
    BY <1>h DEF HousekeepDoes, LeavesBehind
  <2>5. \A t \in Sources : Remaining(disk', left'.clear, t) \subseteq Remaining(disk, left.clear, t)
    <3> SUFFICES ASSUME NEW t \in Sources, NEW r \in Remaining(disk', left'.clear, t)
                 PROVE  r \in Remaining(disk, left.clear, t)
      OBVIOUS
    <3>1. PICK g \in DOMAIN disk' : g[1] = t /\ g \notin left'.clear /\ r \in LinesIn(disk', g)
      BY StoredLines
    <3>2. g \in DOMAIN disk /\ r \in LinesIn(disk, g)
      BY <2>2, <3>1
    <3> QED BY <2>4, <3>1, <3>2, StoredLines
  <2>6. ~Clear(p)
    BY <1>h DEF Clear
  <2> QED BY <2>1, <2>3, <2>5, <2>6
<1>2. CASE Maintain(p)
  <2>1. PICK V : HousekeepDoes(p, V, TRUE)
    BY <1>2, MaintainSection
  <2> QED BY <1>2, <1>h, <2>1 DEF Maintain
<1>3. CASE Rotate(p)
  <2>1. PICK V : HousekeepDoes(p, V, FALSE)
    BY <1>3, RotateSection
  <2> QED BY <1>3, <1>h, <2>1 DEF Rotate
<1>4. CASE PersistCounters(p)
  <2>1. disk' = disk /\ left' = left /\ proc'[p] = proc[p] /\ proc[p].pc = "count"
    BY <1>4, CountSection DEF CountDoes, PersistCounters
  <2> QED BY <2>1 DEF Clear
<1>5. CASE Clear(p)
  <2>1. PICK stay \in SUBSET FilesOf(disk, s) :
          /\ Empties(p, Without(disk, FilesOf(disk, s) \ stay))
          /\ left' = [pass  |-> OfOthers(left.pass, s) \cup stay,
                      clear |-> OfOthers(left.clear, s) \cup stay]
    BY <1>5, ClearSection DEF ClearDoes
  <2> DEFINE d == Without(disk, FilesOf(disk, s) \ stay)
  <2>2. left'.clear = OfOthers(left.clear, s) \cup stay
    BY <2>1
  <2>3. /\ IsDisk(d) /\ DOMAIN d = DOMAIN disk \ (FilesOf(disk, s) \ stay)
        /\ \A g \in DOMAIN d : d[g] = disk[g]
    BY <1>0, DroppedFiles
  <2>e. Empties(p, d)
    BY <2>1
  <2> HIDE DEF d
  <2>4. ASSUME NEW f \in FileNames, NewFile(p, f, meta, d), disk' = WithFile(d, f)
        PROVE  /\ DOMAIN disk' = DOMAIN d \cup {f} /\ disk'[f] = <<>>
               /\ \A g \in DOMAIN d : disk'[g] = d[g]
               /\ f[1] = s
    <3>0. f \notin DOMAIN d /\ f[1] = s
      BY <2>4 DEF NewFile
    <3>1. /\ DOMAIN WithFile(d, f) = DOMAIN d \cup {f} /\ WithFile(d, f)[f] = <<>>
          /\ \A g \in DOMAIN d : WithFile(d, f)[g] = d[g]
      BY <2>3, <3>0, AddedFile
    <3> QED BY <2>4, <3>0, <3>1
  <2>5. ASSUME NEW g \in DOMAIN disk', NEW r \in LinesIn(disk', g)
        PROVE  g \in DOMAIN d /\ disk'[g] = d[g]
    <3>1. CASE disk' = d
      BY <2>5, <3>1
    <3>2. ASSUME NEW f \in FileNames, NewFile(p, f, meta, d), disk' = WithFile(d, f)
          PROVE  g \in DOMAIN d /\ disk'[g] = d[g]
      <4>0. disk'[f] = <<>>
        BY <2>4, <3>2
      <4>1. LinesIn(disk', f) = {}
        BY <4>0 DEF LinesIn
      <4>2. g # f
        BY <2>5, <4>1
      <4> QED BY <2>4, <2>5, <3>2, <4>2
    <3> QED BY <2>e, <3>1, <3>2 DEF Empties
  <2>6. \A g \in DOMAIN disk' : \A r \in LinesIn(disk', g) :
          g \in DOMAIN disk /\ r \in LinesIn(disk, g) /\ (g[1] # s \/ g \in stay)
    BY <2>3, <2>5 DEF LinesIn, FilesOf
  <2>7. \A t \in Sources : Remaining(disk', left'.clear, t) \subseteq Remaining(disk, left.clear, t)
    <3> SUFFICES ASSUME NEW t \in Sources, NEW r \in Remaining(disk', left'.clear, t)
                 PROVE  r \in Remaining(disk, left.clear, t)
      OBVIOUS
    <3>1. PICK g \in DOMAIN disk' : g[1] = t /\ g \notin left'.clear /\ r \in LinesIn(disk', g)
      BY StoredLines
    <3>2. g \in DOMAIN disk /\ r \in LinesIn(disk, g) /\ g[1] # s
      BY <2>2, <2>6, <3>1
    <3>3. g \notin left.clear
      BY <2>2, <3>1, <3>2 DEF OfOthers
    <3> QED BY <3>1, <3>2, <3>3, StoredLines
  <2>8. Remaining(disk', left'.clear, s) = {}
    BY <2>2, <2>6, StoredLines
  <2>9. \/ proc'[p].file \in {proc[p].file, NoFile}
        \/ proc'[p].file \in FileNames /\ proc'[p].file[1] = s
    BY <2>4, <2>e DEF Empties
  <2> QED BY <2>7, <2>8, <2>9
<1> QED BY <1>1, <1>2, <1>3, <1>4, <1>5 DEF Begins

LEMMA WrittenStores ==
    ASSUME LogTyped, FilesOwned, NEW p \in Procs, NEW r \in RecordSet, disk' = Grown(proc[p].file, r),
           left' = left, proc[p].file # NoFile
    PROVE  /\ \A s \in Sources \ {SourceOf[p]} : Remaining(disk', left'.clear, s) \subseteq Remaining(disk, left.clear, s)
           /\ \A x \in Remaining(disk', left'.clear, SourceOf[p]) : x \in Remaining(disk, left.clear, SourceOf[p]) \/ x = r
<1>1. proc[p].file[1] = SourceOf[p]
  BY DEF FilesOwned
<1>2. /\ DOMAIN disk' = DOMAIN disk
      /\ \A g \in DOMAIN disk : \A x \in LinesIn(disk', g) : x \in LinesIn(disk, g) \/ (g = proc[p].file /\ x = r)
  BY GrownDisk DEF LogTyped
<1>3. ASSUME NEW s \in Sources, NEW x \in Remaining(disk', left'.clear, s)
      PROVE  x \in Remaining(disk, left.clear, s) \/ (s = SourceOf[p] /\ x = r)
  <2>1. PICK g \in DOMAIN disk' : g[1] = s /\ x \in LinesIn(disk', g)
    BY StoredLines
  <2>2. x \in LinesIn(disk, g) \/ (g = proc[p].file /\ x = r)
    BY <1>2, <2>1
  <2> QED BY <1>1, <1>2, <2>1, <2>2, StoredLines
<1> QED BY <1>3

LEMMA OwnedKept ==
    ASSUME LogTyped, FilesOwned, [LogNext]_logVars PROVE FilesOwned'
<1>0. Off.file = NoFile /\ proc \in [Procs -> Writers]
  BY DEF Off, Idle, LogTyped
<1>w. ASSUME NEW p \in Procs, OnlyWriter(p), proc'[p].file \in {proc[p].file, NoFile} PROVE FilesOwned'
  BY <1>w DEF FilesOwned, OnlyWriter
<1>1. ASSUME NEW p \in Procs, Begins(p) PROVE FilesOwned'
  <2>1. OnlyWriter(p)
    BY <1>1, OpenSection, MaintainSection, RotateSection, CountSection, ClearSection
       DEF Begins, SectionBegins, OnlyWriter
  <2>2. \/ proc'[p].file \in {proc[p].file, NoFile}
        \/ proc'[p].file \in FileNames /\ proc'[p].file[1] = SourceOf[p]
    BY <1>1, SectionStores
  <2> QED BY <2>1, <2>2 DEF FilesOwned, OnlyWriter
<1>2. ASSUME NEW p \in Procs, Commit(p) \/ IdleTimeout(p) PROVE FilesOwned'
  BY <1>2, <1>w, CommitWriter, IdleTimeoutWriter DEF Same
<1>3. ASSUME NEW p \in Procs, CommitFails(p) PROVE FilesOwned'
  BY <1>0, <1>3, <1>w, CommitFailsWriter DEF Same
<1>4. ASSUME NEW p \in Procs, SectionFails(p) \/ Take(p) \/ Write(p) \/ WriteFails(p) PROVE FilesOwned'
  BY <1>4, <1>w, SectionFailsWriter, TakeWriter, WriteWriter
<1>5. ASSUME NEW p \in Procs, Crash(p) PROVE FilesOwned'
  BY <1>0, <1>5, <1>w, CrashWriter
<1>6. ASSUME proc' = proc PROVE FilesOwned'
  BY <1>6 DEF FilesOwned
<1>7. ASSUME NEW p \in Procs, Record(p) \/ RequestClear(p) \/ AskOwner(p) PROVE FilesOwned'
  BY <1>6, <1>7 DEF Record, RequestClear, AskOwner
<1>8. ASSUME OwnerFails \/ LoseMeta \/ Tick \/ ChangeClock \/ UNCHANGED logVars PROVE FilesOwned'
  BY <1>6, <1>8 DEF OwnerFails, LoseMeta, Tick, ChangeClock, logVars
<1> QED BY <1>1, <1>2, <1>3, <1>4, <1>5, <1>7, <1>8 DEF LogNext, WriterStep, Begins

LEMMA ConfirmedKept ==
    ASSUME LogTyped, Confirmed, [LogNext]_logVars PROVE Confirmed'
<1>0. /\ CommandTyped /\ NoCommand.ok = {} /\ Told(FALSE).ok \subseteq command.ok
      /\ Told(TRUE).ok \subseteq command.ok \cup {command.owner}
  BY OwnerTold DEF LogTyped, NoCommand
<1>1. ASSUME command' = command \/ command' = NoCommand \/ command' = Told(FALSE) PROVE Confirmed'
  BY <1>0, <1>1 DEF Confirmed
<1>2. ASSUME NEW p \in Procs, Begins(p) PROVE Confirmed'
  <2>1. command' = command
    BY <1>2, OpenSection, MaintainSection, RotateSection, CountSection, ClearSection
       DEF Begins, SectionBegins
  <2> QED BY <1>1, <2>1
<1>3. ASSUME NEW p \in Procs, Commit(p) PROVE Confirmed'
  <2>1. command' = command \/ (command' = Told(TRUE) /\ command.owner = SourceOf[p])
    BY <1>3 DEF Commit, Awaited
  <2>2. CASE command' = Told(TRUE) /\ command.owner = SourceOf[p]
    BY <1>0, <2>2 DEF Confirmed
  <2> QED BY <1>1, <2>1, <2>2
<1>4. ASSUME NEW p \in Procs, CommitFails(p) \/ SectionFails(p) \/ Take(p) \/ IdleTimeout(p) \/ Write(p)
                              \/ WriteFails(p) \/ Crash(p) \/ Record(p)
      PROVE  Confirmed'
  BY <1>1, <1>4 DEF CommitFails, SectionFails, Take, IdleTimeout, Write, WriteFails, Crash, Record
<1>5. ASSUME NEW p \in Procs, RequestClear(p) PROVE Confirmed'
  <2>1. command'.ok = {}
    BY <1>5 DEF RequestClear, NoCommand
  <2> QED BY <2>1 DEF Confirmed
<1>6. ASSUME NEW p \in Procs, AskOwner(p) PROVE Confirmed'
  <2>1. command'.ok = command.ok
    BY <1>0, <1>6 DEF AskOwner, CommandTyped
  <2> QED BY <2>1 DEF Confirmed
<1>7. ASSUME OwnerFails \/ LoseMeta \/ Tick \/ ChangeClock \/ UNCHANGED logVars PROVE Confirmed'
  BY <1>1, <1>7 DEF OwnerFails, LoseMeta, Tick, ChangeClock, logVars
<1> QED BY <1>2, <1>3, <1>4, <1>5, <1>6, <1>7 DEF LogNext, WriterStep, Begins

ForgetsAll == \A p \in Procs : Forgot(p) /\ WillForget(p) /\ Numbered(p)
LogForgets == LogBase /\ Forgetting

AllStill == (\A p \in Procs : AtRest(p)) /\ made'.records >= made.records

(* A step that only the process p can be worse off after. *)
Elsewhere(p) == \A q \in Procs \ {p} : AtRest(q) /\ Justified(q)

LEMMA SameElsewhere ==
    ASSUME LogTyped, Forgetting, NEW p \in Procs,
           \A q \in Procs \ {p} : proc'[q] = proc[q] /\ queue'[q] = queue[q],
           \A s \in Sources \ {SourceOf[p]} : Remaining(disk', left'.clear, s) \subseteq Remaining(disk, left.clear, s),
           lock' = lock \/ lock'.by \in {p, NoProc},
           command'.ok \subseteq command.ok \cup {SourceOf[p]}
    PROVE  Elsewhere(p)
<1> SUFFICES ASSUME NEW q \in Procs \ {p} PROVE AtRest(q) /\ Justified(q)
  BY DEF Elsewhere
<1>1. SourceOf[q] # SourceOf[p] /\ q # NoProc
  BY OneWriter
<1>2. AtRest(q)
  BY <1>1 DEF AtRest
<1>3. Justified(q)
  BY <1>1 DEF Justified, Forgetting, Forgot
<1> QED BY <1>2, <1>3

LEMMA BeginningForgets ==
    ASSUME LogForgets, LogTyped', NEW p \in Procs, Begins(p)
    PROVE  ForgetsAll' /\ command'.upto <= made'.records /\ AllStill
<1>0. /\ LogTyped /\ LogBase /\ Forgetting
      /\ made \in [records : 0..MaxRecords, clears : 0..MaxClears, gens : Nat, faults : Nat]
  BY DEF LogForgets, LogBase, LogTyped, MadeTyped
<1>1. PICK op : SectionSays(p, op)
  BY <1>0, SectionSaysSo
<1>2. /\ lock.by = NoProc /\ lock'.by = p /\ lock'.op = op /\ UNCHANGED <<queue, command>>
      /\ \A q \in Procs \ {p} : proc'[q] = proc[q]
  BY <1>1 DEF SectionSays, SectionBegins
<1>3. /\ \A s \in Sources : Remaining(disk', left'.clear, s) \subseteq Remaining(disk, left.clear, s)
      /\ op = "clear" => Remaining(disk', left'.clear, SourceOf[p]) = {}
  BY <1>0, <1>1, SectionStores DEF SectionSays
<1>4. Weaker /\ made'.records = made.records
  <2>1. \/ made' = made
        \/ \E n \in Nat : made' = [made EXCEPT !.faults = n]
        \/ \E n \in Nat : made' = [made EXCEPT !.gens = @ + 1, !.faults = n]
    BY <1>0, OpenSection, MaintainSection, RotateSection, CountSection, ClearSection
       DEF Begins, OpenDoes, HousekeepDoes, CountDoes, ClearDoes
  <2>2. made'.clears = made.clears /\ made'.records = made.records
    <3>1. CASE made' = made
      BY <3>1
    <3>2. ASSUME NEW n \in Nat, made' = [made EXCEPT !.faults = n]
          PROVE  made'.clears = made.clears /\ made'.records = made.records
      BY <1>0, <3>2
    <3>3. ASSUME NEW n \in Nat, made' = [made EXCEPT !.gens = @ + 1, !.faults = n]
          PROVE  made'.clears = made.clears /\ made'.records = made.records
      BY <1>0, <3>3
    <3> QED BY <2>1, <3>1, <3>2, <3>3
  <2>3. made.records \in Int
    BY <1>0
  <2> QED BY <1>2, <2>2, <2>3 DEF Weaker
<1>5. Elsewhere(p)
  BY <1>0, <1>2, <1>3, SameElsewhere
<1>6. AtRest(p) /\ Justified(p)
  BY <1>0, <1>1, <1>2, <1>3 DEF AtRest, Justified, SectionSays, Forgetting, Forgot
<1>7. ForgetsAll'
  BY <1>0, <1>4, <1>5, <1>6, StillKeeps DEF ForgetsAll, Forgetting, Elsewhere
<1>8. command'.upto <= made'.records
  BY <1>0, <1>2, <1>4 DEF Forgetting
<1>9. AllStill
  BY <1>4, <1>5, <1>6 DEF AllStill, Elsewhere, Weaker
<1> QED BY <1>7, <1>8, <1>9

LEMMA CommittingForgets ==
    ASSUME LogForgets, LogTyped', NEW p \in Procs, Commit(p)
    PROVE  ForgetsAll' /\ command'.upto <= made'.records /\ AllStill
<1>0. /\ LogTyped /\ Forgetting /\ SectionKnown /\ CommandTyped /\ lock.by = p /\ p # NoProc
      /\ made.records \in Nat /\ command.upto \in Nat
  BY RecordNumbers DEF LogForgets, LogBase, LogTyped, Commit
<1>1. /\ lock' = [by |-> NoProc] /\ UNCHANGED <<disk, left, queue, made>>
      /\ command' = IF lock.op = "clear" /\ Awaited(p) THEN Told(TRUE) ELSE command
  BY DEF Commit
<1>2. OnlyWriter(p) /\ Same(p) /\ proc'[p].pc = After(proc[p], lock.op, TRUE)
  BY <1>0, CommitWriter
<1>3. Weaker
  <2>1. command'.upto \in {command.upto, 0}
    BY <1>0, <1>1, OwnerTold
  <2>2. made'.clears = made.clears /\ made'.records = made.records
    BY <1>1
  <2>3. made'.records >= made.records
    BY <1>0, <2>2
  <2> QED BY <2>1, <2>2, <2>3 DEF Weaker
<1>4. command'.ok \subseteq command.ok \cup {SourceOf[p]}
  BY <1>0, <1>1, OwnerTold DEF Awaited
<1>5. Elsewhere(p)
  BY <1>0, <1>1, <1>2, <1>4, SameElsewhere DEF OnlyWriter
<1>6. AtRest(p)
  <2>1. proc'[p].pc \in {"due", "append"} => proc[p].pc \in {"due", "append"}
    BY <1>0, <1>2 DEF After, SectionKnown
  <2> QED BY <1>0, <1>1, <1>2, <2>1 DEF AtRest, Same, Carries
<1>7. Justified(p)
  <2>1. CASE lock.op = "clear" /\ Awaited(p)
    <3>1. proc[p].hand = ClearCommand /\ proc[p].hand.id = -1
      BY <2>1 DEF Awaited, ClearCommand
    <3>2. HasForgotten(p)
      BY <1>0, <2>1, <3>1 DEF HasForgotten, Forgetting, WillForget, Recent
    <3> QED BY <3>2 DEF Justified
  <2>2. CASE ~(lock.op = "clear" /\ Awaited(p))
    BY <1>0, <1>1, <2>2 DEF Justified, Forgetting, Forgot
  <2> QED BY <2>1, <2>2
<1>8. ForgetsAll'
  BY <1>0, <1>3, <1>5, <1>6, <1>7, StillKeeps DEF ForgetsAll, Forgetting, Elsewhere
<1>9. command'.upto <= made'.records
  <2>1. command.upto <= made.records /\ made' = made /\ command'.upto \in {command.upto, 0}
    BY <1>0, <1>1, <1>3 DEF Forgetting, Weaker
  <2> QED BY <1>0, <2>1
<1>10. AllStill
  BY <1>3, <1>5, <1>6 DEF AllStill, Elsewhere, Weaker
<1> QED BY <1>8, <1>9, <1>10

LEMMA QuietlyForgets ==
    ASSUME LogForgets, LogTyped',
           \/ \E p \in Procs : CommitFails(p) \/ SectionFails(p) \/ IdleTimeout(p) \/ Crash(p)
           \/ OwnerFails \/ LoseMeta \/ Tick \/ ChangeClock \/ UNCHANGED logVars
    PROVE  ForgetsAll' /\ command'.upto <= made'.records /\ AllStill
<1>0. /\ LogTyped /\ Forgetting /\ SectionKnown /\ CommandTyped
      /\ made.records \in Nat /\ command.upto \in Nat
      /\ made \in [records : 0..MaxRecords, clears : 0..MaxClears, gens : Nat, faults : Nat]
  BY RecordNumbers DEF LogForgets, LogBase, LogTyped, MadeTyped
<1>s. ASSUME \A q \in Procs : AtRest(q), Weaker, command'.ok \subseteq command.ok,
             made'.records = made.records
      PROVE  ForgetsAll' /\ command'.upto <= made'.records /\ AllStill
  <2>1. \A q \in Procs : Justified(q)
    BY <1>0, <1>s DEF Justified, Forgetting, Forgot
  <2>2. command'.upto <= made'.records
    BY <1>0, <1>s DEF Forgetting, Weaker
  <2>3. AllStill
    BY <1>s DEF AllStill, Weaker
  <2> QED BY <1>0, <1>s, <2>1, <2>2, <2>3, StillKeeps DEF ForgetsAll, Forgetting
<1>f. made' = made \/ Faulted =>
        made'.clears = made.clears /\ made'.records = made.records /\ made'.records >= made.records
  BY <1>0 DEF Faulted
<1>c. command' = command \/ command' = NoCommand \/ command' = Told(FALSE) =>
        command'.ok \subseteq command.ok /\ command'.upto \in {command.upto, 0}
  <2>1. NoCommand.ok = {} /\ NoCommand.upto = 0
    BY DEF NoCommand
  <2>2. Told(FALSE).upto \in {command.upto, 0} /\ Told(FALSE).ok \subseteq command.ok
    BY <1>0, OwnerTold
  <2> QED BY <2>1, <2>2
<1>1. ASSUME NEW p \in Procs, CommitFails(p) PROVE ForgetsAll' /\ command'.upto <= made'.records /\ AllStill
  <2>1. /\ lock' = [by |-> NoProc] /\ (made' = made \/ Faulted) /\ UNCHANGED <<disk, left, queue>> /\ p # NoProc
        /\ command' = command \/ command' = Told(FALSE)
    BY <1>1, SourceTyped DEF CommitFails
  <2>2. OnlyWriter(p)
    BY <1>0, <1>1, CommitFailsWriter
  <2>3. /\ proc'[p].hand = proc[p].hand \/ proc'[p].hand = Torn
        /\ proc'[p].pc \in {"due", "append"} => proc[p].pc \in {"due", "append"} /\ proc'[p].hand = proc[p].hand
    <3>1. CASE lock.op = "open"
      BY <1>0, <1>1, <3>1, CommitFailsWriter DEF Off, Idle
    <3>2. CASE lock.op # "open"
      <4>1. Same(p) /\ proc'[p].pc = After(proc[p], lock.op, FALSE)
        BY <1>0, <1>1, <3>2, CommitFailsWriter
      <4> QED BY <4>1 DEF Same, Carries, After
    <3> QED BY <3>1, <3>2
  <2>4. \A q \in Procs : AtRest(q)
    BY <2>1, <2>2, <2>3, SourceTyped DEF AtRest, OnlyWriter
  <2> QED BY <1>c, <1>f, <1>s, <2>1, <2>4 DEF Weaker
<1>2. ASSUME NEW p \in Procs, SectionFails(p) PROVE ForgetsAll' /\ command'.upto <= made'.records /\ AllStill
  <2>1. /\ Faulted /\ UNCHANGED <<disk, left, queue, lock>>
        /\ command' = command \/ command' = Told(FALSE)
    BY <1>2 DEF SectionFails
  <2>2. /\ OnlyWriter(p) /\ proc'[p].hand = proc[p].hand
        /\ proc'[p].pc \in {"due", "append"} => proc[p].pc \in {"due", "append"}
    BY <1>0, <1>2, SectionFailsWriter
  <2>4. \A q \in Procs : AtRest(q)
    BY <2>1, <2>2 DEF AtRest, OnlyWriter
  <2> QED BY <1>c, <1>f, <1>s, <2>1, <2>4 DEF Weaker
<1>3. ASSUME NEW p \in Procs, IdleTimeout(p) PROVE ForgetsAll' /\ command'.upto <= made'.records /\ AllStill
  <2>1. UNCHANGED <<disk, left, queue, lock, command, made>>
    BY <1>3 DEF IdleTimeout
  <2>2. OnlyWriter(p) /\ Same(p) /\ proc'[p].pc = "rollover"
    BY <1>0, <1>3, IdleTimeoutWriter
  <2>4. \A q \in Procs : AtRest(q)
    BY <2>1, <2>2 DEF AtRest, OnlyWriter, Same, Carries
  <2> QED BY <1>c, <1>f, <1>s, <2>1, <2>4 DEF Weaker
<1>4. ASSUME NEW p \in Procs, Crash(p) PROVE ForgetsAll' /\ command'.upto <= made'.records /\ AllStill
  <2>1. /\ Faulted /\ disk' = disk /\ left' = left /\ (lock' = lock \/ lock' = [by |-> NoProc])
        /\ command' = command \/ command' = NoCommand
        /\ queue' = [queue EXCEPT ![p] = <<>>]
    BY <1>4 DEF Crash
  <2>2. OnlyWriter(p) /\ proc'[p].pc = "down" /\ proc'[p].hand = Torn
    BY <1>0, <1>4, CrashWriter DEF Off, Idle
  <2>3. \A q \in Procs : queue'[q] = queue[q] \/ queue'[q] = <<>>
    BY <1>0, <2>1 DEF LogTyped
  <2>4. \A q \in Procs : AtRest(q)
    BY <2>1, <2>2, <2>3, SourceTyped DEF AtRest, OnlyWriter
  <2> QED BY <1>c, <1>f, <1>s, <2>1, <2>4 DEF Weaker
<1>5. ASSUME OwnerFails \/ LoseMeta \/ Tick \/ ChangeClock \/ UNCHANGED logVars
      PROVE  ForgetsAll' /\ command'.upto <= made'.records /\ AllStill
  <2>1. /\ UNCHANGED <<disk, left, queue, lock, proc>>
        /\ command' = command \/ command' = Told(FALSE)
        /\ made' = made \/ Faulted
    BY <1>5 DEF OwnerFails, LoseMeta, Tick, ChangeClock, logVars
  <2>4. \A q \in Procs : AtRest(q)
    BY <2>1 DEF AtRest
  <2> QED BY <1>c, <1>f, <1>s, <2>1, <2>4 DEF Weaker
<1> QED BY <1>1, <1>2, <1>3, <1>4, <1>5

LEMMA TakingForgets ==
    ASSUME LogForgets, LogTyped', NEW p \in Procs, Take(p)
    PROVE  ForgetsAll' /\ command'.upto <= made'.records
<1> DEFINE q == queue[p]
<1>0. /\ LogTyped /\ Forgetting /\ made.records \in Nat /\ command.upto \in Nat
      /\ q \in Seq(RecordSet) /\ q # <<>> /\ queue \in [Procs -> Seq(RecordSet)]
  BY RecordNumbers DEF LogForgets, LogBase, LogTyped, Take
<1>1. /\ UNCHANGED <<disk, left, lock, command, made>> /\ queue' = [queue EXCEPT ![p] = Tail(@)]
      /\ lock.by # p
  BY DEF Take
<1>2. /\ OnlyWriter(p) /\ proc'[p].hand = Head(q)
      /\ proc'[p].pc = IF Head(q).id = -1 THEN "clear" ELSE IF Due(p) THEN "due" ELSE "append"
  BY <1>0, TakeWriter
<1>3. Weaker /\ ClearCommand' = ClearCommand
  BY <1>0, <1>1 DEF Weaker, ClearCommand
<1>4. queue'[p] = Tail(q) /\ \A x \in Procs \ {p} : queue'[x] = queue[x]
  BY <1>0, <1>1
<1>5. Elsewhere(p)
  BY <1>0, <1>1, <1>2, <1>4, SameElsewhere DEF OnlyWriter
<1>6. /\ 1 \in DOMAIN q /\ Head(q) = q[1]
      /\ \A n \in DOMAIN Tail(q) : n \in Nat \ {0} /\ n + 1 \in DOMAIN q /\ Tail(q)[n] = q[n + 1] /\ n + 1 > 1
  BY <1>0, QueueElements
<1> HIDE DEF q
<1>7. Forgot(p)'
  <2> SUFFICES ASSUME SourceOf[p] \in command'.ok PROVE HasForgotten(p)'
    BY DEF Forgot
  <2>1. HasForgotten(p)
    BY <1>0, <1>1 DEF Forgetting, Forgot
  <2>2. \A r \in Remaining(disk', left'.clear, SourceOf[p]) : Newer(r, command'.upto)
    BY <1>1, <2>1 DEF HasForgotten
  <2>3. \A n \in DOMAIN q : Recent(q[n], command'.upto)
    BY <1>1, <2>1 DEF HasForgotten, q
  <2> QED BY <1>2, <1>4, <1>6, <2>2, <2>3 DEF HasForgotten
<1>8. WillForget(p)'
  <2>0. WillForget(p)
    BY <1>0 DEF Forgetting
  <2>1. \A n, k \in DOMAIN q : q[n] = ClearCommand /\ k > n => Recent(q[k], command'.upto)
    BY <1>1, <2>0 DEF WillForget, q
  <2>2. \A n \in DOMAIN Tail(q) : Tail(q)[n] = ClearCommand =>
          \A k \in DOMAIN Tail(q) : k > n => Recent(Tail(q)[k], command'.upto)
    <3> SUFFICES ASSUME NEW n \in DOMAIN Tail(q), Tail(q)[n] = ClearCommand,
                        NEW k \in DOMAIN Tail(q), k > n
                 PROVE  Recent(Tail(q)[k], command'.upto)
      OBVIOUS
    <3>1. n + 1 \in DOMAIN q /\ k + 1 \in DOMAIN q /\ Tail(q)[n] = q[n + 1] /\ Tail(q)[k] = q[k + 1]
          /\ n \in Nat /\ k \in Nat
      BY <1>6
    <3>2. k + 1 > n + 1
      BY <3>1
    <3> QED BY <2>1, <3>1, <3>2
  <2>3. Head(q) = ClearCommand => \A k \in DOMAIN Tail(q) : Recent(Tail(q)[k], command'.upto)
    BY <1>6, <2>1
  <2> QED BY <1>1, <1>2, <1>3, <1>4, <2>2, <2>3 DEF WillForget
<1>9. Numbered(p)'
  BY <1>0, <1>1, <1>2, <1>4, <1>6 DEF Numbered, Forgetting, q
<1>10. ForgetsAll'
  BY <1>0, <1>3, <1>5, <1>7, <1>8, <1>9, StillKeeps DEF ForgetsAll, Forgetting, Elsewhere
<1> QED BY <1>0, <1>1, <1>10 DEF Forgetting

LEMMA WritingForgets ==
    ASSUME LogForgets, LogTyped', NEW p \in Procs, Write(p) \/ WriteFails(p)
    PROVE  ForgetsAll' /\ command'.upto <= made'.records
<1>0. /\ LogTyped /\ Forgetting /\ HandsRecord /\ made.records \in Nat /\ command.upto \in Nat
      /\ made \in [records : 0..MaxRecords, clears : 0..MaxClears, gens : Nat, faults : Nat]
      /\ proc[p].hand \in RecordSet
  BY RecordNumbers DEF LogForgets, LogBase, LogTyped, MadeTyped, Writers
<1>1. /\ UNCHANGED <<lock, command, queue, left>> /\ lock.by # p /\ (made' = made \/ Faulted)
      /\ proc[p].pc = "append" /\ proc[p].file # NoFile
  BY DEF Write, WriteFails
<1>2. OnlyWriter(p) /\ proc'[p].hand = Torn /\ proc'[p].pc \in {"count", "idle"}
  BY <1>0, WriteWriter
<1>3. made'.clears = made.clears /\ made'.records = made.records
  BY <1>0, <1>1 DEF Faulted
<1>4. Weaker /\ ClearCommand' = ClearCommand
  BY <1>0, <1>1, <1>3 DEF Weaker, ClearCommand
<1>14. PICK r : LineFrom(p, r)
  BY <1>0, WritesALine
<1>5. r \in RecordSet /\ disk' = Grown(proc[p].file, r) /\ (Half(r) \/ r = proc[p].hand)
  BY <1>14 DEF LineFrom
<1>6. /\ \A s \in Sources \ {SourceOf[p]} : Remaining(disk', left'.clear, s) \subseteq Remaining(disk, left.clear, s)
      /\ \A x \in Remaining(disk', left'.clear, SourceOf[p]) : x \in Remaining(disk, left.clear, SourceOf[p]) \/ x = r
  BY <1>0, <1>1, <1>5, WrittenStores DEF Forgetting
<1>7. Elsewhere(p)
  BY <1>0, <1>1, <1>2, <1>6, SameElsewhere DEF OnlyWriter
<1>8. Forgot(p)'
  <2> SUFFICES ASSUME SourceOf[p] \in command'.ok PROVE HasForgotten(p)'
    BY DEF Forgot
  <2>1. HasForgotten(p)
    BY <1>0, <1>1 DEF Forgetting, Forgot
  <2>2. Newer(r, command.upto)
    BY <1>0, <1>1, <1>5, <2>1 DEF HasForgotten, HandsRecord, Recent, Newer
  <2> QED BY <1>1, <1>2, <1>6, <2>1, <2>2 DEF HasForgotten
<1>9. WillForget(p)'
  BY <1>0, <1>1, <1>2, <1>4, RecordNumbers DEF WillForget, Forgetting
<1>10. Numbered(p)'
  BY <1>0, <1>1, <1>2, <1>3, RecordNumbers DEF Numbered, Forgetting
<1>11. ForgetsAll'
  BY <1>0, <1>4, <1>7, <1>8, <1>9, <1>10, StillKeeps DEF ForgetsAll, Forgetting, Elsewhere
<1> QED BY <1>0, <1>1, <1>3, <1>11 DEF Forgetting

(* What joins a queue is recent, and is the newest thing in it.            *)
LEMMA JoiningForgets ==
    ASSUME LogForgets, LogTyped', NEW p \in Procs, NEW r \in RecordSet,
           queue' = queue \/ Enqueues(p, r), Recent(r, command.upto),
           r.id = -1 => r.t <= made.clears,
           UNCHANGED <<disk, left, lock, proc>>, command'.ok = command.ok, command'.upto = command.upto,
           made'.clears = made.clears, made'.records >= made.records
    PROVE  ForgetsAll' /\ command'.upto <= made'.records
<1>0. /\ LogTyped /\ Forgetting /\ made.records \in Nat /\ made'.records \in Nat /\ command.upto \in Nat
      /\ queue \in [Procs -> Seq(RecordSet)] /\ queue[p] \in Seq(RecordSet)
  BY RecordNumbers DEF LogForgets, LogBase, LogTyped, MadeTyped
<1>1. Weaker /\ ClearCommand' = ClearCommand
  BY DEF Weaker, ClearCommand
<1>2. \A x \in Procs \ {p} : queue'[x] = queue[x]
  BY <1>0 DEF Enqueues
<1>3. Elsewhere(p)
  BY <1>0, <1>2, SameElsewhere
<1>4. \A n \in DOMAIN queue'[p] :
        \/ n \in DOMAIN queue[p] /\ queue'[p][n] = queue[p][n]
        \/ queue'[p][n] = r /\ \A k \in DOMAIN queue[p] : k < n
  <2>1. CASE queue' = queue
    BY <2>1
  <2>2. CASE Enqueues(p, r)
    <3>1. queue'[p] = Append(queue[p], r)
      BY <1>0, <2>2 DEF Enqueues
    <3> QED BY <1>0, <3>1, QueueElements
  <2> QED BY <2>1, <2>2
<1>5. Forgot(p)'
  BY <1>0, <1>4 DEF Forgot, HasForgotten, Forgetting
<1>6. WillForget(p)'
  <2>0. WillForget(p)
    BY <1>0 DEF Forgetting
  <2>1. \A n \in DOMAIN queue'[p] : queue'[p][n] = ClearCommand =>
          \A k \in DOMAIN queue'[p] : k > n => Recent(queue'[p][k], command.upto)
    <3> SUFFICES ASSUME NEW n \in DOMAIN queue'[p], queue'[p][n] = ClearCommand,
                        NEW k \in DOMAIN queue'[p], k > n
                 PROVE  Recent(queue'[p][k], command.upto)
      OBVIOUS
    <3>1. CASE queue'[p][k] = r
      BY <3>1
    <3>2. CASE k \in DOMAIN queue[p] /\ queue'[p][k] = queue[p][k] /\ n \in DOMAIN queue[p]
      <4>1. queue'[p][n] = queue[p][n] \/ n > k
        BY <1>4, <3>2
      <4>2. n \in Nat /\ k \in Nat
        BY <1>0, <3>2, QueueElements
      <4>3. ~(n > k)
        BY <4>2
      <4> QED BY <2>0, <3>2, <4>1, <4>3 DEF WillForget
    <3>3. CASE k \in DOMAIN queue[p] /\ queue'[p][k] = queue[p][k] /\ n \notin DOMAIN queue[p]
      <4>1. k < n /\ k \in Nat
        BY <1>0, <1>4, <3>3, QueueElements
      <4>2. queue'[p] \in Seq(RecordSet)
        BY DEF LogTyped
      <4>3. n \in Nat
        BY <4>2, QueueElements
      <4> QED BY <4>1, <4>3
    <3> QED BY <1>4, <3>1, <3>2, <3>3
  <2> QED BY <1>1, <1>4, <2>0, <2>1 DEF WillForget
<1>7. Numbered(p)'
  BY <1>0, <1>4 DEF Numbered, Forgetting
<1>8. ForgetsAll'
  BY <1>0, <1>1, <1>3, <1>5, <1>6, <1>7, StillKeeps DEF ForgetsAll, Forgetting, Elsewhere
<1>9. command'.upto <= made'.records
  BY <1>0 DEF Forgetting
<1> QED BY <1>8, <1>9

LEMMA AskingForgets ==
    ASSUME LogForgets, LogTyped', NEW p \in Procs, Record(p) \/ AskOwner(p) \/ RequestClear(p)
    PROVE  ForgetsAll' /\ command'.upto <= made'.records
<1>0. /\ LogTyped /\ Forgetting /\ MadeTyped /\ made.records \in Nat /\ command.upto \in Nat /\ made.clears \in Nat
      /\ made \in [records : 0..MaxRecords, clears : 0..MaxClears, gens : Nat, faults : Nat]
      /\ command.upto <= made.records
      /\ command \in [at : {"none", "ask", "wait"}, owner : Sources, ok : SUBSET Sources, upto : Nat]
  BY RecordNumbers DEF LogForgets, LogBase, LogTyped, MadeTyped, Forgetting, CommandTyped
<1>1. CASE Record(p)
  <2>1. /\ made.records < MaxRecords /\ made' = [made EXCEPT !.records = @ + 1]
        /\ queue' = queue \/ \E big \in BOOLEAN : Enqueues(p, NewRecord(big))
        /\ UNCHANGED <<clock, disk, left, meta, lock, proc, epochs, command, pruned, missed>>
    BY <1>1 DEF Record, Enqueues, NewRecord
  <2>2. PICK big \in BOOLEAN : queue' = queue \/ Enqueues(p, NewRecord(big))
    BY <2>1
  <2> DEFINE r == NewRecord(big)
  <2>3. r \in RecordSet
    BY <1>0, <2>1, NewRecordTyped
  <2>4. r.id = made.records + 1
    BY DEF NewRecord
  <2>5. Recent(r, command.upto) /\ r.id # -1
    BY <1>0, <2>4 DEF Recent
  <2>6. made'.clears = made.clears /\ made'.records >= made.records
    BY <1>0, <2>1
  <2> HIDE DEF r
  <2>7. queue' = queue \/ Enqueues(p, r)
    BY <2>2 DEF r
  <2>8. command'.ok = command.ok /\ command'.upto = command.upto /\ UNCHANGED <<disk, left, lock, proc>>
    BY <2>1
  <2> QED BY <2>3, <2>5, <2>6, <2>7, <2>8, JoiningForgets
<1>2. CASE AskOwner(p)
  <2> DEFINE r == ClearCommand
  <2>1. /\ Enqueues(p, r) /\ command' = [command EXCEPT !.at = "wait"]
        /\ UNCHANGED <<disk, left, lock, proc, made>>
    BY <1>2 DEF AskOwner, Enqueues
  <2>2. r \in RecordSet /\ r.id = -1 /\ r.t = made.clears
    BY <1>0, ClearCommandTyped DEF ClearCommand
  <2>3. Recent(r, command.upto) /\ r.t <= made.clears
    BY <1>0, <2>2 DEF Recent
  <2>4. made'.clears = made.clears /\ made'.records >= made.records
    BY <1>0, <2>1
  <2>5. command'.ok = command.ok /\ command'.upto = command.upto
    BY <1>0, <2>1
  <2> HIDE DEF r
  <2> QED BY <2>1, <2>2, <2>3, <2>4, <2>5, JoiningForgets
<1>3. CASE RequestClear(p)
  <2>1. /\ made' = [made EXCEPT !.clears = @ + 1]
        /\ command' = [NoCommand EXCEPT !.at = "ask", !.upto = made.records]
        /\ UNCHANGED <<disk, left, lock, proc, queue>>
    BY <1>3 DEF RequestClear
  <2>2. command'.ok = {} /\ command'.upto = made.records
    BY <2>1 DEF NoCommand
  <2>3. made'.clears = made.clears + 1 /\ made'.records = made.records
    BY <1>0, <2>1
  <2>4. ClearCommand'.id = -1 /\ ClearCommand'.t = made.clears + 1
    BY <2>3 DEF ClearCommand
  <2>5. ASSUME NEW q \in Procs PROVE Forgot(q)' /\ WillForget(q)' /\ Numbered(q)'
    <3>0. /\ Numbered(q) /\ proc[q].hand.id \in Int /\ proc[q].hand.t \in Nat
          /\ \A n \in DOMAIN queue[q] : queue[q][n].id \in Int /\ queue[q][n].t \in Nat
      BY <1>0, RecordNumbers DEF Forgetting
    <3>1. Forgot(q)'
      BY <2>2 DEF Forgot
    <3>2. proc[q].hand # ClearCommand' /\ \A n \in DOMAIN queue[q] : queue[q][n] # ClearCommand'
      <4>1. \A t \in Nat : t <= made.clears => t # made.clears + 1
        BY <1>0
      <4> QED BY <2>4, <3>0, <4>1 DEF Numbered
    <3>3. WillForget(q)'
      BY <2>1, <3>2 DEF WillForget
    <3>4. Numbered(q)'
      <4>1. \A t \in Nat : t <= made.clears => t <= made'.clears
        BY <1>0, <2>3
      <4> QED BY <2>1, <3>0, <4>1 DEF Numbered
    <3> QED BY <3>1, <3>3, <3>4
  <2>6. command'.upto <= made'.records
    BY <1>0, <2>2, <2>3
  <2> QED BY <2>5, <2>6 DEF ForgetsAll
<1> QED BY <1>1, <1>2, <1>3

(* An owner that has confirmed holds nothing older than the command.       *)
THEOREM ForgettingInductive == LogSpec => []LogForgets
<1>1. LogInit => Forgetting
  <2> SUFFICES ASSUME LogInit PROVE Forgetting
    OBVIOUS
  <2>1. DOMAIN <<>> = {} /\ Off.file = NoFile /\ Off.hand = Torn /\ Torn.id = 0
    BY DEF Off, Idle, Torn
  <2>2. command.ok = {} /\ command.upto = 0 /\ made.records = 0 /\ made.clears = 0
    BY DEF LogInit, NoCommand
  <2>3. \A p \in Procs : proc[p] = Off /\ queue[p] = <<>>
    BY DEF LogInit
  <2>4. ClearCommand # Torn
    BY DEF ClearCommand, Torn
  <2> QED BY <2>1, <2>2, <2>3, <2>4 DEF Forgetting, FilesOwned, Confirmed, Forgot, WillForget, Numbered
<1>2. LogForgets /\ LogBase' /\ [LogNext]_logVars => Forgetting'
  <2> SUFFICES ASSUME LogForgets, LogBase', [LogNext]_logVars PROVE Forgetting'
    OBVIOUS
  <2>1. LogTyped' /\ LogTyped /\ FilesOwned /\ Confirmed
    BY DEF LogForgets, LogBase, Forgetting
  <2>2. FilesOwned' /\ Confirmed'
    BY <2>1, OwnedKept, ConfirmedKept
  <2>3. ForgetsAll' /\ command'.upto <= made'.records
    BY <2>1, BeginningForgets, CommittingForgets, QuietlyForgets, TakingForgets, WritingForgets, AskingForgets
       DEF LogNext, WriterStep, Begins
  <2> QED BY <2>2, <2>3 DEF ForgetsAll, Forgetting
<1> QED BY <1>1, <1>2, LogBaseInductive, PTL DEF LogSpec, LogForgets

(* An owner that confirmed the clear command has no older record on disk,  *)
(* and will have none, but in the files that the clear could not delete    *)
(* (console_log_clear, ConsoleLogWriter::clear).                           *)
THEOREM ConfirmedClearForgets == LogSpec => []ClearForgets
<1>1. LogForgets => ClearForgets
  <2> SUFFICES ASSUME LogForgets, NEW s \in command.ok, NEW f \in FilesOf(disk, s) \ left.clear,
                      NEW r \in Lines(f), ~Half(r)
               PROVE  r.id > command.upto
    BY DEF ClearForgets
  <2>1. PICK p \in Procs : SourceOf[p] = s
    BY DEF LogForgets, Forgetting, Confirmed
  <2>2. Forgot(p)
    BY DEF LogForgets, Forgetting
  <2>3. r \in Remaining(disk, left.clear, s)
    BY StoredLines DEF Lines, LinesIn, FilesOf
  <2> QED BY <2>1, <2>2, <2>3 DEF Forgot, HasForgotten, Newer
<1> QED BY <1>1, ForgettingInductive, PTL

----------------------------------------------------------------------------
(* Records and files in order. *)

(* What a step does to the files but append: a file may lose lines or go,  *)
(* and a new one is empty.                                                 *)
Fewer(g) == g \in DOMAIN disk /\ LinesIn(disk', g) \subseteq LinesIn(disk, g)
Shrunk == \A g \in DOMAIN disk' : Fewer(g)
Extended(f) == \A g \in DOMAIN disk' : Fewer(g) \/ (g = f /\ LinesIn(disk', g) = {})

(* A section that goes on with the file it has, or with none, and one that *)
(* makes a new file.                                                       *)
StaysWith(p) ==
    /\ Shrunk /\ proc'[p].file \in {proc[p].file, NoFile}
    /\ Noting(p).next = meta.src[SourceOf[p]].next
MovesTo(p, f) ==
    /\ Extended(f) /\ f \in FileNames /\ f[1] = SourceOf[p] /\ proc'[p].file = f
    /\ Noting(p).next = f[3] + 1
    /\ (\A g \in FilesOf(disk, SourceOf[p]) : g[3] < meta.src[SourceOf[p]].next)
         => f[3] = meta.src[SourceOf[p]].next

LEMMA SectionFiles ==
    ASSUME LogTyped, NEW p \in Procs, Begins(p)
    PROVE  StaysWith(p) \/ \E f : MovesTo(p, f)
<1> DEFINE s == SourceOf[p]
<1>0. IsDisk(disk)
  BY DEF LogTyped
<1>n. ASSUME NEW f \in FileNames, NEW d, NewFile(p, f, meta, d), FilesOf(d, s) \subseteq FilesOf(disk, s),
             Noting(p).next = f[3] + 1, proc'[p].file = f, Extended(f)
      PROVE  MovesTo(p, f)
  BY <1>n DEF MovesTo, NewFile
<1>1. CASE Open(p)
  <2>1. PICK f \in FileNames : /\ NewFile(p, f, meta, disk) /\ disk' = WithFile(disk, f)
                               /\ proc'[p].file = f /\ Noting(p).next = f[3] + 1
    BY <1>1, OpenSection DEF OpenDoes
  <2>2. f \notin DOMAIN disk
    BY <2>1 DEF NewFile
  <2>3. /\ DOMAIN disk' = DOMAIN disk \cup {f} /\ disk'[f] = <<>>
        /\ \A g \in DOMAIN disk : disk'[g] = disk[g]
    BY <1>0, <2>1, <2>2, AddedToDisk
  <2>4. Extended(f)
    BY <2>3 DEF LinesIn, Extended, Fewer
  <2> QED BY <1>n, <2>1, <2>4
<1>h. ASSUME NEW V, NEW ttl, HousekeepDoes(p, V, ttl)
      PROVE  StaysWith(p) \/ \E f : MovesTo(p, f)
  <2> DEFINE f == proc'[p].file
  <2>1. /\ f \in FileNames
        /\ \/ /\ f = proc[p].file /\ f # NoFile /\ DOMAIN disk' \subseteq DOMAIN disk
              /\ Noting(p).next = meta.src[s].next
           \/ /\ NewFile(p, f, meta, disk) /\ DOMAIN disk' \subseteq DOMAIN disk \cup {f}
              /\ f \in DOMAIN disk' => disk'[f] = <<>>
              /\ Noting(p).next = f[3] + 1
        /\ \A g \in DOMAIN disk' \cap DOMAIN disk : LinesIn(disk', g) \subseteq LinesIn(disk, g)
    BY <1>h DEF HousekeepDoes, PassLeaves
  <2>2. CASE f = proc[p].file /\ DOMAIN disk' \subseteq DOMAIN disk /\ Noting(p).next = meta.src[s].next
    <3>1. Shrunk
      BY <2>1, <2>2 DEF Shrunk, Fewer
    <3> QED BY <2>2, <3>1 DEF StaysWith
  <2>3. CASE /\ NewFile(p, f, meta, disk) /\ DOMAIN disk' \subseteq DOMAIN disk \cup {f}
             /\ f \in DOMAIN disk' => disk'[f] = <<>>
             /\ Noting(p).next = f[3] + 1
    <3>1. Extended(f)
      BY <2>1, <2>3 DEF LinesIn, Extended, Fewer
    <3> QED BY <1>n, <2>1, <2>3, <3>1
  <2> QED BY <2>1, <2>2, <2>3
<1>2. CASE Maintain(p)
  <2>1. PICK V : HousekeepDoes(p, V, TRUE)
    BY <1>2, MaintainSection
  <2> QED BY <1>h, <2>1
<1>3. CASE Rotate(p)
  <2>1. PICK V : HousekeepDoes(p, V, FALSE)
    BY <1>3, RotateSection
  <2> QED BY <1>h, <2>1
<1>4. CASE PersistCounters(p)
  <2>1. disk' = disk /\ proc'[p] = proc[p] /\ Noting(p).next = meta.src[s].next
    BY <1>4, CountSection DEF CountDoes
  <2> QED BY <2>1 DEF StaysWith, Shrunk, Fewer
<1>5. CASE Clear(p)
  <2>1. PICK stay \in SUBSET FilesOf(disk, s) : Empties(p, Without(disk, FilesOf(disk, s) \ stay))
    BY <1>5, ClearSection DEF ClearDoes
  <2> DEFINE d == Without(disk, FilesOf(disk, s) \ stay)
  <2>3. /\ IsDisk(d) /\ DOMAIN d = DOMAIN disk \ (FilesOf(disk, s) \ stay)
        /\ \A g \in DOMAIN d : d[g] = disk[g]
    BY <1>0, DroppedFiles
  <2>e. Empties(p, d)
    BY <2>1
  <2> HIDE DEF d
  <2>4. CASE disk' = d /\ proc'[p].file = NoFile /\ Noting(p).next = meta.src[s].next
    <3>1. Shrunk
      BY <2>3, <2>4 DEF LinesIn, Shrunk, Fewer
    <3> QED BY <2>4, <3>1 DEF StaysWith
  <2>5. ASSUME NEW f \in FileNames, NewFile(p, f, meta, d), disk' = WithFile(d, f), proc'[p].file = f,
               Noting(p).next = f[3] + 1
        PROVE  MovesTo(p, f)
    <3>0. f \notin DOMAIN d
      BY <2>5 DEF NewFile
    <3>1. /\ DOMAIN WithFile(d, f) = DOMAIN d \cup {f} /\ WithFile(d, f)[f] = <<>>
          /\ \A g \in DOMAIN d : WithFile(d, f)[g] = d[g]
      BY <2>3, <3>0, AddedFile
    <3>2. Extended(f)
      BY <2>3, <2>5, <3>1 DEF LinesIn, Extended, Fewer
    <3>3. FilesOf(d, s) \subseteq FilesOf(disk, s)
      BY <2>3 DEF FilesOf
    <3> QED BY <1>n, <2>5, <3>2, <3>3
  <2> QED BY <2>e, <2>4, <2>5 DEF Empties
<1> QED BY <1>1, <1>2, <1>3, <1>4, <1>5 DEF Begins

Recorded(s) == Remaining(disk, {}, s)

LEMMA RecordedLines ==
    ASSUME NEW s, NEW r
    PROVE  /\ r \in Recorded(s) <=> \E f \in DOMAIN disk : f[1] = s /\ r \in LinesIn(disk, f)
           /\ r \in Recorded(s)' <=> \E f \in DOMAIN disk' : f[1] = s /\ r \in LinesIn(disk', f)
<1>1. \A d : r \in Remaining(d, {}, s) <=> \E f \in DOMAIN d : f[1] = s /\ f \notin {} /\ r \in LinesIn(d, f)
  BY StoredLines
<1> QED BY <1>1 DEF Recorded

LEMMA RecordedIds ==
    ASSUME LogTyped, NEW s, NEW r \in Recorded(s) PROVE r.id \in Int
<1>1. PICK f \in DOMAIN disk : r \in LinesIn(disk, f)
  BY RecordedLines
<1>2. disk[f] \in Seq(RecordSet)
  BY DEF LogTyped, IsDisk
<1>3. r \in RecordSet
  BY <1>1, <1>2 DEF LinesIn
<1> QED BY <1>3 DEF RecordSet

(* Only a write adds to what is recorded. *)
NothingWritten(p) == Recorded(SourceOf[p])' \subseteq Recorded(SourceOf[p])

LEMMA RecordedStays ==
    ASSUME LogTyped, disk' = disk \/ \E p \in Procs : Begins(p)
    PROVE  \A q \in Procs : NothingWritten(q)
<1>1. CASE disk' = disk
  BY <1>1 DEF NothingWritten, Recorded
<1>2. ASSUME NEW p \in Procs, Begins(p), NEW q \in Procs, NEW r \in Recorded(SourceOf[q])'
      PROVE  r \in Recorded(SourceOf[q])
  <2>1. PICK g \in DOMAIN disk' : g[1] = SourceOf[q] /\ r \in LinesIn(disk', g)
    BY <1>2, RecordedLines
  <2>2. Fewer(g)
    BY <1>2, <2>1, SectionFiles DEF StaysWith, MovesTo, Shrunk, Extended
  <2> QED BY <2>1, <2>2, RecordedLines DEF Fewer
<1> QED BY <1>1, <1>2 DEF NothingWritten

LEMMA WrittenRecords ==
    ASSUME LogTyped, FilesOwned, NEW p \in Procs, NEW r \in RecordSet, disk' = Grown(proc[p].file, r),
           proc[p].file # NoFile
    PROVE  /\ \A q \in Procs \ {p} : NothingWritten(q)
           /\ \A x \in Recorded(SourceOf[p])' : x \in Recorded(SourceOf[p]) \/ x = r
<1>1. proc[p].file[1] = SourceOf[p]
  BY DEF FilesOwned
<1>2. /\ DOMAIN disk' = DOMAIN disk
      /\ \A g \in DOMAIN disk : \A x \in LinesIn(disk', g) : x \in LinesIn(disk, g) \/ (g = proc[p].file /\ x = r)
  BY GrownDisk DEF LogTyped
<1>3. ASSUME NEW s, NEW x \in Recorded(s)'
      PROVE  x \in Recorded(s) \/ (s = SourceOf[p] /\ x = r)
  <2>1. PICK g \in DOMAIN disk' : g[1] = s /\ x \in LinesIn(disk', g)
    BY <1>3, RecordedLines
  <2>2. x \in LinesIn(disk, g) \/ (g = proc[p].file /\ x = r)
    BY <1>2, <2>1
  <2> QED BY <1>1, <1>2, <2>1, <2>2, RecordedLines
<1> QED BY <1>3, OneWriter DEF NothingWritten

(* What p has on disk, in hand and in its queue is in the order of making. *)
Queued(p) == {n \in DOMAIN queue[p] : queue[p][n].id # -1}
Ordered(p) ==
    /\ \A r \in Recorded(SourceOf[p]) : Half(r) \/
         /\ r.id <= made.records
         /\ proc[p].pc \in {"due", "append"} => r.id < proc[p].hand.id
         /\ \A n \in Queued(p) : r.id < queue[p][n].id
    /\ proc[p].hand.id <= made.records
    /\ \A n \in Queued(p) :
         /\ 0 < queue[p][n].id /\ queue[p][n].id <= made.records
         /\ proc[p].hand.id < queue[p][n].id
         /\ \A m \in Queued(p) : m < n => queue[p][m].id < queue[p][n].id

LEMMA StillOrders ==
    ASSUME LogTyped, LogTyped', NEW p \in Procs, AtRest(p), NothingWritten(p), made'.records >= made.records, Ordered(p)
    PROVE  Ordered(p)'
<1>0. /\ made.records \in Nat /\ made'.records \in Nat /\ Torn.id = 0 /\ DOMAIN <<>> = {}
      /\ proc[p].hand.id \in Int /\ \A n \in DOMAIN queue[p] : queue[p][n].id \in Int
      /\ \A r \in Recorded(SourceOf[p]) : r.id \in Int
  BY RecordNumbers, RecordedIds DEF LogTyped, MadeTyped
<1>1. \A i \in Int : i <= made.records => i <= made'.records
  BY <1>0
<1>2. /\ Queued(p)' \subseteq Queued(p)
      /\ \A n \in Queued(p)' : queue'[p][n] = queue[p][n] /\ n \in DOMAIN queue[p]
  BY <1>0 DEF Queued, AtRest
<1>3. proc'[p].hand.id <= made'.records /\ \A n \in Queued(p)' : proc'[p].hand.id < queue'[p][n].id
  <2>1. CASE proc'[p].hand = proc[p].hand
    BY <1>0, <1>1, <1>2, <2>1 DEF Ordered
  <2>2. CASE proc'[p].hand = Torn
    BY <1>0, <1>1, <1>2, <2>2 DEF Ordered
  <2> QED BY <2>1, <2>2 DEF AtRest
<1>4. \A n \in Queued(p)' :
         /\ 0 < queue'[p][n].id /\ queue'[p][n].id <= made'.records
         /\ \A m \in Queued(p)' : m < n => queue'[p][m].id < queue'[p][n].id
  BY <1>0, <1>1, <1>2 DEF Ordered
<1>5. ASSUME NEW r \in Recorded(SourceOf[p])', ~Half(r)
      PROVE  /\ r.id <= made'.records
             /\ proc'[p].pc \in {"due", "append"} => r.id < proc'[p].hand.id
             /\ \A n \in Queued(p)' : r.id < queue'[p][n].id
  <2>1. r \in Recorded(SourceOf[p])
    BY DEF NothingWritten
  <2> QED BY <1>0, <1>1, <1>2, <1>5, <2>1 DEF Ordered, AtRest
<1> QED BY <1>3, <1>4, <1>5 DEF Ordered

LEMMA TakingOrders ==
    ASSUME LogForgets, LogTyped', NEW p \in Procs, Take(p), \A q \in Procs : Ordered(q)
    PROVE  \A q \in Procs : Ordered(q)'
<1> DEFINE q == queue[p]
<1>0. /\ LogTyped /\ Forgetting /\ made.records \in Nat
      /\ q \in Seq(RecordSet) /\ q # <<>> /\ queue \in [Procs -> Seq(RecordSet)]
      /\ \A n \in DOMAIN q : q[n].id \in Int
  BY RecordNumbers DEF LogForgets, LogBase, LogTyped, Take
<1>1. /\ UNCHANGED <<disk, left, lock, command, made>> /\ queue' = [queue EXCEPT ![p] = Tail(@)]
  BY DEF Take
<1>2. /\ OnlyWriter(p) /\ proc'[p].hand = Head(q)
      /\ proc'[p].pc = IF Head(q).id = -1 THEN "clear" ELSE IF Due(p) THEN "due" ELSE "append"
  BY <1>0, TakeWriter
<1>4. queue'[p] = Tail(q) /\ \A x \in Procs \ {p} : queue'[x] = queue[x]
  BY <1>0, <1>1
<1>5. Elsewhere(p)
  BY <1>0, <1>1, <1>2, <1>4, SameElsewhere DEF OnlyWriter
<1>6. /\ 1 \in DOMAIN q /\ Head(q) = q[1]
      /\ \A n \in DOMAIN Tail(q) : n \in Nat \ {0} /\ n + 1 \in DOMAIN q /\ Tail(q)[n] = q[n + 1] /\ n + 1 > 1
  BY <1>0, QueueElements
<1>o. Ordered(p)
  OBVIOUS
<1>7. \A n \in Queued(p)' : n + 1 \in Queued(p) /\ queue'[p][n] = q[n + 1] /\ n \in Nat
  BY <1>4, <1>6 DEF Queued
<1>8. ASSUME Head(q).id # -1 PROVE 1 \in Queued(p)
  BY <1>6, <1>8 DEF Queued
<1>9. proc'[p].hand.id <= made'.records
  BY <1>0, <1>1, <1>2, <1>6, <1>8, <1>o DEF Ordered
<1>10. \A n \in Queued(p)' : proc'[p].hand.id < queue'[p][n].id
  <2> SUFFICES ASSUME NEW n \in Queued(p)' PROVE q[1].id < q[n + 1].id
    BY <1>2, <1>6, <1>7
  <2>1. n + 1 \in Queued(p) /\ n + 1 > 1 /\ n + 1 \in DOMAIN q /\ 1 < n + 1
    BY <1>4, <1>6, <1>7 DEF Queued
  <2>2. CASE q[1].id = -1
    BY <1>0, <1>o, <2>1, <2>2 DEF Ordered
  <2>3. CASE q[1].id # -1
    BY <1>6, <1>8, <1>o, <2>1, <2>3 DEF Ordered
  <2> QED BY <2>2, <2>3
<1>11. \A n \in Queued(p)' :
         /\ 0 < queue'[p][n].id /\ queue'[p][n].id <= made'.records
         /\ \A m \in Queued(p)' : m < n => queue'[p][m].id < queue'[p][n].id
  <2>1. \A m, n \in Queued(p) : m < n => queue[p][m].id < queue[p][n].id
    BY <1>o DEF Ordered
  <2>2. ASSUME NEW m \in Queued(p)', NEW n \in Queued(p)', m < n
        PROVE  queue'[p][m].id < queue'[p][n].id
    <3>1. m + 1 < n + 1
      BY <1>7, <2>2
    <3> QED BY <1>7, <2>1, <3>1
  <2>3. \A n \in Queued(p)' : 0 < queue'[p][n].id /\ queue'[p][n].id <= made'.records
    BY <1>1, <1>7, <1>o DEF Ordered
  <2> QED BY <2>2, <2>3
<1>12. ASSUME NEW r \in Recorded(SourceOf[p])', ~Half(r)
       PROVE  /\ r.id <= made'.records
              /\ proc'[p].pc \in {"due", "append"} => r.id < proc'[p].hand.id
              /\ \A n \in Queued(p)' : r.id < queue'[p][n].id
  <2>1. r \in Recorded(SourceOf[p])
    BY <1>1 DEF Recorded
  <2>2. proc'[p].pc \in {"due", "append"} => 1 \in Queued(p)
    BY <1>2, <1>8
  <2> QED BY <1>1, <1>2, <1>6, <1>7, <1>12, <1>o, <2>1, <2>2 DEF Ordered
<1>13. Ordered(p)'
  BY <1>9, <1>10, <1>11, <1>12 DEF Ordered
<1>14. \A x \in Procs \ {p} : Ordered(x)'
  BY <1>0, <1>1, <1>5, RecordedStays, StillOrders DEF Elsewhere
<1> QED BY <1>13, <1>14

LEMMA WritingOrders ==
    ASSUME LogForgets, LogTyped', NEW p \in Procs, Write(p) \/ WriteFails(p), \A q \in Procs : Ordered(q)
    PROVE  \A q \in Procs : Ordered(q)'
<1>0. /\ LogTyped /\ Forgetting /\ made.records \in Nat
      /\ made \in [records : 0..MaxRecords, clears : 0..MaxClears, gens : Nat, faults : Nat]
      /\ proc[p].hand \in RecordSet
  BY RecordNumbers DEF LogForgets, LogBase, LogTyped, MadeTyped, Writers
<1>1. /\ UNCHANGED <<left, lock, command, queue>> /\ lock.by # p /\ (made' = made \/ Faulted)
      /\ proc[p].pc = "append" /\ proc[p].file # NoFile
  BY DEF Write, WriteFails
<1>2. OnlyWriter(p) /\ proc'[p].hand = Torn /\ proc'[p].pc \in {"count", "idle"}
  BY <1>0, WriteWriter
<1>3. made'.records = made.records /\ made'.records >= made.records
  BY <1>0, <1>1 DEF Faulted
<1>4. PICK r : LineFrom(p, r)
  BY <1>0, WritesALine
<1>5. r \in RecordSet /\ disk' = Grown(proc[p].file, r) /\ (Half(r) \/ r = proc[p].hand)
  BY <1>4 DEF LineFrom
<1>6. /\ \A q \in Procs \ {p} : NothingWritten(q)
      /\ \A x \in Recorded(SourceOf[p])' : x \in Recorded(SourceOf[p]) \/ x = r
  BY <1>0, <1>1, <1>5, WrittenRecords DEF Forgetting
<1>s. \A s \in Sources \ {SourceOf[p]} : Remaining(disk', left'.clear, s) \subseteq Remaining(disk, left.clear, s)
  BY <1>0, <1>1, <1>5, WrittenStores DEF Forgetting
<1>7. Elsewhere(p)
  BY <1>0, <1>1, <1>2, <1>s, SameElsewhere DEF OnlyWriter
<1>8. Ordered(p)'
  <2>o. Ordered(p) /\ Queued(p)' = Queued(p) /\ Torn.id = 0
    BY <1>1 DEF Queued, Torn
  <2>1. proc'[p].hand.id <= made'.records /\ \A n \in Queued(p) : proc'[p].hand.id < queue[p][n].id
    BY <1>0, <1>2, <1>3, <2>o DEF Ordered
  <2>2. ASSUME NEW x \in Recorded(SourceOf[p])', ~Half(x)
        PROVE  x.id <= made.records /\ \A n \in Queued(p) : x.id < queue[p][n].id
    BY <1>5, <1>6, <2>2, <2>o DEF Ordered
  <2> QED BY <1>1, <1>2, <1>3, <2>1, <2>2, <2>o DEF Ordered
<1>9. \A x \in Procs \ {p} : Ordered(x)'
  BY <1>0, <1>3, <1>6, <1>7, StillOrders DEF Elsewhere
<1> QED BY <1>8, <1>9

LEMMA AskingOrders ==
    ASSUME LogForgets, LogTyped', NEW p \in Procs, Record(p) \/ AskOwner(p) \/ RequestClear(p),
           \A q \in Procs : Ordered(q)
    PROVE  \A q \in Procs : Ordered(q)'
<1>0. /\ LogTyped /\ Forgetting /\ MadeTyped /\ made.records \in Nat
      /\ made \in [records : 0..MaxRecords, clears : 0..MaxClears, gens : Nat, faults : Nat]
      /\ queue \in [Procs -> Seq(RecordSet)] /\ queue[p] \in Seq(RecordSet)
  BY RecordNumbers DEF LogForgets, LogBase, LogTyped, MadeTyped, Forgetting
<1>1. /\ UNCHANGED <<disk, left, lock, proc>> /\ made'.records >= made.records
      /\ \/ queue' = queue
         \/ \E r \in RecordSet : /\ Enqueues(p, r)
                                 /\ r.id = -1 \/ (r.id = made.records + 1 /\ made'.records = made.records + 1)
  <2>1. CASE Record(p)
    <3>1. /\ made.records < MaxRecords /\ made' = [made EXCEPT !.records = @ + 1]
          /\ queue' = queue \/ \E big \in BOOLEAN : Enqueues(p, NewRecord(big))
          /\ UNCHANGED <<disk, left, lock, proc>>
      BY <2>1 DEF Record, Enqueues, NewRecord
    <3>2. made'.records = made.records + 1 /\ made'.records >= made.records
      BY <1>0, <3>1
    <3>3. ASSUME NEW big \in BOOLEAN, Enqueues(p, NewRecord(big))
          PROVE  \E r \in RecordSet : Enqueues(p, r) /\ r.id = made.records + 1
      <4>1. NewRecord(big) \in RecordSet /\ NewRecord(big).id = made.records + 1
        BY <1>0, <3>1, NewRecordTyped DEF NewRecord
      <4> QED BY <3>3, <4>1
    <3> QED BY <3>1, <3>2, <3>3
  <2>2. CASE AskOwner(p)
    <3>1. ClearCommand \in RecordSet /\ ClearCommand.id = -1
      BY <1>0, ClearCommandTyped DEF ClearCommand
    <3>2. Enqueues(p, ClearCommand) /\ UNCHANGED <<disk, left, lock, proc, made>>
      BY <2>2 DEF AskOwner, Enqueues
    <3>3. made'.records >= made.records
      BY <1>0, <3>2
    <3> QED BY <3>1, <3>2, <3>3
  <2>3. CASE RequestClear(p)
    <3>1. UNCHANGED <<disk, left, lock, proc, queue>> /\ made' = [made EXCEPT !.clears = @ + 1]
      BY <2>3 DEF RequestClear
    <3>2. made'.records >= made.records
      BY <1>0, <3>1
    <3> QED BY <3>1, <3>2
  <2> QED BY <2>1, <2>2, <2>3
<1>2. \A x \in Procs \ {p} : queue'[x] = queue[x]
  BY <1>0, <1>1 DEF Enqueues
<1>3. \A x \in Procs \ {p} : AtRest(x)
  BY <1>1, <1>2 DEF AtRest
<1>n. \A x \in Procs : NothingWritten(x)
  BY <1>0, <1>1, RecordedStays
<1>4. \A x \in Procs \ {p} : Ordered(x)'
  BY <1>0, <1>1, <1>3, <1>n, StillOrders
<1>5. CASE queue' = queue
  <2>1. AtRest(p)
    BY <1>1, <1>5 DEF AtRest
  <2> QED BY <1>0, <1>1, <1>4, <1>n, <2>1, StillOrders
<1>6. ASSUME NEW r \in RecordSet, Enqueues(p, r),
             r.id = -1 \/ (r.id = made.records + 1 /\ made'.records = made.records + 1)
      PROVE  Ordered(p)'
  <2>1. queue'[p] = Append(queue[p], r)
    BY <1>0, <1>6 DEF Enqueues
  <2>2. \A n \in DOMAIN queue'[p] :
          \/ n \in DOMAIN queue[p] /\ queue'[p][n] = queue[p][n]
          \/ n = Len(queue[p]) + 1 /\ queue'[p][n] = r
    BY <1>0, <2>1, QueueElements
  <2>3. \A n \in Queued(p)' :
          \/ n \in Queued(p) /\ queue'[p][n] = queue[p][n]
          \/ n = Len(queue[p]) + 1 /\ queue'[p][n] = r /\ r.id = made.records + 1
             /\ made'.records = made.records + 1
    BY <1>6, <2>2 DEF Queued
  <2>4. /\ \A n \in Queued(p) : n < Len(queue[p]) + 1 /\ n \in Nat /\ queue[p][n].id \in Int
        /\ Len(queue[p]) \in Nat /\ proc[p].hand.id \in Int /\ made'.records \in Nat
        /\ \A x \in Recorded(SourceOf[p]) : x.id \in Int
    <3>1. \A n \in DOMAIN queue[p] : n < Len(queue[p]) + 1 /\ n \in Nat /\ queue[p][n].id \in Int
      BY <1>0, QueueElements, RecordNumbers
    <3>2. made'.records \in Nat
      BY BoundsTyped DEF LogTyped, MadeTyped
    <3> QED BY <1>0, <3>1, <3>2, RecordNumbers, RecordedIds DEF Queued
  <2>o. Ordered(p)
    OBVIOUS
  <2>5. ASSUME NEW n \in Queued(p)'
        PROVE  /\ 0 < queue'[p][n].id /\ queue'[p][n].id <= made'.records
               /\ proc[p].hand.id < queue'[p][n].id
               /\ \A m \in Queued(p)' : m < n => queue'[p][m].id < queue'[p][n].id
               /\ \A x \in Recorded(SourceOf[p]) : Half(x) \/ x.id < queue'[p][n].id
    <3>1. CASE n \in Queued(p) /\ queue'[p][n] = queue[p][n]
      <4>1. \A m \in Queued(p)' : m < n => m \in Queued(p) /\ queue'[p][m] = queue[p][m]
        BY <2>3, <2>4, <3>1
      <4>2. /\ 0 < queue[p][n].id /\ queue[p][n].id <= made.records
            /\ proc[p].hand.id < queue[p][n].id
            /\ \A m \in Queued(p) : m < n => queue[p][m].id < queue[p][n].id
            /\ \A x \in Recorded(SourceOf[p]) : Half(x) \/ x.id < queue[p][n].id
        BY <2>o, <3>1 DEF Ordered
      <4>3. queue[p][n].id <= made'.records
        BY <1>0, <1>1, <2>4, <3>1, <4>2
      <4> QED BY <3>1, <4>1, <4>2, <4>3
    <3>2. CASE n = Len(queue[p]) + 1 /\ queue'[p][n] = r /\ r.id = made.records + 1
                 /\ made'.records = made.records + 1
      <4>1. \A i \in Int : i <= made.records => i < made.records + 1
        BY <1>0
      <4>2. \A m \in Queued(p)' : m < n => m \in Queued(p) /\ queue'[p][m] = queue[p][m]
        BY <2>3, <2>4, <3>2
      <4>3. /\ proc[p].hand.id <= made.records
            /\ \A m \in Queued(p) : queue[p][m].id <= made.records
            /\ \A x \in Recorded(SourceOf[p]) : Half(x) \/ x.id <= made.records
        BY <2>o DEF Ordered
      <4>4. 0 < r.id /\ r.id <= made'.records
        BY <1>0, <3>2
      <4> QED BY <2>4, <3>2, <4>1, <4>2, <4>3, <4>4
    <3> QED BY <2>3, <3>1, <3>2
  <2>6. \A i \in Int : i <= made.records => i <= made'.records
    BY <1>0, <1>1, <2>4
  <2>7. /\ proc[p].hand.id <= made'.records
        /\ \A x \in Recorded(SourceOf[p]) : Half(x) \/
             /\ x.id <= made'.records
             /\ proc[p].pc \in {"due", "append"} => x.id < proc[p].hand.id
    BY <2>4, <2>6, <2>o DEF Ordered
  <2> QED BY <1>1, <2>5, <2>7 DEF Ordered, Recorded
<1> QED BY <1>1, <1>4, <1>5, <1>6

AllOrdered == \A p \in Procs : Ordered(p)

LEMMA OrderKept ==
    ASSUME LogForgets, LogTyped', AllOrdered, [LogNext]_logVars
    PROVE  AllOrdered'
<1>1. ASSUME AllStill, disk' = disk \/ \E p \in Procs : Begins(p) PROVE AllOrdered'
  BY <1>1, RecordedStays, StillOrders DEF AllStill, AllOrdered, LogForgets, LogBase
<1>2. ASSUME NEW p \in Procs, Commit(p) PROVE AllOrdered'
  BY <1>1, <1>2, CommittingForgets DEF Commit
<1>3. ASSUME \/ \E p \in Procs : CommitFails(p) \/ SectionFails(p) \/ IdleTimeout(p) \/ Crash(p)
             \/ OwnerFails \/ LoseMeta \/ Tick \/ ChangeClock \/ UNCHANGED logVars
      PROVE  AllOrdered'
  <2>1. disk' = disk
    BY <1>3 DEF CommitFails, SectionFails, IdleTimeout, Crash, OwnerFails, LoseMeta, Tick, ChangeClock, logVars
  <2> QED BY <1>1, <1>3, <2>1, QuietlyForgets
<1> QED
  BY <1>1, <1>2, <1>3, BeginningForgets, TakingOrders, WritingOrders, AskingOrders
     DEF LogNext, WriterStep, Begins, AllOrdered

(* The files of a source are numbered in the order of their records, and   *)
(* the open one is the last.                                               *)
InOrder(s) ==
    /\ \A f \in FilesOf(disk, s) : f[3] < Noted(s).next
    /\ \A f, g \in FilesOf(disk, s) : f[3] = g[3] => f = g
    /\ \A f, g \in FilesOf(disk, s) : f[3] < g[3] =>
         \A r \in LinesIn(disk, f), q \in LinesIn(disk, g) : Half(r) \/ Half(q) \/ r.id < q.id
    /\ \A p \in Procs : SourceOf[p] = s /\ proc[p].file # NoFile =>
         \A f \in FilesOf(disk, s) : f[3] <= proc[p].file[3]
AllInOrder == \A s \in Sources \ missed : InOrder(s)

FilesShrink(s) ==
    \A g \in FilesOf(disk', s) : g \in FilesOf(disk, s) /\ LinesIn(disk', g) \subseteq LinesIn(disk, g)

LEMMA ShrinkingKeepsOrder ==
    ASSUME LogTyped, NEW s \in Sources, InOrder(s), FilesShrink(s), Noted(s)'.next = Noted(s).next,
           \A p \in Procs : SourceOf[p] = s => proc'[p].file \in {proc[p].file, NoFile}
    PROVE  InOrder(s)'
<1>1. \A f \in FilesOf(disk', s) : f[3] < Noted(s)'.next
  BY DEF InOrder, FilesShrink
<1>2. \A f, g \in FilesOf(disk', s) : f[3] = g[3] => f = g
  BY DEF InOrder, FilesShrink
<1>3. \A f, g \in FilesOf(disk', s) : f[3] < g[3] =>
         \A r \in LinesIn(disk', f), q \in LinesIn(disk', g) : Half(r) \/ Half(q) \/ r.id < q.id
  BY DEF InOrder, FilesShrink
<1>4. \A p \in Procs : SourceOf[p] = s /\ proc'[p].file # NoFile =>
         \A f \in FilesOf(disk', s) : f[3] <= proc'[p].file[3]
  BY DEF InOrder, FilesShrink
<1> QED BY <1>1, <1>2, <1>3, <1>4 DEF InOrder

(* A new file comes last. *)
LEMMA NewFileComesLast ==
    ASSUME LogTyped, NEW p \in Procs, InOrder(SourceOf[p]), lock.by = NoProc, lock'.by = p,
           NEW f \in FileNames, f[3] = meta.src[SourceOf[p]].next, Noting(p).next = f[3] + 1,
           proc'[p].file = f,
           \A g \in FilesOf(disk', SourceOf[p]) :
              \/ g \in FilesOf(disk, SourceOf[p]) /\ LinesIn(disk', g) \subseteq LinesIn(disk, g)
              \/ g = f /\ LinesIn(disk', g) = {}
    PROVE  InOrder(SourceOf[p])'
<1> DEFINE s == SourceOf[p]
<1>1. Noted(s) = meta.src[s] /\ Noted(s)' = Noting(p)
  BY DEF Noted, Holds, Noting
<1>2. f[3] \in Nat /\ \A g \in FilesOf(disk, s) : g[3] \in Nat /\ g[3] < f[3]
  BY <1>1 DEF InOrder, FileNames, FilesOf, LogTyped, IsDisk
<1>3. \A g \in FilesOf(disk', s) : g[3] \in Nat /\ g[3] <= f[3] /\ (g[3] = f[3] => LinesIn(disk', g) = {} /\ g = f)
  BY <1>2
<1>4. \A g \in FilesOf(disk', s) : g[3] < Noted(s)'.next
  BY <1>1, <1>2, <1>3
<1>5. \A g, h \in FilesOf(disk', s) : g[3] = h[3] => g = h
  <2> SUFFICES ASSUME NEW g \in FilesOf(disk', s), NEW h \in FilesOf(disk', s), g[3] = h[3] PROVE g = h
    OBVIOUS
  <2>1. CASE g[3] = f[3]
    BY <1>3, <2>1
  <2>2. CASE g[3] # f[3]
    BY <1>2, <2>2 DEF InOrder
  <2> QED BY <2>1, <2>2
<1>6. \A g, h \in FilesOf(disk', s) : g[3] < h[3] =>
         \A r \in LinesIn(disk', g), q \in LinesIn(disk', h) : Half(r) \/ Half(q) \/ r.id < q.id
  <2> SUFFICES ASSUME NEW g \in FilesOf(disk', s), NEW h \in FilesOf(disk', s), g[3] < h[3],
                      NEW r \in LinesIn(disk', g), NEW q \in LinesIn(disk', h)
               PROVE  Half(r) \/ Half(q) \/ r.id < q.id
    OBVIOUS
  <2>1. /\ g \in FilesOf(disk, s) /\ r \in LinesIn(disk, g)
        /\ h \in FilesOf(disk, s) /\ q \in LinesIn(disk, h)
    OBVIOUS
  <2> QED BY <2>1 DEF InOrder
<1>7. \A x \in Procs : SourceOf[x] = s /\ proc'[x].file # NoFile =>
         \A g \in FilesOf(disk', s) : g[3] <= proc'[x].file[3]
  BY <1>3, OneWriter
<1> QED BY <1>4, <1>5, <1>6, <1>7 DEF InOrder

LEMMA BeginningInOrder ==
    ASSUME LogBase, NEW p \in Procs, Begins(p), AllInOrder
    PROVE  AllInOrder'
<1> DEFINE s == SourceOf[p]
<1>0. LogTyped /\ IsDisk(disk)
  BY DEF LogBase, LogTyped
<1>1. PICK op : SectionSays(p, op)
  BY SectionSaysSo
<1>2. /\ lock.by = NoProc /\ lock'.by = p /\ meta' = meta /\ missed' = missed
      /\ \A q \in Procs \ {p} : proc'[q] = proc[q]
      /\ \A t \in Sources \ {s} : lock'.meta.src[t] = meta.src[t]
  BY <1>1 DEF SectionSays, SectionBegins
<1>3. Noted(s)' = Noting(p) /\ \A t \in Sources \ {s} : Noted(t)' = Noted(t)
  BY <1>2, SourceTyped DEF Noted, Holds, Noting
<1>4. Noted(s) = meta.src[s]
  BY <1>2 DEF Noted, Holds
<1>f. StaysWith(p) \/ \E f : MovesTo(p, f)
  BY <1>0, SectionFiles
<1>5. ASSUME NEW t \in Sources \ missed, t # s PROVE InOrder(t)'
  <2>1. FilesShrink(t)
    BY <1>5, <1>f DEF StaysWith, MovesTo, Shrunk, Extended, Fewer, FilesShrink, FilesOf
  <2>2. Noted(t)'.next = Noted(t).next /\ InOrder(t)
    BY <1>3, <1>5 DEF AllInOrder
  <2>3. \A q \in Procs : SourceOf[q] = t => proc'[q].file \in {proc[q].file, NoFile}
    BY <1>2, <1>5
  <2> QED BY <1>0, <2>1, <2>2, <2>3, ShrinkingKeepsOrder
<1>6. ASSUME s \notin missed PROVE InOrder(s)'
  <2>0. InOrder(s)
    BY <1>6 DEF AllInOrder
  <2>1. CASE StaysWith(p)
    <3>1. \A q \in Procs : SourceOf[q] = s => proc'[q].file \in {proc[q].file, NoFile}
      BY <1>2, <2>1 DEF StaysWith
    <3>2. Noted(s)'.next = Noted(s).next
      BY <1>3, <1>4, <2>1 DEF StaysWith
    <3>3. FilesShrink(s)
      BY <2>1 DEF StaysWith, Shrunk, Fewer, FilesShrink, FilesOf
    <3> QED BY <1>0, <2>0, <3>1, <3>2, <3>3, ShrinkingKeepsOrder
  <2>2. ASSUME NEW f, MovesTo(p, f) PROVE InOrder(s)'
    <3>1. \A g \in FilesOf(disk, s) : g[3] < meta.src[s].next
      BY <1>4, <2>0 DEF InOrder
    <3>2. /\ f[3] = meta.src[s].next /\ f \in FileNames /\ Noting(p).next = f[3] + 1
          /\ proc'[p].file = f
      BY <2>2, <3>1 DEF MovesTo
    <3>3. \A g \in FilesOf(disk', s) :
              \/ g \in FilesOf(disk, s) /\ LinesIn(disk', g) \subseteq LinesIn(disk, g)
              \/ g = f /\ LinesIn(disk', g) = {}
      BY <2>2 DEF MovesTo, Extended, Fewer, FilesOf
    <3> QED BY <1>0, <1>2, <2>0, <3>2, <3>3, NewFileComesLast
  <2> QED BY <1>f, <2>1, <2>2
<1> QED BY <1>2, <1>5, <1>6 DEF AllInOrder

LEMMA WritingInOrder ==
    ASSUME LogForgets, AllOrdered, NEW p \in Procs, Write(p) \/ WriteFails(p), AllInOrder
    PROVE  AllInOrder'
<1>0. LogTyped /\ LogBase /\ proc[p].hand \in RecordSet /\ IsDisk(disk)
  BY DEF LogForgets, LogBase, LogTyped, Writers
<1>1. /\ UNCHANGED <<lock, meta, missed>> /\ proc[p].pc = "append" /\ proc[p].file # NoFile
  BY DEF Write, WriteFails
<1>2. OnlyWriter(p) /\ proc'[p].file = proc[p].file
  BY <1>0, WriteWriter
<1>l. PICK r : LineFrom(p, r)
  BY <1>0, WritesALine
<1>3. r \in RecordSet /\ disk' = Grown(proc[p].file, r) /\ (Half(r) \/ r = proc[p].hand)
  BY <1>l DEF LineFrom
<1>4. /\ DOMAIN disk' = DOMAIN disk
      /\ \A g \in DOMAIN disk : \A x \in LinesIn(disk', g) :
            x \in LinesIn(disk, g) \/ (g = proc[p].file /\ x = r)
  BY <1>0, <1>3, GrownDisk
<1> SUFFICES ASSUME NEW s \in Sources \ missed PROVE InOrder(s)'
  BY <1>1 DEF AllInOrder
<1>5. FilesOf(disk', s) = FilesOf(disk, s) /\ Noted(s)' = Noted(s) /\ InOrder(s)
      /\ FilesOf(disk, s) \subseteq DOMAIN disk
  BY <1>1, <1>4 DEF FilesOf, Noted, Holds, AllInOrder
<1>6. \A q \in Procs : proc'[q].file = proc[q].file
  BY <1>2 DEF OnlyWriter
<1>7. \A f, g \in FilesOf(disk, s) : f[3] < g[3] =>
         \A x \in LinesIn(disk', f), y \in LinesIn(disk', g) : Half(x) \/ Half(y) \/ x.id < y.id
  <2> SUFFICES ASSUME NEW f \in FilesOf(disk, s), NEW g \in FilesOf(disk, s), f[3] < g[3],
                      NEW x \in LinesIn(disk', f), NEW y \in LinesIn(disk', g), ~Half(x), ~Half(y)
               PROVE  x.id < y.id
    OBVIOUS
  <2>1. CASE x \in LinesIn(disk, f) /\ y \in LinesIn(disk, g)
    BY <1>5, <2>1 DEF InOrder
  <2>2. f[3] \in Nat /\ g[3] \in Nat /\ ~(g[3] <= f[3])
    BY <1>0 DEF IsDisk, FilesOf, FileNames
  <2>3. ASSUME f = proc[p].file PROVE FALSE
    <3>1. SourceOf[p] = s
      BY <1>1, <2>3 DEF LogForgets, Forgetting, FilesOwned, FilesOf
    <3> QED BY <1>1, <1>5, <2>2, <2>3, <3>1 DEF InOrder
  <2>4. CASE g = proc[p].file /\ y = r /\ x \in LinesIn(disk, f)
    <3>1. SourceOf[p] = s
      BY <1>1, <2>4 DEF LogForgets, Forgetting, FilesOwned, FilesOf
    <3>2. x \in Recorded(s)
      <4>1. f \in DOMAIN disk /\ f[1] = s /\ x \in LinesIn(disk, f)
        BY <2>4 DEF FilesOf
      <4> QED BY <4>1, RecordedLines
    <3>3. y = proc[p].hand
      BY <1>3, <2>4
    <3> QED BY <1>1, <3>1, <3>2, <3>3 DEF AllOrdered, Ordered
  <2> QED BY <1>4, <1>5, <2>1, <2>3, <2>4
<1> QED BY <1>5, <1>6, <1>7 DEF InOrder

(* The steps that leave the files alone.                                   *)
LEMMA RestingKeepsOrder ==
    ASSUME LogTyped, AllInOrder, disk' = disk, missed \subseteq missed',
           \A s \in Sources \ missed' : Noted(s)' = Noted(s),
           \A p \in Procs : proc'[p].file \in {proc[p].file, NoFile}
    PROVE  AllInOrder'
<1> SUFFICES ASSUME NEW s \in Sources \ missed' PROVE InOrder(s)'
  BY DEF AllInOrder
<1>1. InOrder(s) /\ FilesShrink(s)
  BY DEF AllInOrder, FilesShrink
<1> QED BY <1>1, ShrinkingKeepsOrder

LEMMA OthersInOrder ==
    ASSUME LogBase, AllInOrder,
           \/ \E p \in Procs : \/ Commit(p) \/ CommitFails(p) \/ SectionFails(p) \/ Take(p) \/ IdleTimeout(p)
                               \/ Crash(p) \/ Record(p) \/ RequestClear(p) \/ AskOwner(p)
           \/ OwnerFails \/ LoseMeta \/ Tick \/ ChangeClock \/ UNCHANGED logVars
    PROVE  AllInOrder'
<1>0. LogTyped /\ SectionKnown /\ Off.file = NoFile
  BY DEF LogBase, Off, Idle
<1>w. ASSUME NEW p \in Procs, OnlyWriter(p), proc'[p].file \in {proc[p].file, NoFile}
      PROVE  \A q \in Procs : proc'[q].file \in {proc[q].file, NoFile}
  BY <1>w DEF OnlyWriter
<1>s. ASSUME UNCHANGED <<lock, meta>> PROVE \A s \in Sources : Noted(s)' = Noted(s)
  BY <1>s DEF Noted, Holds
<1>1. ASSUME NEW p \in Procs, Commit(p) PROVE AllInOrder'
  <2>1. /\ lock.by = p /\ lock' = [by |-> NoProc] /\ meta' = lock.meta
        /\ UNCHANGED <<disk, missed>> /\ p # NoProc
    BY <1>1, SourceTyped DEF Commit
  <2>2. OnlyWriter(p) /\ proc'[p].file \in {proc[p].file, NoFile}
    BY <1>0, <1>1, CommitWriter DEF Same
  <2>3. \A s \in Sources : Noted(s)' = Noted(s)
    BY <1>0, <2>1 DEF Noted, Holds, SectionKnown
  <2> QED BY <1>0, <1>w, <2>1, <2>2, <2>3, RestingKeepsOrder
<1>2. ASSUME NEW p \in Procs, Abandons(p) PROVE AllInOrder'
  <2>1. Abandoned(p)
    BY <1>2, AbandonSteps
  <2>2. disk' = disk
    BY <1>2 DEF Abandons, CommitFails, Crash
  <2>3. OnlyWriter(p) /\ proc'[p].file \in {proc[p].file, NoFile}
    BY <1>0, <1>2, CommitFailsWriter, CrashWriter DEF Same, Abandons
  <2>4. \A s \in Sources \ missed' : Noted(s)' = Noted(s)
    BY <2>1 DEF Abandoned, Noted, Holds
  <2>5. missed \subseteq missed'
    BY <2>1 DEF Abandoned
  <2> QED BY <1>0, <1>w, <2>2, <2>3, <2>4, <2>5, RestingKeepsOrder
<1>3. ASSUME NEW p \in Procs, SectionFails(p) \/ Take(p) \/ IdleTimeout(p) PROVE AllInOrder'
  <2>1. UNCHANGED <<disk, lock, meta, missed>>
    BY <1>3 DEF SectionFails, Take, IdleTimeout
  <2>2. OnlyWriter(p) /\ proc'[p].file \in {proc[p].file, NoFile}
    BY <1>0, <1>3, SectionFailsWriter, TakeWriter, IdleTimeoutWriter DEF Same
  <2>3. \A q \in Procs : proc'[q].file \in {proc[q].file, NoFile}
    BY <1>w, <2>2
  <2> QED BY <1>0, <1>s, <2>1, <2>3, RestingKeepsOrder
<1>4. ASSUME NEW p \in Procs, Crash(p), lock.by # p PROVE AllInOrder'
  <2>1. UNCHANGED <<disk, lock, meta, missed>>
    BY <1>4 DEF Crash
  <2>2. OnlyWriter(p) /\ proc'[p].file \in {proc[p].file, NoFile}
    BY <1>0, <1>4, CrashWriter
  <2>3. \A q \in Procs : proc'[q].file \in {proc[q].file, NoFile}
    BY <1>w, <2>2
  <2> QED BY <1>0, <1>s, <2>1, <2>3, RestingKeepsOrder
<1>5. ASSUME UNCHANGED <<disk, lock, meta, missed, proc>> PROVE AllInOrder'
  BY <1>0, <1>5, <1>s, RestingKeepsOrder
<1>6. ASSUME NEW p \in Procs, Record(p) \/ RequestClear(p) \/ AskOwner(p) PROVE AllInOrder'
  BY <1>5, <1>6 DEF Record, RequestClear, AskOwner
<1>7. ASSUME OwnerFails \/ Tick \/ ChangeClock \/ UNCHANGED logVars PROVE AllInOrder'
  BY <1>5, <1>7 DEF OwnerFails, Tick, ChangeClock, logVars
<1>8. ASSUME LoseMeta PROVE AllInOrder'
  <2>1. missed' = Sources
    BY <1>8 DEF LoseMeta
  <2> QED BY <2>1 DEF AllInOrder
<1> QED BY <1>1, <1>2, <1>3, <1>4, <1>6, <1>7, <1>8 DEF Abandons

LogInOrder == LogForgets /\ AllOrdered /\ AllInOrder

(* Files and records keep the order of the records' making.                *)
THEOREM OrderInductive == LogSpec => []LogInOrder
<1>1. LogInit => AllOrdered /\ AllInOrder
  <2> SUFFICES ASSUME LogInit PROVE AllOrdered /\ AllInOrder
    OBVIOUS
  <2>1. /\ disk = <<>> /\ \A p \in Procs : proc[p] = Off /\ queue[p] = <<>>
        /\ made.records = 0 /\ DOMAIN <<>> = {}
        /\ Off.hand = Torn /\ Off.pc = "down" /\ Off.file = NoFile /\ Torn.id = 0
    BY DEF LogInit, Off, Idle, Torn
  <2>2. \A s : FilesOf(disk, s) = {} /\ Recorded(s) = {}
    BY <2>1 DEF FilesOf, Recorded, Remaining
  <2>3. \A p \in Procs : Queued(p) = {}
    BY <2>1 DEF Queued
  <2> QED BY <2>1, <2>2, <2>3 DEF AllOrdered, Ordered, AllInOrder, InOrder
<1>2. LogInOrder /\ LogForgets' /\ [LogNext]_logVars => (AllOrdered /\ AllInOrder)'
  <2> SUFFICES ASSUME LogInOrder, LogForgets', [LogNext]_logVars PROVE AllOrdered' /\ AllInOrder'
    OBVIOUS
  <2>1. LogTyped' /\ LogForgets /\ LogBase /\ AllOrdered /\ AllInOrder
    BY DEF LogInOrder, LogForgets, LogBase
  <2>2. AllOrdered'
    BY <2>1, OrderKept
  <2>3. AllInOrder'
    BY <2>1, BeginningInOrder, WritingInOrder, OthersInOrder DEF LogNext, WriterStep, Begins
  <2> QED BY <2>2, <2>3
<1> QED BY <1>1, <1>2, ForgettingInductive, PTL DEF LogSpec, LogInOrder

----------------------------------------------------------------------------
(* Nothing leaves a page unexplained. *)

Present(s, r) == \E g \in FilesOf(disk, s) : r \in Readable(disk[g])

(* Why the open section may have taken record r from file f: it was left   *)
(* behind in part, cleared, or evicted before all that is newer.           *)
Newest(s, r) ==
    \A g \in FilesOf(disk, s) \ left.pass : \A q \in Readable(disk[g]) : Half(q) \/ q.id > r.id
Accounted(f, r) ==
    /\ f[1] = SourceOf[lock.by]
    /\ \/ lock.op = "maintain" /\ f \in left.pass
       \/ lock.op = "clear"
       \/ lock.meta.src[f[1]].evicted /\ (f[1] \in missed \/ Newest(f[1], r))

Explained ==
    lock.by # NoProc =>
        \A f \in DOMAIN lock.was : \A r \in lock.was[f] : Present(f[1], r) \/ Accounted(f, r)

LEMMA ShownIsReadable ==
    ASSUME NEW ls, NEW r PROVE r \in Shown(ls) <=> r \in Readable(ls) /\ Kept(r)
BY DEF Shown, Readable

LEMMA ReadableIsIn ==
    ASSUME NEW d, IsDisk(d), NEW g \in DOMAIN d, NEW r \in Readable(d[g])
    PROVE  r \in LinesIn(d, g) /\ r.id \in Int
<1>1. d[g] \in Seq(RecordSet)
  BY DEF IsDisk
<1>2. PICK n \in DOMAIN d[g] : r = d[g][n]
  BY <1>1, ReadableLines
<1>3. r \in RecordSet
  BY <1>1, <1>2
<1> QED BY <1>2, <1>3 DEF LinesIn, RecordSet

(* What the budget takes is older than what it leaves.                     *)
LEMMA PassExplained ==
    ASSUME LogInOrder, NEW p \in Procs, NEW V, NEW ttl \in BOOLEAN, HousekeepDoes(p, V, ttl), lock'.by = p,
           ttl => lock'.op = "maintain", missed' = missed,
           NEW v \in DOMAIN disk, NEW r \in Shown(disk[v])
    PROVE  Present(v[1], r)' \/ Accounted(v, r)'
<1> DEFINE f == proc'[p].file
           own == SourceOf[p]
<1>0. LogTyped /\ IsDisk(disk) /\ AllInOrder /\ own \in Sources
  BY SourceTyped DEF LogInOrder, LogForgets, LogBase, LogTyped
<1>1. /\ \/ /\ f = proc[p].file /\ f # NoFile /\ DOMAIN disk' \subseteq DOMAIN disk
         \/ /\ NewFile(p, f, meta, disk) /\ DOMAIN disk' \subseteq DOMAIN disk \cup {f}
            /\ f \in DOMAIN disk' => disk'[f] = <<>>
      /\ \A g \in DOMAIN disk' \cap DOMAIN disk :
            LinesIn(disk', g) \subseteq LinesIn(disk, g) /\ Readable(disk'[g]) \subseteq Readable(disk[g])
      /\ V \subseteq FilesOf(disk, own) /\ \A x \in V : x \notin DOMAIN disk'
      /\ \A x \in V, g \in FilesOf(disk', own) \ {f} : g \notin left'.pass => x[3] <= g[3]
      /\ \A g \in DOMAIN disk : \A x \in Readable(disk[g]) :
            Kept(x) => \/ g \in V \/ (ttl /\ g \in left'.pass)
                       \/ g \in DOMAIN disk' /\ x \in Readable(disk'[g])
      /\ \A g \in DOMAIN disk : g[1] # own \/ g = f => g \in DOMAIN disk' /\ disk'[g] = disk[g]
  BY DEF HousekeepDoes, PassLeaves, PassLimits
<1>e. V # {} => lock'.meta.src[own].evicted
  BY DEF HousekeepDoes, Noting
<1> HIDE DEF f
<1>2. Kept(r) /\ r \in Readable(disk[v])
  BY ShownIsReadable
<1>h. ~Half(r)
  BY <1>2 DEF Kept, Corrupt
<1>3. CASE v[1] # own \/ (v \in DOMAIN disk' /\ r \in Readable(disk'[v]))
  BY <1>1, <1>2, <1>3 DEF Present, FilesOf
<1>4. CASE v[1] = own /\ ttl /\ v \in left'.pass
  BY <1>4 DEF Accounted
<1>5. CASE v \in V
  <2>1. lock'.meta.src[own].evicted /\ v[1] = own
    BY <1>1, <1>5, <1>e DEF FilesOf
  <2>2. ASSUME own \notin missed, NEW g \in FilesOf(disk', own) \ left'.pass,
               NEW q \in Readable(disk'[g]), ~Half(q)
        PROVE  q.id > r.id
    <3>0. InOrder(own) /\ v \in FilesOf(disk, own)
      BY <1>0, <1>1, <1>5, <2>2 DEF AllInOrder
    <3>1. g \in DOMAIN disk' /\ g[1] = own
      BY DEF FilesOf
    <3>2. g \in DOMAIN disk
      <4>1. ASSUME g = f, f \in DOMAIN disk' => disk'[f] = <<>> PROVE FALSE
        <5>1. disk'[g] = <<>>
          BY <3>1, <4>1
        <5>2. <<>> \in Seq(RecordSet) /\ DOMAIN <<>> = {}
          OBVIOUS
        <5>3. \E n \in DOMAIN disk'[g] : q = disk'[g][n]
          BY <5>1, <5>2, ReadableLines
        <5> QED BY <5>1, <5>2, <5>3
      <4> QED BY <1>1, <3>1, <4>1
    <3>3. g \in FilesOf(disk, own) /\ q \in Readable(disk[g])
      BY <1>1, <3>1, <3>2 DEF FilesOf
    <3>4. q \in LinesIn(disk, g) /\ r \in LinesIn(disk, v) /\ q.id \in Int /\ r.id \in Int
      BY <1>0, <1>2, <3>2, <3>3, ReadableIsIn
    <3>5. v[3] <= g[3]
      <4>1. CASE g # f
        BY <1>1, <1>5, <4>1
      <4>2. CASE g = f
        <5>1. ~ NewFile(p, f, meta, disk)
          BY <3>2, <4>2 DEF NewFile
        <5>2. proc[p].file = f /\ f # NoFile
          BY <1>1, <5>1
        <5> QED BY <3>0, <4>2, <5>2 DEF InOrder
      <4> QED BY <4>1, <4>2
    <3>6. v # g
      BY <1>1, <1>5, <3>1
    <3>7. v[3] \in Nat /\ g[3] \in Nat
      BY <1>0, <3>2 DEF IsDisk, FileNames
    <3>8. v[3] < g[3]
      BY <3>0, <3>3, <3>5, <3>6, <3>7 DEF InOrder
    <3>9. r.id < q.id
      BY <1>h, <2>2, <3>0, <3>3, <3>4, <3>8 DEF InOrder
    <3> QED BY <3>4, <3>9
  <2>3. own \in missed' \/ Newest(own, r)'
    BY <2>2 DEF Newest
  <2> QED BY <2>1, <2>3 DEF Accounted
<1> QED BY <1>1, <1>2, <1>3, <1>4, <1>5

LEMMA StaysPresent ==
    ASSUME NEW v \in DOMAIN disk, NEW r \in Shown(disk[v]), v \in DOMAIN disk', disk'[v] = disk[v]
    PROVE  Present(v[1], r)'
BY ShownIsReadable DEF Present, FilesOf

LEMMA BeginningExplained ==
    ASSUME LogInOrder, NEW p \in Procs, Begins(p)
    PROVE  Explained'
<1> DEFINE own == SourceOf[p]
<1>0. LogTyped /\ IsDisk(disk) /\ LogBase
  BY DEF LogInOrder, LogForgets, LogBase, LogTyped
<1>1. PICK op : SectionSays(p, op)
  BY <1>0, SectionSaysSo
<1>2. /\ lock'.by = p /\ lock'.op = op /\ missed' = missed
      /\ lock'.was = [f \in DOMAIN disk |-> Shown(disk[f])]
  BY <1>1 DEF SectionSays, SectionBegins
<1> SUFFICES ASSUME NEW v \in DOMAIN disk, NEW r \in Shown(disk[v])
             PROVE  Present(v[1], r)' \/ Accounted(v, r)'
  BY <1>2 DEF Explained
<1>3. CASE Open(p)
  <2>1. PICK f \in FileNames : NewFile(p, f, meta, disk) /\ disk' = WithFile(disk, f)
    BY <1>0, <1>3, OpenSection DEF OpenDoes
  <2>2. f \notin DOMAIN disk
    BY <2>1 DEF NewFile
  <2>3. \A g \in DOMAIN disk : g \in DOMAIN disk' /\ disk'[g] = disk[g]
    BY <1>0, <2>1, <2>2, AddedToDisk
  <2> QED BY <2>3, StaysPresent
<1>4. CASE Maintain(p)
  <2>1. PICK V : HousekeepDoes(p, V, TRUE)
    BY <1>0, <1>4, MaintainSection
  <2>2. lock'.op = "maintain"
    BY <1>0, <1>4, MaintainSection DEF SectionBegins
  <2> QED BY <1>2, <2>1, <2>2, PassExplained
<1>5. CASE Rotate(p)
  <2>1. PICK V : HousekeepDoes(p, V, FALSE)
    BY <1>0, <1>5, RotateSection
  <2> QED BY <1>2, <2>1, PassExplained
<1>6. CASE PersistCounters(p)
  <2>1. disk' = disk
    BY <1>0, <1>6, CountSection DEF CountDoes
  <2> QED BY <2>1, StaysPresent
<1>7. CASE Clear(p)
  <2>0. lock'.op = "clear"
    BY <1>0, <1>7, ClearSection DEF SectionBegins
  <2>1. CASE v[1] = own
    BY <1>2, <2>0, <2>1 DEF Accounted
  <2>2. CASE v[1] # own
    <3>1. PICK stay \in SUBSET FilesOf(disk, own) : Empties(p, Without(disk, FilesOf(disk, own) \ stay))
      BY <1>0, <1>7, ClearSection DEF ClearDoes
    <3> DEFINE d == Without(disk, FilesOf(disk, own) \ stay)
    <3>2. /\ IsDisk(d) /\ DOMAIN d = DOMAIN disk \ (FilesOf(disk, own) \ stay)
          /\ \A g \in DOMAIN d : d[g] = disk[g]
      BY <1>0, DroppedFiles
    <3>3. Empties(p, d)
      BY <3>1
    <3> HIDE DEF d
    <3>4. v \in DOMAIN d /\ d[v] = disk[v]
      BY <2>2, <3>2 DEF FilesOf
    <3>5. ASSUME NEW f \in FileNames, NewFile(p, f, meta, d), disk' = WithFile(d, f)
          PROVE  v \in DOMAIN disk' /\ disk'[v] = disk[v]
      <4>0. f \notin DOMAIN d
        BY <3>5 DEF NewFile
      <4>1. /\ DOMAIN WithFile(d, f) = DOMAIN d \cup {f}
            /\ \A g \in DOMAIN d : WithFile(d, f)[g] = d[g]
        BY <3>2, <4>0, AddedFile
      <4> QED BY <3>4, <3>5, <4>1
    <3>6. v \in DOMAIN disk' /\ disk'[v] = disk[v]
      BY <3>3, <3>4, <3>5 DEF Empties
    <3> QED BY <3>6, StaysPresent
  <2> QED BY <2>1, <2>2
<1> QED BY <1>3, <1>4, <1>5, <1>6, <1>7 DEF Begins

(* A write adds to what is shown, in the writer's own files.               *)
LEMMA WritingShows ==
    ASSUME LogInOrder, NEW p \in Procs, Write(p) \/ WriteFails(p)
    PROVE  /\ DOMAIN disk' = DOMAIN disk
           /\ \A g \in DOMAIN disk : Readable(disk[g]) \subseteq Readable(disk'[g])
           /\ \A g \in DOMAIN disk : g[1] # SourceOf[p] => disk'[g] = disk[g]
<1>0. LogTyped /\ IsDisk(disk) /\ FilesOwned
  BY DEF LogInOrder, LogForgets, LogBase, LogTyped, Forgetting
<1>1. PICK r : LineFrom(p, r)
  BY <1>0, WritesALine
<1>2. r \in RecordSet /\ disk' = Grown(proc[p].file, r)
  BY <1>1 DEF LineFrom
<1>3. proc[p].file[1] = SourceOf[p]
  BY <1>0 DEF FilesOwned, Write, WriteFails
<1> QED BY <1>0, <1>2, <1>3, GrownDisk

LEMMA WritingExplained ==
    ASSUME LogInOrder, Explained, NEW p \in Procs, Write(p) \/ WriteFails(p)
    PROVE  Explained'
<1>1. UNCHANGED <<lock, left, missed>> /\ lock.by # p
  BY DEF Write, WriteFails
<1>2. /\ DOMAIN disk' = DOMAIN disk
      /\ \A g \in DOMAIN disk : Readable(disk[g]) \subseteq Readable(disk'[g])
      /\ \A g \in DOMAIN disk : g[1] # SourceOf[p] => disk'[g] = disk[g]
  BY WritingShows
<1> SUFFICES ASSUME lock.by # NoProc, NEW f \in DOMAIN lock.was, NEW r \in lock.was[f]
             PROVE  Present(f[1], r)' \/ Accounted(f, r)'
  BY <1>1 DEF Explained
<1>3. lock.by \in Procs /\ SourceOf[lock.by] # SourceOf[p]
  <2>1. lock.by \in Procs
    BY DEF LogInOrder, LogForgets, LogBase, LogTyped, Locks
  <2> QED BY <1>1, <2>1, OneWriter
<1>4. CASE Present(f[1], r)
  BY <1>2, <1>4 DEF Present, FilesOf
<1>5. CASE Accounted(f, r)
  <2>1. \A g \in FilesOf(disk', f[1]) : g \in FilesOf(disk, f[1]) /\ disk'[g] = disk[g]
    BY <1>2, <1>3, <1>5 DEF Accounted, FilesOf
  <2>2. Newest(f[1], r) => Newest(f[1], r)'
    BY <1>1, <2>1 DEF Newest
  <2> QED BY <1>1, <1>5, <2>2 DEF Accounted
<1> QED BY <1>4, <1>5 DEF Explained

LEMMA RestingExplained ==
    ASSUME Explained, UNCHANGED <<disk, left>>, lock'.by = NoProc \/ UNCHANGED <<lock, missed>>
    PROVE  Explained'
<1>1. CASE UNCHANGED <<lock, missed>>
  BY <1>1 DEF Explained, Present, Accounted, Newest
<1>2. CASE lock'.by = NoProc
  BY <1>2 DEF Explained
<1> QED BY <1>1, <1>2

LogExplained == LogInOrder /\ Explained

LEMMA ExplainedInductive == LogSpec => []LogExplained
<1>1. LogInit => Explained
  BY DEF LogInit, Explained
<1>2. LogExplained /\ [LogNext]_logVars => Explained'
  <2> SUFFICES ASSUME LogExplained, [LogNext]_logVars PROVE Explained'
    OBVIOUS
  <2>0. LogInOrder /\ Explained
    BY DEF LogExplained
  <2>1. ASSUME NEW p \in Procs, Begins(p) PROVE Explained'
    BY <2>0, <2>1, BeginningExplained
  <2>2. ASSUME NEW p \in Procs, Write(p) \/ WriteFails(p) PROVE Explained'
    BY <2>0, <2>2, WritingExplained
  <2>3. ASSUME NEW p \in Procs, Commit(p) \/ CommitFails(p) PROVE Explained'
    <3>0. lock' = [by |-> NoProc]
      BY <2>3 DEF Commit, CommitFails
    <3>1. UNCHANGED <<disk, left>> /\ lock'.by = NoProc
      BY <2>3, <3>0 DEF Commit, CommitFails
    <3> QED BY <2>0, <3>1, RestingExplained
  <2>4. ASSUME NEW p \in Procs, Crash(p) PROVE Explained'
    <3>1. UNCHANGED <<disk, left>> /\ (lock'.by = NoProc \/ UNCHANGED <<lock, missed>>)
      BY <2>4 DEF Crash
    <3> QED BY <2>0, <3>1, RestingExplained
  <2>5. ASSUME NEW p \in Procs, SectionFails(p) \/ Take(p) \/ IdleTimeout(p) \/ Record(p) \/ RequestClear(p) \/ AskOwner(p)
        PROVE  Explained'
    <3>1. UNCHANGED <<disk, left, lock, missed>>
      BY <2>5 DEF SectionFails, Take, IdleTimeout, Record, RequestClear, AskOwner
    <3> QED BY <2>0, <3>1, RestingExplained
  <2>6. ASSUME OwnerFails \/ Tick \/ ChangeClock \/ UNCHANGED logVars PROVE Explained'
    <3>1. UNCHANGED <<disk, left, lock, missed>>
      BY <2>6 DEF OwnerFails, Tick, ChangeClock, logVars
    <3> QED BY <2>0, <3>1, RestingExplained
  <2>7. ASSUME LoseMeta PROVE Explained'
    <3>1. UNCHANGED <<disk, left, lock>> /\ lock.by = NoProc
      BY <2>7 DEF LoseMeta
    <3> QED BY <2>0, <3>1, RestingExplained
  <2> QED BY <2>1, <2>2, <2>3, <2>4, <2>5, <2>6, <2>7 DEF LogNext, WriterStep, Begins
<1> QED BY <1>1, <1>2, OrderInductive, PTL DEF LogSpec, LogExplained

LEMMA GenerationOf ==
    ASSUME NEW m, NEW s \in Sources
    PROVE  Generation(m)[s] = IF m.src[s].gen = 0 THEN m.top ELSE m.src[s].gen
BY DEF Generation

(* The generation changes with a clear that reaches meta.json.             *)
LEMMA GenerationStep ==
    ASSUME LogBase, [LogNext]_logVars, meta' # meta, meta' # BlankMeta
    PROVE  Generation(meta') # Generation(meta) <=>
              lock.by # NoProc /\ lock.op = "clear" /\ meta' = lock.meta /\ lock'.by = NoProc
<1>0. /\ LogTyped /\ SectionKnown /\ GensCounted /\ NoProc \notin Procs
      /\ made.gens \in Nat /\ meta.top \in Nat /\ \A t \in Sources : meta.src[t].gen \in Nat
  BY GensTyped, SourceTyped DEF LogBase
<1>1. ASSUME NEW p \in Procs, Commit(p)
      PROVE  Generation(meta') # Generation(meta) <=>
               lock.by # NoProc /\ lock.op = "clear" /\ meta' = lock.meta /\ lock'.by = NoProc
  <2> DEFINE m == lock.meta
             s == SourceOf[p]
  <2>1. lock.by = p /\ p # NoProc /\ meta' = m /\ lock'.by = NoProc
    BY <1>0, <1>1 DEF Commit
  <2> HIDE DEF m
  <2>2. CASE lock.op = "clear"
    <3>1. m.src[s].gen = made.gens /\ meta.top < made.gens /\ meta.src[s].gen < made.gens
      BY <1>0, <2>1, <2>2 DEF SectionKnown, m
    <3>2. Generation(m)[s] = made.gens
      BY <1>0, <3>1, GenerationOf
    <3>3. Generation(meta)[s] < made.gens /\ Generation(meta)[s] \in Nat
      BY <1>0, <3>1, GenerationOf
    <3>4. Generation(m) # Generation(meta)
      BY <1>0, <3>2, <3>3
    <3> QED BY <2>1, <2>2, <3>4 DEF m
  <2>3. CASE lock.op # "clear"
    <3>1. m.top = meta.top /\ \A t \in Sources : m.src[t].gen = meta.src[t].gen
      BY <1>0, <2>1, <2>3 DEF SectionKnown, m
    <3>2. Generation(m) = Generation(meta)
      BY <3>1 DEF Generation
    <3> QED BY <2>1, <2>3, <3>2
  <2> QED BY <2>2, <2>3
<1>2. ASSUME meta' = meta, ~(lock.by # NoProc /\ lock'.by = NoProc)
      PROVE  Generation(meta') # Generation(meta) <=>
               lock.by # NoProc /\ lock.op = "clear" /\ meta' = lock.meta /\ lock'.by = NoProc
  BY <1>2
<1>3. ASSUME NEW p \in Procs, Begins(p)
      PROVE  Generation(meta') # Generation(meta) <=>
               lock.by # NoProc /\ lock.op = "clear" /\ meta' = lock.meta /\ lock'.by = NoProc
  <2>1. meta' = meta /\ lock.by = NoProc
    BY <1>0, <1>3, OpenSection, MaintainSection, RotateSection, CountSection, ClearSection
       DEF Begins, SectionBegins
  <2> QED BY <1>2, <2>1
<1>4. ASSUME NEW p \in Procs, Write(p) \/ WriteFails(p)
      PROVE  Generation(meta') # Generation(meta) <=>
               lock.by # NoProc /\ lock.op = "clear" /\ meta' = lock.meta /\ lock'.by = NoProc
  <2>1. meta' = meta /\ lock' = lock
    BY <1>4 DEF Write, WriteFails
  <2> QED BY <1>2, <2>1
<1>5. ASSUME NEW p \in Procs, CommitFails(p) \/ SectionFails(p) \/ Take(p) \/ IdleTimeout(p)
                              \/ Crash(p) \/ Record(p) \/ RequestClear(p) \/ AskOwner(p)
      PROVE  FALSE
  BY <1>5 DEF CommitFails, SectionFails, Take, IdleTimeout, Crash, Record, RequestClear, AskOwner
<1>6. ASSUME OwnerFails \/ LoseMeta \/ Tick \/ ChangeClock \/ UNCHANGED logVars
      PROVE  FALSE
  BY <1>6 DEF OwnerFails, LoseMeta, Tick, ChangeClock, logVars
<1> QED BY <1>1, <1>3, <1>4, <1>5, <1>6 DEF LogNext, WriterStep, Begins

(* Without a section nothing leaves.                                       *)
LEMMA NothingLeavesOutside ==
    ASSUME LogInOrder, [LogNext]_logVars, lock.by = NoProc, lock'.by = NoProc, NEW f \in DOMAIN disk
    PROVE  Shown(disk[f]) \subseteq ShownAfter(f[1])
<1> SUFFICES ASSUME NEW r \in Shown(disk[f])
             PROVE  \E g \in FilesOf(disk', f[1]) : r \in Shown(disk'[g])
  BY DEF ShownAfter
<1>0. LogTyped /\ NoProc \notin Procs /\ LogBase
  BY SourceTyped DEF LogInOrder, LogForgets, LogBase
<1>1. CASE f \in DOMAIN disk' /\ Readable(disk[f]) \subseteq Readable(disk'[f])
  BY <1>1, ShownIsReadable DEF FilesOf
<1>2. ASSUME NEW p \in Procs, Write(p) \/ WriteFails(p)
      PROVE  f \in DOMAIN disk' /\ Readable(disk[f]) \subseteq Readable(disk'[f])
  BY <1>2, WritingShows
<1>3. ASSUME NEW p \in Procs, Begins(p) PROVE FALSE
  <2>1. \E op : SectionSays(p, op)
    BY <1>0, <1>3, SectionSaysSo
  <2> QED BY <1>0, <2>1 DEF SectionSays, SectionBegins
<1>4. CASE disk' = disk
  BY <1>1, <1>4
<1>5. ASSUME NEW p \in Procs, Commit(p) \/ CommitFails(p) \/ SectionFails(p) \/ Take(p) \/ IdleTimeout(p)
                              \/ Crash(p) \/ Record(p) \/ RequestClear(p) \/ AskOwner(p)
      PROVE  disk' = disk
  BY <1>5 DEF Commit, CommitFails, SectionFails, Take, IdleTimeout, Crash, Record, RequestClear, AskOwner
<1>6. ASSUME OwnerFails \/ LoseMeta \/ Tick \/ ChangeClock \/ UNCHANGED logVars
      PROVE  disk' = disk
  BY <1>6 DEF OwnerFails, LoseMeta, Tick, ChangeClock, logVars
<1> QED BY <1>1, <1>2, <1>3, <1>4, <1>5, <1>6 DEF LogNext, WriterStep, Begins

(* The end of a section.                                                   *)
LEMMA EndsExplained ==
    ASSUME LogExplained, [LogNext]_logVars, lock.by # NoProc, lock'.by = NoProc,
           NEW f \in DOMAIN lock.was, NEW r \in lock.was[f] \ ShownAfter(f[1]), Kept(r)
    PROVE  f[1] = SourceOf[lock.by] /\ LeavesTold(f, r)
<1>0. LogTyped /\ LogBase /\ LogInOrder /\ SectionKnown /\ Explained
  BY DEF LogExplained, LogInOrder, LogForgets, LogBase
<1>1. disk' = disk /\ left' = left
  <2>1. ASSUME NEW p \in Procs, Begins(p) PROVE FALSE
    <3>1. \E op : SectionSays(p, op)
      BY <1>0, <2>1, SectionSaysSo
    <3> QED BY <3>1 DEF SectionSays, SectionBegins
  <2>2. ASSUME NEW p \in Procs, Commit(p) \/ CommitFails(p) \/ Crash(p) PROVE disk' = disk /\ left' = left
    BY <2>2 DEF Commit, CommitFails, Crash
  <2>3. ASSUME NEW p \in Procs, Write(p) \/ WriteFails(p) \/ SectionFails(p) \/ Take(p) \/ IdleTimeout(p)
                                \/ Record(p) \/ RequestClear(p) \/ AskOwner(p)
        PROVE  lock' = lock
    BY <2>3 DEF Write, WriteFails, SectionFails, Take, IdleTimeout, Record, RequestClear, AskOwner
  <2>4. ASSUME OwnerFails \/ LoseMeta \/ Tick \/ ChangeClock \/ UNCHANGED logVars PROVE lock' = lock
    BY <2>4 DEF OwnerFails, LoseMeta, Tick, ChangeClock, logVars
  <2> QED BY <2>1, <2>2, <2>3, <2>4 DEF LogNext, WriterStep, Begins
<1>2. ~Present(f[1], r)
  <2> SUFFICES ASSUME NEW g \in FilesOf(disk, f[1]), r \in Readable(disk[g]) PROVE FALSE
    BY DEF Present
  <2>1. g \in FilesOf(disk', f[1]) /\ r \in Shown(disk'[g])
    BY <1>1, ShownIsReadable
  <2> QED BY <2>1 DEF ShownAfter
<1>3. Accounted(f, r)
  BY <1>0, <1>2 DEF Explained
<1>4. f[1] = SourceOf[lock.by] /\ lock.by \in Procs /\ f[1] \in Sources
  BY <1>0, <1>3, SourceTyped DEF Accounted, LogTyped, Locks
<1> SUFFICES ASSUME meta' = lock.meta, ~(lock.op = "maintain" /\ f \in left'.pass) PROVE LeavesTold(f, r)
  BY <1>4 DEF LeavesTold
<1>5. CASE lock.op = "clear"
  <2> DEFINE m == meta'
  <2>1. m.top = made.gens /\ m.src[f[1]].gen = made.gens
    BY <1>0, <1>4, <1>5 DEF SectionKnown
  <2> HIDE DEF m
  <2>2. Generation(m)[f[1]] = m.top
    BY <1>4, <2>1, GenerationOf
  <2> QED BY <1>5, <2>2 DEF LeavesTold, m
<1>6. CASE lock.meta.src[f[1]].evicted /\ (f[1] \in missed \/ Newest(f[1], r))
  <2>1. Truncated(disk', meta', f[1])
    BY <1>6 DEF Truncated
  <2>2. ASSUME Newest(f[1], r), NEW g \in FilesOf(disk', f[1]) \ left'.pass, NEW q \in Shown(disk'[g])
        PROVE  q.id > r.id
    <3>1. q \in Readable(disk[g]) /\ Kept(q) /\ g \in FilesOf(disk, f[1]) \ left.pass
      BY <1>1, ShownIsReadable
    <3>2. ~Half(q)
      BY <3>1 DEF Kept, Corrupt
    <3> QED BY <2>2, <3>1, <3>2 DEF Newest
  <2> QED BY <1>6, <2>1, <2>2 DEF LeavesTold
<1> QED BY <1>1, <1>3, <1>5, <1>6 DEF Accounted

(* What a page showed leaves it through a section of its own source only,  *)
(* and after the section's end the page tells: a new generation, or        *)
(* truncated, the oldest first (compact_file, prune_locked,                *)
(* ConsoleLogWriter::clear; read_recent).                                  *)
THEOREM LeavingIsExplained == LogSpec => NothingLeavesUnexplained
<1>1. LogExplained /\ [LogNext]_logVars =>
       /\ lock.by = NoProc /\ lock'.by = NoProc /\ clock' = clock =>
             \A f \in DOMAIN disk : Shown(disk[f]) \subseteq ShownAfter(f[1])
       /\ lock.by # NoProc /\ lock'.by = NoProc =>
             \A f \in DOMAIN lock.was : \A r \in lock.was[f] \ ShownAfter(f[1]) :
                Kept(r) => f[1] = SourceOf[lock.by] /\ LeavesTold(f, r)
       /\ meta' # meta /\ meta' # BlankMeta =>
            (Generation(meta') # Generation(meta) <=>
               lock.by # NoProc /\ lock.op = "clear" /\ meta' = lock.meta /\ lock'.by = NoProc)
  <2> SUFFICES ASSUME LogExplained, [LogNext]_logVars
               PROVE  /\ lock.by = NoProc /\ lock'.by = NoProc /\ clock' = clock =>
                           \A f \in DOMAIN disk : Shown(disk[f]) \subseteq ShownAfter(f[1])
                      /\ lock.by # NoProc /\ lock'.by = NoProc =>
                           \A f \in DOMAIN lock.was : \A r \in lock.was[f] \ ShownAfter(f[1]) :
                              Kept(r) => f[1] = SourceOf[lock.by] /\ LeavesTold(f, r)
                      /\ meta' # meta /\ meta' # BlankMeta =>
                           (Generation(meta') # Generation(meta) <=>
                              lock.by # NoProc /\ lock.op = "clear" /\ meta' = lock.meta /\ lock'.by = NoProc)
    OBVIOUS
  <2>1. LogBase /\ LogInOrder
    BY DEF LogExplained, LogInOrder, LogForgets
  <2>2. lock.by = NoProc /\ lock'.by = NoProc =>
          \A f \in DOMAIN disk : Shown(disk[f]) \subseteq ShownAfter(f[1])
    BY <2>1, NothingLeavesOutside
  <2>3. lock.by # NoProc /\ lock'.by = NoProc =>
          \A f \in DOMAIN lock.was : \A r \in lock.was[f] \ ShownAfter(f[1]) :
             Kept(r) => f[1] = SourceOf[lock.by] /\ LeavesTold(f, r)
    BY EndsExplained
  <2>4. meta' # meta /\ meta' # BlankMeta =>
          (Generation(meta') # Generation(meta) <=>
             lock.by # NoProc /\ lock.op = "clear" /\ meta' = lock.meta /\ lock'.by = NoProc)
    BY <2>1, GenerationStep
  <2> QED BY <2>2, <2>3, <2>4
<1> QED BY <1>1, ExplainedInductive, PTL DEF LogSpec, NothingLeavesUnexplained

----------------------------------------------------------------------------
(* A writer that rests leaves its source tidy. *)

LEMMA ClockTicks ==
    ASSUME LogTyped
    PROVE  /\ clock.utc \in Nat /\ clock.offset \in Nat /\ RetentionDays \in Nat \ {0}
           /\ LocalDay(clock.utc) \in Int
           /\ \A t \in Nat : LocalDay(t) \in Int
<1>1. clock.utc \in 0..MaxTime /\ clock.offset \in Offsets
  BY DEF LogTyped, ClockTyped
<1>2. clock.utc \in Nat
  BY <1>1, BoundsTyped
<1>4. clock.offset \in Nat
  BY <1>1, BoundsTyped
<1>3. RetentionDays \in Nat \ {0}
  BY LogConstants DEF LogConstants
<1> QED BY <1>2, <1>3, <1>4 DEF LocalDay

(* What waits to be written has not expired.                               *)
LEMMA ClockStands == clock' = clock => \A r : Expired(r)' <=> Expired(r)
BY DEF Expired, Corrupt, LocalDay, Half, Torn, Spoiled, Garbled

LEMMA StillPrompt ==
    ASSUME Prompt, AllStill, clock' = clock
    PROVE  Prompt'
<1> SUFFICES ASSUME NEW p \in Procs,
                    NEW r \in {proc'[p].hand} \cup {queue'[p][n] : n \in DOMAIN queue'[p]}, r.id > 0
             PROVE  ~ Expired(r)'
  BY DEF Prompt
<1>1. AtRest(p)
  BY DEF AllStill
<1>2. Torn.id = 0 /\ DOMAIN <<>> = {} /\ ~(0 > 0)
  BY DEF Torn
<1>3. r \in {proc[p].hand} \cup {queue[p][n] : n \in DOMAIN queue[p]}
  BY <1>1, <1>2 DEF AtRest
<1> QED BY <1>3, ClockStands DEF Prompt

LEMMA PromptKept ==
    ASSUME LogForgets, LogTyped', Prompt, [LogNext]_logVars
    PROVE  Prompt'
<1>0. /\ LogTyped /\ made.records \in Nat /\ made.clears \in Nat
      /\ queue \in [Procs -> Seq(RecordSet)] /\ proc \in [Procs -> Writers]
  BY RecordNumbers DEF LogForgets, LogBase, LogTyped
<1>1. ASSUME Tick \/ ChangeClock PROVE Prompt'
  BY <1>1 DEF Tick, ChangeClock
<1>2. ASSUME NEW p \in Procs, Begins(p) \/ Commit(p) PROVE Prompt'
  <2>1. AllStill
    BY <1>2, BeginningForgets, CommittingForgets
  <2>2. clock' = clock
    <3>1. CASE Begins(p)
      BY <1>0, <3>1, SectionSaysSo DEF LogForgets, SectionSays, SectionBegins
    <3>2. CASE Commit(p)
      BY <3>2 DEF Commit
    <3> QED BY <1>2, <3>1, <3>2
  <2> QED BY <2>1, <2>2, StillPrompt
<1>3. ASSUME \/ \E p \in Procs : CommitFails(p) \/ SectionFails(p) \/ IdleTimeout(p) \/ Crash(p)
             \/ OwnerFails \/ LoseMeta \/ UNCHANGED logVars
      PROVE  Prompt'
  <2>1. AllStill
    BY <1>3, QuietlyForgets
  <2>2. clock' = clock
    BY <1>3 DEF CommitFails, SectionFails, IdleTimeout, Crash, OwnerFails, LoseMeta, logVars
  <2> QED BY <2>1, <2>2, StillPrompt
(* What one process has waiting changes, and no clock.                     *)
<1>a. ASSUME NEW p \in Procs, clock' = clock,
             \A q \in Procs \ {p} : proc'[q] = proc[q] /\ queue'[q] = queue[q],
             \A r \in {proc'[p].hand} \cup {queue'[p][n] : n \in DOMAIN queue'[p]} :
               \/ r \in {proc[p].hand} \cup {queue[p][n] : n \in DOMAIN queue[p]}
               \/ r.id > 0 => ~ Expired(r)
      PROVE  Prompt'
  <2> SUFFICES ASSUME NEW q \in Procs,
                      NEW r \in {proc'[q].hand} \cup {queue'[q][n] : n \in DOMAIN queue'[q]}, r.id > 0
               PROVE  ~ Expired(r)
    BY <1>a, ClockStands DEF Prompt
  <2>1. CASE q # p
    BY <1>a, <2>1 DEF Prompt
  <2>2. CASE q = p
    BY <1>a, <2>2 DEF Prompt
  <2> QED BY <2>1, <2>2
<1>4. ASSUME NEW p \in Procs, Take(p) PROVE Prompt'
  <2>1. /\ clock' = clock /\ queue' = [queue EXCEPT ![p] = Tail(@)]
        /\ queue[p] \in Seq(RecordSet) /\ queue[p] # <<>>
    BY <1>0, <1>4 DEF Take
  <2>2. OnlyWriter(p) /\ proc'[p].hand = Head(queue[p])
    BY <1>0, <1>4, TakeWriter
  <2>3. queue'[p] = Tail(queue[p]) /\ \A q \in Procs \ {p} : queue'[q] = queue[q]
    BY <1>0, <2>1
  <2>4. \A r \in {proc'[p].hand} \cup {queue'[p][n] : n \in DOMAIN queue'[p]} :
           r \in {queue[p][n] : n \in DOMAIN queue[p]}
    BY <2>1, <2>2, <2>3, QueueElements
  <2> QED BY <1>a, <2>1, <2>2, <2>3, <2>4 DEF OnlyWriter
<1>5. ASSUME NEW p \in Procs, Write(p) \/ WriteFails(p) PROVE Prompt'
  <2>1. clock' = clock /\ queue' = queue
    BY <1>5 DEF Write, WriteFails
  <2>2. OnlyWriter(p) /\ proc'[p].hand = Torn /\ ~(Torn.id > 0)
    BY <1>0, <1>5, WriteWriter DEF Torn
  <2> QED BY <1>a, <2>1, <2>2 DEF OnlyWriter
<1>6. ASSUME NEW p \in Procs, Record(p) \/ AskOwner(p) \/ RequestClear(p) PROVE Prompt'
  <2>1. clock' = clock /\ proc' = proc
    BY <1>6 DEF Record, AskOwner, RequestClear
  <2>2. ASSUME NEW r \in RecordSet, Enqueues(p, r), r.id > 0 => ~ Expired(r)
        PROVE  Prompt'
    <3>1. queue'[p] = Append(queue[p], r) /\ queue[p] \in Seq(RecordSet)
          /\ \A q \in Procs \ {p} : queue'[q] = queue[q]
      BY <1>0, <2>2 DEF Enqueues
    <3>2. \A x \in {queue'[p][n] : n \in DOMAIN queue'[p]} :
            x = r \/ x \in {queue[p][n] : n \in DOMAIN queue[p]}
      BY <3>1, QueueElements
    <3> QED BY <1>a, <2>1, <2>2, <3>1, <3>2
  <2>3. CASE queue' = queue
    BY <1>a, <2>1, <2>3
  <2>4. ASSUME NEW big \in BOOLEAN, Record(p), queue' # queue, Enqueues(p, NewRecord(big))
        PROVE  Prompt'
    <3>1. NewRecord(big) \in RecordSet
      BY <1>0, <2>4, NewRecordTyped DEF Record
    <3>2. ~ Expired(NewRecord(big))
      <4>1. NewRecord(big).t = clock.utc
        BY DEF NewRecord
      <4>2. LocalDay(clock.utc) \in Int /\ RetentionDays \in Nat \ {0}
        BY <1>0, ClockTicks
      <4> QED BY <4>1, <4>2 DEF Expired
    <3> QED BY <2>2, <2>4, <3>1, <3>2
  <2>5. ASSUME AskOwner(p) PROVE Prompt'
    <3>1. ClearCommand \in RecordSet /\ ~(ClearCommand.id > 0)
      BY <1>0, ClearCommandTyped DEF LogTyped, ClearCommand
    <3> QED BY <2>2, <2>5, <3>1 DEF AskOwner, Enqueues
  <2>6. Record(p) => queue' = queue \/ \E big \in BOOLEAN : Enqueues(p, NewRecord(big))
    BY DEF Record, Enqueues, NewRecord
  <2>7. RequestClear(p) => queue' = queue
    BY DEF RequestClear
  <2> QED BY <1>6, <2>3, <2>4, <2>5, <2>6, <2>7
<1> QED BY <1>1, <1>2, <1>3, <1>4, <1>5, <1>6 DEF LogNext, WriterStep, Begins

(* A record in hand has a number.                                          *)
HandsNumbered == \A p \in Procs : proc[p].pc \in {"due", "append"} => proc[p].hand.id > 0

LEMMA HandsStayNumbered ==
    ASSUME LogForgets, LogTyped', AllOrdered, HandsNumbered, [LogNext]_logVars
    PROVE  HandsNumbered'
<1>0. LogTyped
  BY DEF LogForgets, LogBase
<1>1. ASSUME AllStill PROVE HandsNumbered'
  BY <1>1 DEF AllStill, AtRest, HandsNumbered
<1>2. ASSUME NEW p \in Procs, Begins(p) \/ Commit(p) PROVE HandsNumbered'
  BY <1>1, <1>2, BeginningForgets, CommittingForgets
<1>3. ASSUME \/ \E p \in Procs : CommitFails(p) \/ SectionFails(p) \/ IdleTimeout(p) \/ Crash(p)
             \/ OwnerFails \/ LoseMeta \/ Tick \/ ChangeClock \/ UNCHANGED logVars
      PROVE  HandsNumbered'
  BY <1>1, <1>3, QuietlyForgets
<1>4. ASSUME NEW p \in Procs, Take(p) PROVE HandsNumbered'
  <2>1. /\ OnlyWriter(p) /\ proc'[p].hand = Head(queue[p])
        /\ proc'[p].pc = IF Head(queue[p]).id = -1 THEN "clear" ELSE IF Due(p) THEN "due" ELSE "append"
    BY <1>0, <1>4, TakeWriter
  <2>2. queue[p] \in Seq(RecordSet) /\ queue[p] # <<>>
    BY <1>0, <1>4 DEF LogTyped, Take
  <2>3. 1 \in DOMAIN queue[p] /\ Head(queue[p]) = queue[p][1]
    BY <2>2, QueueElements
  <2>4. queue[p][1].id # -1 => queue[p][1].id > 0
    <3> SUFFICES ASSUME queue[p][1].id # -1 PROVE queue[p][1].id > 0
      OBVIOUS
    <3>1. 1 \in Queued(p)
      BY <2>3 DEF Queued
    <3>2. 0 < queue[p][1].id
      BY <3>1 DEF AllOrdered, Ordered
    <3>3. queue[p][1].id \in Int
      BY <1>0, <2>3, RecordNumbers
    <3> QED BY <3>2, <3>3
  <2>5. proc'[p].pc \in {"due", "append"} => proc'[p].hand.id > 0
    BY <2>1, <2>3, <2>4
  <2> QED BY <2>1, <2>5 DEF HandsNumbered, OnlyWriter
<1>5. ASSUME NEW p \in Procs, Write(p) \/ WriteFails(p) PROVE HandsNumbered'
  <2>1. OnlyWriter(p) /\ proc'[p].pc \in {"count", "idle"}
    BY <1>0, <1>5, WriteWriter
  <2> QED BY <2>1 DEF HandsNumbered, OnlyWriter
<1>6. ASSUME NEW p \in Procs, Record(p) \/ AskOwner(p) \/ RequestClear(p) PROVE HandsNumbered'
  BY <1>6 DEF Record, AskOwner, RequestClear, HandsNumbered
<1> QED BY <1>2, <1>3, <1>4, <1>5, <1>6 DEF LogNext, WriterStep, Begins

(* The budget, and what a pass has looked at: what it left behind is       *)
(* neither within the one nor covered by the other.                        *)
Passing(p) == lock.by = p /\ lock.op = "maintain"
Covered(w, r) == Half(r) \/ (r.t + w.offset) \div 2 > w.day - RetentionDays
WithinBudget(p) ==
    LET F == FilesOf(disk, SourceOf[p])
        closed == F \ {proc[p].file}
    IN  \/ Cardinality(F) <= MaxFiles /\ Size(disk, closed) <= SourceCap
        \/ closed \subseteq left.pass
Tidy(p) ==
    /\ (proc[p].window # <<>> \/ Passing(p)) /\ proc[p].file # NoFile => WithinBudget(p)
    /\ Passing(p) => \A r \in Remaining(disk, left.pass, SourceOf[p]) : Covered(lock.window, r)
    /\ proc[p].window # <<>> /\ SourceOf[p] \notin overdue /\ ~Passing(p) =>
         \A r \in Remaining(disk, left.pass, SourceOf[p]) : Covered(proc[p].window, r)
    /\ proc[p].file # NoFile /\ proc[p].file \in DOMAIN disk /\ proc[p].bytes = 0 =>
         \A r \in LinesIn(disk, proc[p].file) : Half(r)
AllTidy == \A p \in Procs : Tidy(p)

(* What a step of p leaves of the files of the others.                     *)
Untouched(s) ==
    /\ FilesOf(disk', s) = FilesOf(disk, s)
    /\ \A f \in FilesOf(disk, s) : disk'[f] = disk[f] /\ (f \in left'.pass <=> f \in left.pass)

LEMMA UntouchedLines ==
    ASSUME NEW s, Untouched(s)
    PROVE  /\ Remaining(disk', left'.pass, s) = Remaining(disk, left.pass, s)
           /\ \A f : Size(disk', FilesOf(disk', s) \ {f}) = Size(disk, FilesOf(disk, s) \ {f})
<1>1. FilesOf(disk', s) = FilesOf(disk, s)
  BY DEF Untouched
<1>2. \A f \in FilesOf(disk, s) : disk'[f] = disk[f] /\ (f \in left'.pass <=> f \in left.pass)
  BY DEF Untouched
<1>3. \A f \in FilesOf(disk, s) : f \in DOMAIN disk /\ f[1] = s /\ f \in DOMAIN disk'
  BY <1>1 DEF FilesOf
<1>4. FilesOf(disk', s) \ left'.pass = FilesOf(disk, s) \ left.pass
  BY <1>1, <1>2
<1>5. \A f \in FilesOf(disk, s) : LinesIn(disk', f) = LinesIn(disk, f)
  BY <1>2 DEF LinesIn
<1>6. Remaining(disk', left'.pass, s) = Remaining(disk, left.pass, s)
  BY <1>4, <1>5 DEF Remaining
<1>7. \A f : Size(disk', FilesOf(disk', s) \ {f}) = Size(disk, FilesOf(disk, s) \ {f})
  BY <1>1, <1>2 DEF Size
<1> QED BY <1>6, <1>7

(* The writer a pass goes on with: it keeps its window, and one that gave  *)
(* up its file has a new one.                                              *)
PassRecorded(p, from) ==
    /\ proc'[p].window = from.window /\ lock'.window = Window
    /\ from.file = NoFile => NewFile(p, proc'[p].file, meta, disk)

LEMMA PassRecord ==
    ASSUME LogTyped, NEW p \in Procs, NEW op \in Ops, NEW from \in Writers, NEW ttl \in BOOLEAN,
           from.pc = proc[p].pc, from.hand = proc[p].hand, from.file \in {proc[p].file, NoFile},
           Housekeep(p, op, from, ttl)
    PROVE  PassRecorded(p, from)
<1> DEFINE s == SourceOf[p]
           w == LoadMeta(from, meta, s)
           a == Equipment(p, from)
<1>1. s \in Sources /\ meta \in Metas /\ IsDisk(disk) /\ proc \in [Procs -> Writers]
  BY DEF LogTyped
<1>2. meta.src[s] \in SourceMetas
  BY <1>1 DEF Metas
<1>3. w \in Writers /\ w.window = from.window /\ w.file = from.file
  BY <1>2 DEF LoadMeta, Writers, SourceMetas
<1> HIDE DEF w
<1>4. /\ a.w \in Writers /\ a.w.window = from.window
      /\ from.file = NoFile => NewFile(p, a.w.file, meta, disk)
  <2>1. CASE from.file = NoFile
    <3>1. a = FileAllocated(p, w, meta, disk)
      BY <2>1 DEF Equipment, w
    <3>2. PICK f \in FileNames : Allocates(p, w, meta, disk, f, a)
      BY <1>1, <1>3, <3>1, Allocation
    <3> HIDE DEF a
    <3>3. a.w = [w EXCEPT !.file = f, !.bytes = 0] /\ a.w \in Writers /\ NewFile(p, f, meta, disk)
      BY <3>2 DEF Allocates
    <3>4. a.w.file = f /\ a.w.window = from.window
      BY <1>3, <3>3 DEF Writers
    <3> QED BY <3>3, <3>4
  <2>2. CASE from.file # NoFile
    <3>1. a.w = w
      BY <2>2 DEF Equipment, w
    <3> HIDE DEF a
    <3> QED BY <1>3, <2>2, <3>1
  <2> QED BY <2>1, <2>2
<1>5. IsDisk(a.d)
  BY PassHasAFile DEF Equips
<1>6. Chosen(p, op, ttl, a)
  BY <1>5, HousekeepPicks
<1>7. PICK reach, stuck, T : PicksOf(p, op, ttl, a, FilesOf(a.d, s) \ {a.w.file}, reach, stuck, T)
  BY <1>6 DEF Chosen
<1>8. \E e \in BOOLEAN : \E m, d : Section(p, op, m, d, [a.w EXCEPT !.evicted = e])
  <2> DEFINE d == IF ttl THEN Compact(a.d, FilesOf(a.d, s) \ {a.w.file}, reach) ELSE a.d
             V == T \ stuck
             evicted == a.w.evicted \/ V # {}
             m == [a.m EXCEPT !.src[s].evicted = evicted]
             d2 == Without(d, V)
  <2>1. Section(p, op, m, d2, [a.w EXCEPT !.evicted = evicted])
    <3> HIDE DEF a
    <3> QED BY <1>7 DEF PicksOf
  <2>2. evicted \in BOOLEAN
    BY <1>4 DEF Writers
  <2> HIDE DEF a, evicted, m, d2
  <2> QED BY <2>1, <2>2
<1> HIDE DEF a
<1>9. PICK e \in BOOLEAN : \E m, d : Section(p, op, m, d, [a.w EXCEPT !.evicted = e])
  BY <1>8
<1> DEFINE w2 == [a.w EXCEPT !.evicted = e]
<1>10. w2.window = from.window /\ w2.file = a.w.file
  BY <1>4 DEF Writers
<1>11. \E m, d : Section(p, op, m, d, w2)
  BY <1>9
<1> HIDE DEF w2
<1>12. proc'[p] = w2 /\ lock'.window = Window
  BY <1>1, <1>11 DEF Section
<1> QED BY <1>4, <1>10, <1>12 DEF PassRecorded

(* What a section of p leaves behind.                                      *)
LeavesTidy(p, op) ==
    /\ lock'.by = p /\ lock'.op = op
    /\ \A q \in Procs \ {p} : proc'[q] = proc[q]
    /\ \A s \in Sources \ {SourceOf[p]} : Untouched(s)
    /\ WithinBudget(p)'
    /\ proc'[p].file # NoFile /\ proc'[p].file \in DOMAIN disk' =>
         \A r \in LinesIn(disk', proc'[p].file) : Half(r)

LEMMA PassTidies ==
    ASSUME LogTyped, FilesOwned, NEW p \in Procs, NEW op, NEW V, NEW ttl \in BOOLEAN,
           SectionBegins(p, op), HousekeepDoes(p, V, ttl), Tidy(p),
           proc[p].bytes = 0 \/ NewFile(p, proc'[p].file, meta, disk)
    PROVE  /\ LeavesTidy(p, op)
           /\ proc'[p].file \in DOMAIN disk' => \A r \in LinesIn(disk', proc'[p].file) : Half(r)
<1> DEFINE s == SourceOf[p]
           f == proc'[p].file
<1>1. /\ f \in FileNames
      /\ \/ f = proc[p].file /\ f # NoFile /\ DOMAIN disk' \subseteq DOMAIN disk
         \/ /\ NewFile(p, f, meta, disk) /\ DOMAIN disk' \subseteq DOMAIN disk \cup {f}
            /\ f \in DOMAIN disk' => disk'[f] = <<>>
  BY DEF HousekeepDoes, PassLeaves
<1>2. f[1] = s
  BY <1>1 DEF FilesOwned, NewFile
<1>3. WithinBudget(p)'
  BY DEF HousekeepDoes, PassLimits, WithinBudget
<1>4. \A g \in DOMAIN disk : g[1] # s \/ g = f => g \in DOMAIN disk' /\ disk'[g] = disk[g]
  BY DEF HousekeepDoes, PassLimits
<1>5. ASSUME NEW t \in Sources \ {s} PROVE Untouched(t)
  <2>1. \A g \in FilesOf(disk', t) : g \in FilesOf(disk, t)
    BY <1>1, <1>2 DEF FilesOf
  <2>2. \A g \in FilesOf(disk, t) : g \in FilesOf(disk', t) /\ disk'[g] = disk[g]
    BY <1>4 DEF FilesOf
  <2>3. ASSUME NEW g \in FilesOf(disk, t) PROVE g \in left'.pass <=> g \in left.pass
    <3>1. g[1] = t /\ g[1] # s /\ g # f
      BY <1>2, <2>3 DEF FilesOf
    <3>2. g \in left'.pass => g \in FilesOf(disk, s) \/ g \in left.pass
      BY DEF HousekeepDoes, LeavesBehind
    <3>3. g \in left.pass => g \in left'.pass
      BY <3>1 DEF HousekeepDoes, LeavesBehind
    <3> QED BY <3>1, <3>2, <3>3 DEF FilesOf
  <2> QED BY <2>1, <2>2, <2>3 DEF Untouched
<1>6. ASSUME f \in DOMAIN disk', NEW r \in LinesIn(disk', f) PROVE Half(r)
  <2>1. CASE f \in DOMAIN disk
    <3>1. proc[p].bytes = 0 /\ f = proc[p].file /\ f # NoFile
      BY <1>1, <2>1 DEF NewFile
    <3>2. disk'[f] = disk[f]
      BY <1>4, <2>1
    <3>3. LinesIn(disk', f) = LinesIn(disk, f)
      BY <3>2 DEF LinesIn
    <3> QED BY <1>6, <2>1, <3>1, <3>3 DEF Tidy
  <2>2. CASE f \notin DOMAIN disk
    <3>1. disk'[f] = <<>>
      BY <1>1, <1>6, <2>2
    <3> QED BY <1>6, <3>1 DEF LinesIn
  <2> QED BY <2>1, <2>2
<1>7. lock'.by = p /\ lock'.op = op /\ \A q \in Procs \ {p} : proc'[q] = proc[q]
  BY DEF SectionBegins
<1> HIDE DEF f, s
<1> QED BY <1>3, <1>5, <1>6, <1>7 DEF LeavesTidy, f, s

LEMMA RemainingTyped ==
    ASSUME NEW d, IsDisk(d), NEW kept, NEW s, NEW r \in Remaining(d, kept, s)
    PROVE  r \in RecordSet /\ r.t \in Nat
<1>1. PICK f \in DOMAIN d : f[1] = s /\ r \in LinesIn(d, f)
  BY StoredLines
<1>2. d[f] \in Seq(RecordSet)
  BY DEF IsDisk
<1>3. r \in RecordSet
  BY <1>1, <1>2 DEF LinesIn
<1> QED BY <1>3, BoundsTyped DEF RecordSet

LEMMA KeptIsCovered ==
    ASSUME LogTyped, NEW r, r.t \in Nat, Kept(r) PROVE Covered(Window, r)
<1>1. LocalDay(r.t) \in Int /\ LocalDay(clock.utc) \in Int /\ RetentionDays \in Nat
  BY ClockTicks
<1>2. ~(LocalDay(r.t) <= LocalDay(clock.utc) - RetentionDays)
  BY DEF Kept, Expired
<1>3. LocalDay(r.t) > LocalDay(clock.utc) - RetentionDays
  BY <1>1, <1>2
<1> QED BY <1>3 DEF Covered, Window, LocalDay

LEMMA MaintainTidies ==
    ASSUME LogForgets, LogTyped', NEW p \in Procs, Tidy(p), Maintain(p)
    PROVE  /\ LeavesTidy(p, "maintain")
           /\ \A r \in Remaining(disk', left'.pass, SourceOf[p]) : Covered(lock'.window, r)
<1> DEFINE s == SourceOf[p]
           w == proc[p]
           v == [w EXCEPT !.file = NoFile, !.bytes = 0]
           from == IF w.bytes > 0 THEN v ELSE w
<1>0. LogTyped /\ FilesOwned /\ w \in Writers
  BY DEF LogForgets, LogBase, Forgetting, LogTyped
<1>1. w.bytes \in Nat
  BY <1>0 DEF Writers
<1>2. v \in Writers /\ v.pc = w.pc /\ v.hand = w.hand /\ v.file = NoFile
  BY <1>0 DEF Writers
<1>3. Housekeep(p, "maintain", from, TRUE)
  BY DEF Maintain
<1> HIDE DEF v
<1>4. /\ from \in Writers /\ from.pc = w.pc /\ from.hand = w.hand /\ from.file \in {w.file, NoFile}
      /\ w.bytes = 0 \/ from.file = NoFile
  BY <1>0, <1>1, <1>2
<1> HIDE DEF from
<1>5. PassRecorded(p, from)
  BY <1>0, <1>3, <1>4, PassRecord DEF Ops
<1>6. lock'.window = Window /\ (w.bytes = 0 \/ NewFile(p, proc'[p].file, meta, disk))
  BY <1>4, <1>5 DEF PassRecorded
<1>7. SectionBegins(p, "maintain") /\ \E V : HousekeepDoes(p, V, TRUE)
  BY <1>0, MaintainSection
<1>8. PICK V : HousekeepDoes(p, V, TRUE)
  BY <1>7
<1>9. /\ LeavesTidy(p, "maintain")
      /\ proc'[p].file \in DOMAIN disk' => \A r \in LinesIn(disk', proc'[p].file) : Half(r)
  BY <1>0, <1>6, <1>7, <1>8, PassTidies
<1>10. ASSUME NEW r \in Remaining(disk', left'.pass, s) PROVE Covered(Window, r)
  <2>1. PICK g \in DOMAIN disk' : g[1] = s /\ g \notin left'.pass /\ r \in LinesIn(disk', g)
    BY StoredLines
  <2>2. r.t \in Nat
    BY RemainingTyped DEF LogTyped
  <2>3. CASE g # proc'[p].file
    <3>1. g \in FilesOf(disk', s) \ {proc'[p].file}
      BY <2>1, <2>3 DEF FilesOf
    <3>2. Kept(r)
      BY <1>8, <2>1, <3>1 DEF HousekeepDoes, PassLimits
    <3> QED BY <1>0, <2>2, <3>2, KeptIsCovered
  <2>4. CASE g = proc'[p].file
    <3>1. Half(r)
      BY <1>9, <2>1, <2>4
    <3> QED BY <3>1 DEF Covered
  <2> QED BY <2>3, <2>4
<1> QED BY <1>6, <1>9, <1>10

LEMMA RotateTidies ==
    ASSUME LogForgets, LogTyped', NEW p \in Procs, Tidy(p), Rotate(p)
    PROVE  /\ LeavesTidy(p, "rotate") /\ proc'[p].window = proc[p].window
           /\ Remaining(disk', left'.pass, SourceOf[p]) \subseteq Remaining(disk, left.pass, SourceOf[p])
<1> DEFINE s == SourceOf[p]
           w == proc[p]
           from == [w EXCEPT !.file = NoFile]
<1>0. LogTyped /\ FilesOwned /\ w \in Writers
  BY DEF LogForgets, LogBase, Forgetting, LogTyped
<1>1. /\ from \in Writers /\ from.pc = w.pc /\ from.hand = w.hand /\ from.file = NoFile
      /\ from.window = w.window
  BY <1>0 DEF Writers
<1>2. Housekeep(p, "rotate", from, FALSE)
  BY DEF Rotate
<1> HIDE DEF from
<1>3. PassRecorded(p, from)
  BY <1>0, <1>1, <1>2, PassRecord DEF Ops
<1>4. proc'[p].window = w.window /\ NewFile(p, proc'[p].file, meta, disk)
  BY <1>1, <1>3 DEF PassRecorded
<1>5. SectionBegins(p, "rotate") /\ \E V : HousekeepDoes(p, V, FALSE)
  BY <1>0, RotateSection
<1>6. PICK V : HousekeepDoes(p, V, FALSE)
  BY <1>5
<1>7. LeavesTidy(p, "rotate")
  BY <1>0, <1>4, <1>5, <1>6, PassTidies
<1>8. ASSUME NEW r \in Remaining(disk', left'.pass, s) PROVE r \in Remaining(disk, left.pass, s)
  <2> DEFINE f == proc'[p].file
  <2>1. PICK g \in DOMAIN disk' : g[1] = s /\ g \notin left'.pass /\ r \in LinesIn(disk', g)
    BY StoredLines
  <2>2. /\ f \notin DOMAIN disk
        /\ DOMAIN disk' \subseteq DOMAIN disk \cup {f}
        /\ f \in DOMAIN disk' => f \in DOMAIN disk \/ disk'[f] = <<>>
        /\ \A h \in DOMAIN disk' \cap DOMAIN disk : LinesIn(disk', h) \subseteq LinesIn(disk, h)
    BY <1>4, <1>6 DEF HousekeepDoes, PassLeaves, NewFile
  <2>3. g # f
    BY <2>1, <2>2 DEF LinesIn
  <2>4. g \notin left.pass
    BY <1>6, <2>1, <2>3 DEF HousekeepDoes, LeavesBehind
  <2> HIDE DEF f
  <2> QED BY <2>1, <2>2, <2>3, <2>4, StoredLines
<1> QED BY <1>4, <1>7, <1>8

LEMMA OpenTidies ==
    ASSUME LogForgets, NEW p \in Procs, Open(p)
    PROVE  /\ lock'.by = p /\ lock'.op = "open" /\ proc'[p].window = <<>>
           /\ \A q \in Procs \ {p} : proc'[q] = proc[q]
           /\ \A s \in Sources \ {SourceOf[p]} : Untouched(s)
           /\ proc'[p].file \in DOMAIN disk' => \A r \in LinesIn(disk', proc'[p].file) : Half(r)
<1> DEFINE s == SourceOf[p]
           w == LoadMeta([Idle EXCEPT !.epoch = epochs + 1], meta, s)
           a == FileAllocated(p, w, meta, disk)
<1>0. LogTyped /\ IsDisk(disk) /\ left \in [pass : SUBSET FileNames, clear : SUBSET FileNames]
  BY DEF LogForgets, LogBase, LogTyped
<1>1. SectionBegins(p, "open") /\ OpenDoes(p)
  BY <1>0, OpenSection
<1>2. PICK f \in FileNames :
        /\ NewFile(p, f, meta, disk) /\ disk' = WithFile(disk, f)
        /\ proc'[p].file = f /\ left' = [left EXCEPT !.pass = left.pass \ {f}]
  BY <1>1 DEF OpenDoes
<1>3. f \notin DOMAIN disk /\ f[1] = s /\ left'.pass = left.pass \ {f}
  BY <1>0, <1>2 DEF NewFile
<1>4. /\ DOMAIN disk' = DOMAIN disk \cup {f} /\ disk'[f] = <<>>
      /\ \A g \in DOMAIN disk : disk'[g] = disk[g]
  BY <1>0, <1>2, <1>3, AddedToDisk
<1>5. LinesIn(disk', f) = {}
  BY <1>4 DEF LinesIn
<1>6. \A t \in Sources \ {s} : Untouched(t)
  BY <1>3, <1>4 DEF Untouched, FilesOf
<1>7. a.w.window = <<>>
  <2>0. meta.src[s] \in SourceMetas /\ epochs + 1 \in Nat
    BY <1>0 DEF LogTyped, Metas
  <2> DEFINE v == [Idle EXCEPT !.epoch = epochs + 1]
  <2>1. v \in Writers
    BY <2>0, IdleIsWriter DEF Writers
  <2>2. v.window = <<>>
    BY DEF Idle
  <2> HIDE DEF v
  <2>3. w = LoadMeta(v, meta, s)
    BY DEF v
  <2>4. w \in Writers /\ w.window = <<>>
    BY <2>0, <2>1, <2>2, <2>3 DEF LoadMeta, Writers, SourceMetas
  <2> HIDE DEF w
  <2>5. a.w = [w EXCEPT !.file = <<s, w.epoch, FreeIndex(disk, s, w.epoch, meta.src[s].next)>>, !.bytes = 0]
    BY DEF FileAllocated
  <2> QED BY <2>4, <2>5 DEF Writers
<1>8. proc'[p] = a.w
  BY <1>0 DEF Open, Section, LogTyped
<1> QED BY <1>1, <1>2, <1>5, <1>6, <1>7, <1>8 DEF SectionBegins

(* After a clear the source has what could not be deleted, and a new file. *)
LEMMA ClearTidies ==
    ASSUME LogForgets, NEW p \in Procs, Clear(p)
    PROVE  /\ LeavesTidy(p, "clear") /\ Remaining(disk', left'.pass, SourceOf[p]) = {}
           /\ overdue' = overdue \ {SourceOf[p]}
<1> DEFINE s == SourceOf[p]
           f == proc'[p].file
<1>0. LogTyped /\ IsDisk(disk)
  BY DEF LogForgets, LogBase, LogTyped
<1>1. SectionBegins(p, "clear") /\ ClearDoes(p)
  BY <1>0, ClearSection
<1>2. PICK stay \in SUBSET FilesOf(disk, s) :
        /\ Empties(p, Without(disk, FilesOf(disk, s) \ stay))
        /\ left' = [pass  |-> OfOthers(left.pass, s) \cup stay,
                    clear |-> OfOthers(left.clear, s) \cup stay]
  BY <1>1 DEF ClearDoes
<1> DEFINE d == Without(disk, FilesOf(disk, s) \ stay)
<1>3. left'.pass = OfOthers(left.pass, s) \cup stay
  BY <1>2
<1>4. /\ IsDisk(d) /\ DOMAIN d = DOMAIN disk \ (FilesOf(disk, s) \ stay)
      /\ \A g \in DOMAIN d : d[g] = disk[g]
  BY <1>0, DroppedFiles
<1>5. Empties(p, d)
  BY <1>2
<1> HIDE DEF d
<1>6. \/ /\ f \notin DOMAIN d /\ f[1] = s
         /\ DOMAIN disk' = DOMAIN d \cup {f} /\ disk'[f] = <<>>
         /\ \A g \in DOMAIN d : disk'[g] = d[g]
      \/ disk' = d /\ f = NoFile
  <2>1. CASE disk' = d /\ f = NoFile
    BY <2>1
  <2>2. CASE f \in FileNames /\ NewFile(p, f, meta, d) /\ disk' = WithFile(d, f)
    <3>0. f \notin DOMAIN d /\ f[1] = s
      BY <2>2 DEF NewFile
    <3>1. /\ DOMAIN WithFile(d, f) = DOMAIN d \cup {f} /\ WithFile(d, f)[f] = <<>>
          /\ \A g \in DOMAIN d : WithFile(d, f)[g] = d[g]
      BY <1>4, <2>2, <3>0, AddedFile
    <3> QED BY <2>2, <3>0, <3>1
  <2> QED BY <1>5, <2>1, <2>2 DEF Empties
<1>7. /\ \A g \in DOMAIN disk' : g # f => g \in DOMAIN d
      /\ \A g \in DOMAIN d : g \in DOMAIN disk' /\ disk'[g] = d[g]
      /\ f \in DOMAIN disk' /\ f # NoFile => LinesIn(disk', f) = {}
      /\ f \in DOMAIN disk' /\ f = NoFile => f \in DOMAIN d \/ LinesIn(disk', f) = {}
  BY <1>6 DEF LinesIn
<1>8. FilesOf(disk', s) \ {f} \subseteq left'.pass
  BY <1>3, <1>4, <1>7 DEF FilesOf
<1>9. WithinBudget(p)'
  BY <1>8 DEF WithinBudget
<1>10. ASSUME NEW r \in Remaining(disk', left'.pass, s) PROVE FALSE
  <2>1. PICK g \in DOMAIN disk' : g[1] = s /\ g \notin left'.pass /\ r \in LinesIn(disk', g)
    BY StoredLines
  <2>2. g = f
    BY <1>8, <2>1 DEF FilesOf
  <2>3. f \in DOMAIN d => f \in stay
    BY <1>4, <2>1, <2>2 DEF FilesOf
  <2> QED BY <1>3, <1>7, <2>1, <2>2, <2>3
<1>11. ASSUME NEW t \in Sources \ {s} PROVE Untouched(t)
  <2>1. \A g \in FilesOf(disk', t) : g \in FilesOf(disk, t)
    BY <1>4, <1>6 DEF FilesOf
  <2>2. \A g \in FilesOf(disk, t) : g \in FilesOf(disk', t) /\ disk'[g] = disk[g]
    BY <1>4, <1>7 DEF FilesOf
  <2>3. \A g \in FilesOf(disk, t) : g \in left'.pass <=> g \in left.pass
    BY <1>3 DEF FilesOf, OfOthers
  <2> QED BY <2>1, <2>2, <2>3 DEF Untouched
<1>12. overdue' = overdue \ {s}
  BY DEF Clear
<1>13. Remaining(disk', left'.pass, s) = {}
  BY <1>10
<1>14. f # NoFile /\ f \in DOMAIN disk' => \A r \in LinesIn(disk', f) : Half(r)
  BY <1>7
<1>15. lock'.by = p /\ lock'.op = "clear" /\ \A q \in Procs \ {p} : proc'[q] = proc[q]
  BY <1>1 DEF SectionBegins
<1> HIDE DEF f, s
<1> QED BY <1>9, <1>11, <1>12, <1>13, <1>14, <1>15 DEF LeavesTidy, f, s

(* A step that neither writes to the files of p nor begins a section of it. *)
LEMMA RestingTidy ==
    ASSUME NEW p \in Procs, Tidy(p), Untouched(SourceOf[p]),
           proc'[p].window \in {proc[p].window, <<>>},
           \/ proc'[p].file = NoFile
           \/ /\ proc'[p].file = proc[p].file /\ proc'[p].bytes = proc[p].bytes
              /\ proc[p].file # NoFile => proc[p].file[1] = SourceOf[p],
           Passing(p)' => Passing(p) /\ lock'.window = lock.window,
           Passing(p) => Passing(p)' \/ proc'[p].window = <<>> \/ SourceOf[p] \in overdue',
           SourceOf[p] \notin overdue' => SourceOf[p] \notin overdue
    PROVE  Tidy(p)'
<1> DEFINE s == SourceOf[p]
           F == FilesOf(disk, s)
<1>1. FilesOf(disk', s) = F /\ \A f \in F : disk'[f] = disk[f] /\ (f \in left'.pass <=> f \in left.pass)
  BY DEF Untouched
<1>2. /\ Remaining(disk', left'.pass, s) = Remaining(disk, left.pass, s)
      /\ \A f : Size(disk', F \ {f}) = Size(disk, F \ {f})
  BY <1>1, UntouchedLines
<1>4. ASSUME proc'[p].window # <<>> \/ Passing(p)', proc'[p].file # NoFile PROVE WithinBudget(p)'
  <2>1. proc'[p].file = proc[p].file /\ WithinBudget(p)
    BY <1>4 DEF Tidy
  <2>2. Size(disk', F \ {proc[p].file}) = Size(disk, F \ {proc[p].file})
    BY <1>2
  <2>3. F \ {proc[p].file} \subseteq left.pass => F \ {proc[p].file} \subseteq left'.pass
    BY <1>1
  <2> HIDE DEF F
  <2>4. \/ Cardinality(F) <= MaxFiles /\ Size(disk, F \ {proc[p].file}) <= SourceCap
        \/ F \ {proc[p].file} \subseteq left.pass
    BY <2>1 DEF WithinBudget, F
  <2> QED BY <1>1, <2>1, <2>2, <2>3, <2>4 DEF WithinBudget
<1>5. Passing(p)' => \A r \in Remaining(disk', left'.pass, s) : Covered(lock'.window, r)
  BY <1>2 DEF Tidy
<1>6. proc'[p].window # <<>> /\ s \notin overdue' /\ ~Passing(p)' =>
         \A r \in Remaining(disk', left'.pass, s) : Covered(proc'[p].window, r)
  BY <1>2 DEF Tidy
<1>7. ASSUME proc'[p].file # NoFile, proc'[p].file \in DOMAIN disk', proc'[p].bytes = 0
      PROVE  \A r \in LinesIn(disk', proc'[p].file) : Half(r)
  <2> DEFINE f == proc[p].file
  <2>1. proc'[p].file = f /\ f # NoFile /\ proc[p].bytes = 0 /\ f \in FilesOf(disk', s)
    BY <1>7 DEF FilesOf
  <2>2. f \in FilesOf(disk, s) /\ disk'[f] = disk[f] /\ f \in DOMAIN disk
    BY <1>1, <2>1 DEF FilesOf
  <2> QED BY <2>1, <2>2 DEF Tidy, LinesIn
<1> HIDE DEF F, s
<1> QED BY <1>4, <1>5, <1>6, <1>7 DEF Tidy, s

(* What the other steps make of a writer's window and open file.           *)
Rests(p) ==
    /\ proc'[p].window \in {proc[p].window, <<>>}
    /\ \/ proc'[p].file = NoFile
       \/ proc'[p].file = proc[p].file /\ proc'[p].bytes = proc[p].bytes
GivesUp(p) ==
    /\ \A s : s \in overdue => s \in overdue'
    /\ Passing(p) => proc'[p].window = <<>> \/ SourceOf[p] \in overdue'

LEMMA OthersRest ==
    ASSUME LogTyped, NEW p \in Procs,
           \/ CommitFails(p) \/ SectionFails(p) \/ Take(p) \/ IdleTimeout(p) \/ WriteFails(p) \/ Crash(p)
    PROVE  Rests(p) /\ GivesUp(p)
<1>1. proc \in [Procs -> Writers] /\ proc[p] \in Writers /\ meta.src[SourceOf[p]] \in SourceMetas
  BY DEF LogTyped, Metas
<1>2. Off.window = <<>> /\ Off.file = NoFile
  BY DEF Off, Idle
<1>3. GivesUp(p)
  <2>1. CASE SectionFails(p) \/ Take(p) \/ IdleTimeout(p) \/ WriteFails(p)
    <3>1. overdue' = overdue /\ lock.by # p
      BY <2>1 DEF SectionFails, Take, IdleTimeout, WriteFails
    <3> QED BY <3>1 DEF GivesUp, Passing
  <2>2. CASE CommitFails(p)
    <3>1. overdue' = IF lock.op = "maintain" THEN overdue \cup {SourceOf[p]} ELSE overdue
      BY <2>2 DEF CommitFails
    <3> QED BY <3>1 DEF GivesUp, Passing
  <2>3. CASE Crash(p)
    <3>1. overdue' = overdue /\ proc'[p].window = <<>>
      BY <1>1, <1>2, <2>3 DEF Crash
    <3> QED BY <3>1 DEF GivesUp
  <2> QED BY <2>1, <2>2, <2>3
<1>4. ASSUME NEW pc, proc' = [proc EXCEPT ![p] = [proc[p] EXCEPT !.pc = pc]] PROVE Rests(p)
  <2>1. proc'[p] = [proc[p] EXCEPT !.pc = pc]
    BY <1>1, <1>4
  <2> QED BY <1>1, <2>1 DEF Rests, Writers
<1>5. ASSUME NEW pc, NEW hand, proc' = [proc EXCEPT ![p] = [proc[p] EXCEPT !.pc = pc, !.hand = hand]]
      PROVE  Rests(p)
  <2>1. proc'[p] = [proc[p] EXCEPT !.pc = pc, !.hand = hand]
    BY <1>1, <1>5
  <2> QED BY <1>1, <2>1 DEF Rests, Writers
<1>6. ASSUME proc' = [proc EXCEPT ![p] = Off] PROVE Rests(p)
  BY <1>1, <1>2, <1>6 DEF Rests
<1>7. CASE CommitFails(p)
  BY <1>3, <1>4, <1>6, <1>7 DEF CommitFails
<1>8. ASSUME SectionFails(p) PROVE Rests(p)
  <2> DEFINE op == CASE proc[p].pc = "append" -> "rotate"
                     [] proc[p].pc \in {"count", "clear"} -> proc[p].pc
                     [] OTHER -> "maintain"
             creates == op = "rotate" \/ (op = "maintain" /\ (proc[p].bytes > 0 \/ proc[p].file = NoFile))
             after == After(proc[p], op, FALSE)
             read == [LoadMeta(proc[p], meta, SourceOf[p]) EXCEPT !.file = NoFile, !.bytes = 0]
  <2>1. PICK v \in {proc[p]} \cup (IF creates /\ LockFree(p) THEN {read} ELSE {}) :
          proc' = [proc EXCEPT ![p] = [v EXCEPT !.pc = after]]
    BY <1>8 DEF SectionFails
  <2> HIDE DEF after, creates
  <2>2. read \in Writers /\ read.file = NoFile /\ read.window = proc[p].window
    BY <1>1 DEF LoadMeta, Writers, SourceMetas
  <2> HIDE DEF read
  <2>3. v = proc[p] \/ v = read
    BY <2>1
  <2> DEFINE w == [v EXCEPT !.pc = after]
  <2>4. w.window = v.window /\ w.file = v.file /\ w.bytes = v.bytes
    BY <1>1, <2>2, <2>3 DEF Writers
  <2>5. proc'[p] = w
    BY <1>1, <2>1
  <2> HIDE DEF w
  <2> QED BY <2>2, <2>3, <2>4, <2>5 DEF Rests
<1>9. CASE Take(p)
  <2> DEFINE stage == IF Head(queue[p]).id = -1 THEN "clear" ELSE IF Due(p) THEN "due" ELSE "append"
             head == Head(queue[p])
             w == [proc[p] EXCEPT !.hand = head, !.pc = stage]
  <2>1. proc' = [proc EXCEPT ![p] = w]
    BY <1>9 DEF Take
  <2> HIDE DEF stage, head
  <2>2. w.window = proc[p].window /\ w.file = proc[p].file /\ w.bytes = proc[p].bytes
    BY <1>1 DEF Writers
  <2>3. proc'[p] = w
    BY <1>1, <2>1
  <2> HIDE DEF w
  <2> QED BY <1>3, <2>2, <2>3 DEF Rests
<1>10. CASE IdleTimeout(p)
  <2>1. proc' = [proc EXCEPT ![p] = [proc[p] EXCEPT !.pc = "rollover"]]
    BY <1>1, <1>10 DEF IdleTimeout
  <2> QED BY <1>3, <1>4, <2>1
<1>11. CASE WriteFails(p)
  BY <1>3, <1>5, <1>11 DEF WriteFails
<1>12. CASE Crash(p)
  BY <1>3, <1>6, <1>12 DEF Crash
<1> QED BY <1>3, <1>7, <1>8, <1>9, <1>10, <1>11, <1>12

LEMMA CommitMoves ==
    ASSUME LogTyped, NEW p \in Procs, Commit(p)
    PROVE  /\ proc'[p].file = proc[p].file /\ proc'[p].bytes = proc[p].bytes
           /\ proc'[p].window = IF lock.op = "maintain" THEN lock.window ELSE proc[p].window
<1> DEFINE after == After(proc[p], lock.op, TRUE)
           window == IF lock.op = "maintain" THEN lock.window ELSE proc[p].window
           w == [proc[p] EXCEPT !.pc = after, !.window = window]
<1>1. proc \in [Procs -> Writers] /\ proc[p] \in Writers
  BY DEF LogTyped
<1>2. proc' = [proc EXCEPT ![p] = w]
  BY <1>1 DEF Commit
<1> HIDE DEF after, window
<1>3. w.file = proc[p].file /\ w.bytes = proc[p].bytes /\ w.window = window
  BY <1>1 DEF Writers
<1>4. proc'[p] = w
  BY <1>1, <1>2
<1> HIDE DEF w
<1> QED BY <1>3, <1>4 DEF window

LEMMA WriteMoves ==
    ASSUME LogTyped, NEW p \in Procs, Write(p)
    PROVE  /\ proc'[p].file = proc[p].file /\ proc'[p].bytes # 0
           /\ proc'[p].window = proc[p].window
<1> DEFINE stage == IF proc[p].hand.cut THEN "count" ELSE "idle"
           trimmed == IF proc[p].hand.cut THEN proc[p].trimmed + 1 ELSE proc[p].trimmed
           bytes == proc[p].bytes + 1
           w == [proc[p] EXCEPT !.bytes = bytes, !.hand = Torn, !.trimmed = trimmed, !.pc = stage]
<1>1. proc \in [Procs -> Writers] /\ proc[p] \in Writers
  BY DEF LogTyped
<1>2. proc' = [proc EXCEPT ![p] = w]
  BY <1>1 DEF Write, Writers
<1>3. bytes # 0
  BY <1>1 DEF Writers
<1> HIDE DEF stage, trimmed, bytes
<1>4. w.file = proc[p].file /\ w.bytes = bytes /\ w.window = proc[p].window
  BY <1>1 DEF Writers
<1>5. proc'[p] = w
  BY <1>1, <1>2
<1> HIDE DEF w
<1> QED BY <1>3, <1>4, <1>5

(* Every kind of step leaves every writer tidy.                            *)
LEMMA NothingTouched == disk' = disk /\ left' = left => \A s : Untouched(s)
BY DEF Untouched, FilesOf

LEMMA OthersStayTidy ==
    ASSUME LogForgets, AllTidy, NEW p \in Procs, \A q \in Procs \ {p} : proc'[q] = proc[q],
           \A s \in Sources \ {SourceOf[p]} : Untouched(s),
           lock' = lock \/ (lock.by \in {p, NoProc} /\ lock'.by \in {p, NoProc}),
           \A s \in Sources \ {SourceOf[p]} : s \notin overdue' => s \notin overdue
    PROVE  \A q \in Procs \ {p} : Tidy(q)'
<1> SUFFICES ASSUME NEW q \in Procs \ {p} PROVE Tidy(q)'
  OBVIOUS
<1>1. proc'[q] = proc[q] /\ SourceOf[q] \in Sources \ {SourceOf[p]}
  BY OneWriter, SourceTyped
<1>2. Tidy(q) /\ (proc[q].file # NoFile => proc[q].file[1] = SourceOf[q])
  BY DEF AllTidy, LogForgets, Forgetting, FilesOwned
<1>3. /\ Passing(q)' => Passing(q) /\ lock'.window = lock.window
      /\ Passing(q) => Passing(q)'
  BY SourceTyped DEF Passing
<1>4. Untouched(SourceOf[q]) /\ (SourceOf[q] \notin overdue' => SourceOf[q] \notin overdue)
  BY <1>1
<1> QED BY <1>1, <1>2, <1>3, <1>4, RestingTidy

LEMMA BeginningTidies ==
    ASSUME LogForgets, LogTyped', AllTidy, NEW p \in Procs, Begins(p)
    PROVE  AllTidy'
<1> DEFINE s == SourceOf[p]
<1>0. LogTyped /\ Tidy(p) /\ s \in Sources
  BY SourceTyped DEF LogForgets, LogBase, AllTidy
<1>1. lock.by = NoProc /\ ~Passing(p)
  <2>1. lock.by = NoProc
    BY SectionSaysSo DEF LogForgets, SectionSays, SectionBegins
  <2> QED BY <2>1, SourceTyped DEF Passing
<1>2. ASSUME Maintain(p) PROVE AllTidy'
  <2>1. /\ LeavesTidy(p, "maintain")
        /\ \A r \in Remaining(disk', left'.pass, s) : Covered(lock'.window, r)
    BY <1>0, <1>2, MaintainTidies
  <2>2. overdue' = overdue
    BY <1>2 DEF Maintain
  <2>3. Tidy(p)'
    BY <2>1 DEF LeavesTidy, Tidy, Passing
  <2>4. \A q \in Procs \ {p} : Tidy(q)'
    BY <1>1, <2>1, <2>2, OthersStayTidy DEF LeavesTidy
  <2> QED BY <2>3, <2>4 DEF AllTidy
<1>3. ASSUME Rotate(p) PROVE AllTidy'
  <2>1. /\ LeavesTidy(p, "rotate") /\ proc'[p].window = proc[p].window
        /\ Remaining(disk', left'.pass, s) \subseteq Remaining(disk, left.pass, s)
    BY <1>0, <1>3, RotateTidies
  <2>2. overdue' = overdue
    BY <1>3 DEF Rotate
  <2>3. Tidy(p)'
    <3>1. ~Passing(p)'
      BY <2>1 DEF LeavesTidy, Passing
    <3>2. proc'[p].window # <<>> /\ s \notin overdue' =>
            \A r \in Remaining(disk', left'.pass, s) : Covered(proc'[p].window, r)
      BY <1>0, <1>1, <2>1, <2>2 DEF Tidy
    <3> QED BY <2>1, <3>1, <3>2 DEF LeavesTidy, Tidy
  <2>4. \A q \in Procs \ {p} : Tidy(q)'
    BY <1>1, <2>1, <2>2, OthersStayTidy DEF LeavesTidy
  <2> QED BY <2>3, <2>4 DEF AllTidy
<1>4. ASSUME Clear(p) PROVE AllTidy'
  <2>1. LeavesTidy(p, "clear") /\ Remaining(disk', left'.pass, s) = {} /\ overdue' = overdue \ {s}
    BY <1>4, ClearTidies
  <2>2. Tidy(p)'
    <3>1. ~Passing(p)'
      BY <2>1 DEF LeavesTidy, Passing
    <3> QED BY <2>1, <3>1 DEF LeavesTidy, Tidy
  <2>3. \A q \in Procs \ {p} : Tidy(q)'
    BY <1>1, <2>1, OthersStayTidy DEF LeavesTidy
  <2> QED BY <2>2, <2>3 DEF AllTidy
<1>5. ASSUME Open(p) PROVE AllTidy'
  <2>1. /\ lock'.by = p /\ lock'.op = "open" /\ proc'[p].window = <<>>
        /\ \A q \in Procs \ {p} : proc'[q] = proc[q]
        /\ \A t \in Sources \ {s} : Untouched(t)
        /\ proc'[p].file \in DOMAIN disk' => \A r \in LinesIn(disk', proc'[p].file) : Half(r)
    BY <1>5, OpenTidies
  <2>2. overdue' = overdue
    BY <1>5 DEF Open
  <2>3. Tidy(p)'
    BY <2>1 DEF Tidy, Passing
  <2>4. \A q \in Procs \ {p} : Tidy(q)'
    BY <1>1, <2>1, <2>2, OthersStayTidy
  <2> QED BY <2>3, <2>4 DEF AllTidy
<1>6. ASSUME PersistCounters(p) PROVE AllTidy'
  <2>1. SectionBegins(p, "count") /\ CountDoes(p)
    BY <1>0, <1>6, CountSection
  <2>2. overdue' = overdue /\ left' = left
    BY <1>6 DEF PersistCounters
  <2>3. \A t : Untouched(t)
    BY <2>1, <2>2, NothingTouched DEF CountDoes
  <2>4. Tidy(p)'
    <3>1. ~ Passing(p)'
      BY <2>1 DEF SectionBegins, Passing
    <3>2. proc[p].file # NoFile => proc[p].file[1] = s
      BY DEF LogForgets, Forgetting, FilesOwned
    <3>3. proc'[p] = proc[p]
      BY <2>1 DEF CountDoes
    <3> QED BY <1>0, <1>1, <2>2, <2>3, <3>1, <3>2, <3>3, RestingTidy
  <2>5. \A q \in Procs \ {p} : Tidy(q)'
    BY <1>1, <2>1, <2>2, <2>3, OthersStayTidy DEF SectionBegins
  <2> QED BY <2>4, <2>5 DEF AllTidy
<1> QED BY <1>2, <1>3, <1>4, <1>5, <1>6 DEF Begins

LEMMA CommittingTidies ==
    ASSUME LogForgets, AllTidy, NEW p \in Procs, Commit(p)
    PROVE  AllTidy'
<1> DEFINE s == SourceOf[p]
<1>0. LogTyped /\ Tidy(p) /\ s \in Sources /\ proc[p] \in Writers
      /\ (proc[p].file # NoFile => proc[p].file[1] = s)
  BY SourceTyped DEF LogForgets, LogBase, AllTidy, Forgetting, FilesOwned, LogTyped
<1>1. /\ lock.by = p /\ lock'.by = NoProc /\ disk' = disk /\ left' = left
      /\ overdue' = IF lock.op = "maintain" THEN overdue \ {s} ELSE overdue
  BY DEF Commit
<1>2. /\ proc'[p].file = proc[p].file /\ proc'[p].bytes = proc[p].bytes
      /\ proc'[p].window = IF lock.op = "maintain" THEN lock.window ELSE proc[p].window
  BY <1>0, CommitMoves
<1>3. \A q \in Procs \ {p} : proc'[q] = proc[q]
  BY <1>0, CommitWriter DEF OnlyWriter
<1>4. \A t : Untouched(t)
  BY <1>1, NothingTouched
<1>5. \A q \in Procs \ {p} : Tidy(q)'
  BY <1>1, <1>3, <1>4, OthersStayTidy
<1>6. ~ Passing(p)'
  BY <1>1, SourceTyped DEF Passing
<1>7. CASE lock.op = "maintain"
  <2>1. Passing(p) /\ proc'[p].window = lock.window
    BY <1>1, <1>2, <1>7 DEF Passing
  <2>2. proc'[p].file # NoFile => WithinBudget(p)'
    <3> SUFFICES ASSUME proc'[p].file # NoFile PROVE WithinBudget(p)'
      OBVIOUS
    <3>1. WithinBudget(p)
      BY <1>0, <1>2, <2>1 DEF Tidy
    <3> QED BY <1>1, <1>2, <3>1 DEF WithinBudget
  <2>3. \A r \in Remaining(disk', left'.pass, s) : Covered(proc'[p].window, r)
    BY <1>0, <1>1, <2>1 DEF Tidy
  <2>4. proc'[p].file # NoFile /\ proc'[p].file \in DOMAIN disk' /\ proc'[p].bytes = 0 =>
           \A r \in LinesIn(disk', proc'[p].file) : Half(r)
    BY <1>0, <1>1, <1>2 DEF Tidy
  <2>5. Tidy(p)'
    BY <1>6, <2>2, <2>3, <2>4 DEF Tidy
  <2> QED BY <1>5, <2>5 DEF AllTidy
<1>8. CASE lock.op # "maintain"
  <2>0. ~ Passing(p)
    BY <1>8 DEF Passing
  <2>1. Tidy(p)'
    BY <1>0, <1>1, <1>2, <1>4, <1>6, <1>8, <2>0, RestingTidy
  <2> QED BY <1>5, <2>1 DEF AllTidy
<1> QED BY <1>7, <1>8

(* A record that is written with no pass due is from a day still kept.     *)
LEMMA WritingTidies ==
    ASSUME LogForgets, LogTyped', HandsNumbered, Prompt, AllTidy, NEW p \in Procs, Write(p) \/ WriteFails(p)
    PROVE  AllTidy'
<1> DEFINE s == SourceOf[p]
           f == proc[p].file
<1>0. /\ LogTyped /\ Forgetting /\ FilesOwned /\ Tidy(p) /\ s \in Sources /\ proc[p] \in Writers
      /\ IsDisk(disk) /\ proc[p].hand \in RecordSet
  BY SourceTyped DEF LogForgets, LogBase, AllTidy, Forgetting, LogTyped, Writers
<1>1. /\ lock' = lock /\ left' = left /\ lock.by # p /\ proc[p].pc = "append" /\ f # NoFile
      /\ overdue' = IF Write(p) /\ Due(p) THEN overdue \cup {s} ELSE overdue
  BY DEF Write, WriteFails
<1>2. PICK x : LineFrom(p, x) /\ (WriteFails(p) => Half(x))
  BY <1>0, WritesALine
<1>3. /\ OnlyWriter(p) /\ proc'[p].file = f /\ proc'[p].window = proc[p].window
      /\ proc'[p].bytes = 0 => proc[p].bytes = 0 /\ Half(x)
  <2>1. OnlyWriter(p) /\ proc'[p].file = f
    BY <1>0, WriteWriter
  <2>2. CASE Write(p)
    BY <1>0, <2>1, <2>2, WriteMoves
  <2>3. CASE WriteFails(p)
    <3>1. proc'[p].bytes = proc[p].bytes /\ proc'[p].window = proc[p].window
      BY <1>0, <2>3 DEF WriteFails, Writers, LogTyped
    <3> QED BY <1>2, <2>1, <2>3, <3>1
  <2> QED BY <2>2, <2>3
<1>4. f \in FileNames /\ f[1] = s
  BY <1>0, <1>1 DEF FilesOwned
<1>5. /\ DOMAIN disk' = DOMAIN disk
      /\ \A g \in DOMAIN disk : \A y \in LinesIn(disk', g) : y \in LinesIn(disk, g) \/ (g = f /\ y = x)
      /\ \A g \in DOMAIN disk \ {f} : disk'[g] = disk[g]
  <2>1. x \in RecordSet /\ disk' = Grown(f, x)
    BY <1>2 DEF LineFrom
  <2>2. \A g \in DOMAIN disk \ {f} : disk'[g] = disk[g]
    BY <2>1 DEF Grown
  <2> QED BY <1>0, <2>1, <2>2, GrownDisk
<1>6. \A t \in Sources \ {s} : Untouched(t)
  BY <1>1, <1>4, <1>5 DEF Untouched, FilesOf
<1>7. \A q \in Procs \ {p} : Tidy(q)'
  <2>1. \A t \in Sources \ {s} : t \notin overdue' => t \notin overdue
    BY <1>1
  <2> QED BY <1>1, <1>3, <1>6, <2>1, OthersStayTidy DEF OnlyWriter
<1>8. FilesOf(disk', s) = FilesOf(disk, s)
  BY <1>5 DEF FilesOf
<1>9. ~ Passing(p) /\ ~ Passing(p)'
  BY <1>1 DEF Passing
<1>10. proc'[p].window # <<>> => WithinBudget(p)'
  <2> SUFFICES ASSUME proc'[p].window # <<>> PROVE WithinBudget(p)'
    OBVIOUS
  <2>1. WithinBudget(p)
    BY <1>0, <1>1, <1>3 DEF Tidy
  <2> DEFINE F == FilesOf(disk, s) \ {f}
  <2>2. \A g \in F : disk'[g] = disk[g]
    BY <1>5 DEF FilesOf
  <2> HIDE DEF F
  <2>3. Size(disk', F) = Size(disk, F)
    BY <2>2 DEF Size
  <2> QED BY <1>1, <1>3, <1>8, <2>1, <2>3 DEF WithinBudget, F
<1>11. \A y \in Remaining(disk', left'.pass, s) : y \in Remaining(disk, left.pass, s) \/ y = x
  <2> TAKE y \in Remaining(disk', left'.pass, s)
  <2>1. PICK g \in DOMAIN disk' : g[1] = s /\ g \notin left'.pass /\ y \in LinesIn(disk', g)
    BY StoredLines
  <2> QED BY <1>1, <1>5, <2>1, StoredLines
<1>12. ASSUME proc'[p].window # <<>>, s \notin overdue', NEW y \in Remaining(disk', left'.pass, s)
       PROVE  Covered(proc'[p].window, y)
  <2>1. CASE y \in Remaining(disk, left.pass, s)
    BY <1>0, <1>1, <1>3, <1>9, <1>12, <2>1 DEF Tidy
  <2>2. CASE Half(y)
    BY <2>2 DEF Covered
  <2>3. CASE y = x /\ ~Half(y)
    <3>1. y = proc[p].hand /\ Write(p)
      BY <1>2, <2>3 DEF LineFrom
    <3>2. proc[p].window = Window
      BY <1>1, <1>12, <3>1 DEF Due
    <3>3. y.id > 0
      BY <1>1, <3>1 DEF HandsNumbered
    <3>4. ~ Expired(y)
      BY <3>1, <3>3 DEF Prompt
    <3>5. y.t \in Nat
      BY <1>0, <3>1, BoundsTyped DEF RecordSet
    <3>6. /\ clock.utc \in Nat /\ clock.offset \in Nat /\ RetentionDays \in Nat \ {0}
          /\ LocalDay(clock.utc) \in Int /\ LocalDay(y.t) \in Int
      BY <1>0, <3>5, ClockTicks
    <3>7. LocalDay(y.t) > LocalDay(clock.utc) - RetentionDays
      <4>1. CASE y.t > clock.utc
        <5>1. LocalDay(y.t) >= LocalDay(clock.utc)
          BY <3>5, <3>6, <4>1 DEF LocalDay
        <5> QED BY <3>6, <5>1
      <4>2. CASE ~(y.t > clock.utc)
        <5>1. ~(LocalDay(y.t) <= LocalDay(clock.utc) - RetentionDays)
          BY <2>3, <3>4, <4>2 DEF Expired, Corrupt
        <5> QED BY <3>6, <5>1
      <4> QED BY <4>1, <4>2
    <3> QED BY <1>3, <3>2, <3>7 DEF Covered, Window, LocalDay
  <2> QED BY <1>11, <2>1, <2>2, <2>3
<1>13. ASSUME proc'[p].file \in DOMAIN disk', proc'[p].bytes = 0
       PROVE  \A r \in LinesIn(disk', proc'[p].file) : Half(r)
  <2>1. Half(x) /\ f \in DOMAIN disk /\ proc[p].bytes = 0
    BY <1>3, <1>5, <1>13
  <2>2. \A r \in LinesIn(disk, f) : Half(r)
    BY <1>0, <1>1, <2>1 DEF Tidy
  <2> QED BY <1>3, <1>5, <2>1, <2>2
<1>14. Tidy(p)'
  BY <1>9, <1>10, <1>12, <1>13 DEF Tidy
<1> QED BY <1>7, <1>14 DEF AllTidy

LEMMA QuietStaysTidy ==
    ASSUME LogForgets, AllTidy,
           \/ \E p \in Procs : \/ CommitFails(p) \/ SectionFails(p) \/ Take(p) \/ IdleTimeout(p) \/ Crash(p)
                              \/ Record(p) \/ RequestClear(p) \/ AskOwner(p)
           \/ OwnerFails \/ LoseMeta \/ Tick \/ ChangeClock \/ UNCHANGED logVars
    PROVE  AllTidy'
<1>0. LogTyped /\ proc \in [Procs -> Writers]
  BY DEF LogForgets, LogBase, LogTyped
<1>1. ASSUME NEW p \in Procs, CommitFails(p) \/ SectionFails(p) \/ Take(p) \/ IdleTimeout(p) \/ Crash(p)
      PROVE  AllTidy'
  <2>1. Rests(p) /\ GivesUp(p)
    BY <1>0, <1>1, OthersRest
  <2>2. \A q \in Procs \ {p} : proc'[q] = proc[q]
    BY <1>0, <1>1, CommitFailsWriter, SectionFailsWriter, TakeWriter, IdleTimeoutWriter, CrashWriter
       DEF OnlyWriter
  <2>3. disk' = disk /\ left' = left /\ (lock' = lock \/ (lock.by = p /\ lock'.by = NoProc))
    <3>1. CASE SectionFails(p) \/ Take(p) \/ IdleTimeout(p)
      BY <3>1 DEF SectionFails, Take, IdleTimeout
    <3>2. CASE CommitFails(p)
      BY <3>2 DEF CommitFails
    <3>3. CASE Crash(p)
      BY <3>3 DEF Crash
    <3> QED BY <1>1, <3>1, <3>2, <3>3
  <2>4. \A t : Untouched(t)
    BY <2>3, NothingTouched
  <2>5. \A q \in Procs \ {p} : Tidy(q)'
    BY <2>1, <2>2, <2>3, <2>4, OthersStayTidy DEF GivesUp
  <2>6. /\ Passing(p)' => Passing(p) /\ lock'.window = lock.window
        /\ Passing(p) => Passing(p)' \/ proc'[p].window = <<>> \/ SourceOf[p] \in overdue'
    BY <2>1, <2>3, SourceTyped DEF Passing, GivesUp
  <2>7. Tidy(p) /\ (proc[p].file # NoFile => proc[p].file[1] = SourceOf[p])
    BY DEF AllTidy, LogForgets, Forgetting, FilesOwned
  <2>8. SourceOf[p] \notin overdue' => SourceOf[p] \notin overdue
    BY <2>1 DEF GivesUp
  <2>9. Tidy(p)'
    BY <2>1, <2>4, <2>6, <2>7, <2>8, RestingTidy DEF Rests
  <2> QED BY <2>5, <2>9 DEF AllTidy
<1>2. ASSUME \/ \E p \in Procs : Record(p) \/ RequestClear(p) \/ AskOwner(p)
             \/ OwnerFails \/ LoseMeta \/ Tick \/ ChangeClock \/ UNCHANGED logVars
      PROVE  AllTidy'
  <2>1. UNCHANGED <<disk, lock, proc, overdue, left>>
    BY <1>2 DEF Record, RequestClear, AskOwner, OwnerFails, LoseMeta, Tick, ChangeClock, logVars
  <2> QED BY <2>1 DEF AllTidy, Tidy, Passing, WithinBudget
<1> QED BY <1>1, <1>2

IdleInv == LogInOrder /\ Prompt /\ HandsNumbered /\ AllTidy

LEMMA TidyBegins == LogInit => Prompt /\ HandsNumbered /\ AllTidy
<1> SUFFICES ASSUME LogInit PROVE Prompt /\ HandsNumbered /\ AllTidy
  OBVIOUS
<1>1. \A p \in Procs : /\ proc[p].window = <<>> /\ proc[p].file = NoFile /\ proc[p].pc = "down"
                       /\ proc[p].hand = Torn /\ queue[p] = <<>>
  BY DEF LogInit, Off, Idle
<1>2. \A p \in Procs : ~ Passing(p)
  BY SourceTyped DEF LogInit, Passing
<1>3. Prompt
  BY <1>1 DEF Prompt, Torn
<1> QED BY <1>1, <1>2, <1>3 DEF HandsNumbered, AllTidy, Tidy

(* What waits has not expired, and every writer is tidy but for what a     *)
(* pass of its own left behind.                                            *)
THEOREM TidyInductive == LogSpec => []IdleInv
<1>1. LogInit => Prompt /\ HandsNumbered /\ AllTidy
  BY TidyBegins
<1>2. LogInOrder /\ LogInOrder' /\ Prompt /\ HandsNumbered /\ AllTidy /\ [LogNext]_logVars
        => Prompt' /\ HandsNumbered' /\ AllTidy'
  <2> SUFFICES ASSUME LogInOrder, LogInOrder', Prompt, HandsNumbered, AllTidy, [LogNext]_logVars
               PROVE  Prompt' /\ HandsNumbered' /\ AllTidy'
    OBVIOUS
  <2>1. LogForgets /\ AllOrdered /\ LogTyped'
    BY DEF LogInOrder, LogForgets, LogBase
  <2>2. Prompt' /\ HandsNumbered'
    BY <2>1, PromptKept, HandsStayNumbered
  <2>3. AllTidy'
    BY <2>1, BeginningTidies, CommittingTidies, WritingTidies, QuietStaysTidy
       DEF LogNext, WriterStep, Begins
  <2> QED BY <2>2, <2>3
<1> QED BY <1>1, <1>2, OrderInductive, PTL DEF LogSpec, IdleInv

(* A writer with nothing due leaves its source within its budget and       *)
(* without an expired record, but for files that the last pass could not   *)
(* read, rewrite or delete, over restarts, failures and changes of the     *)
(* clock (maintain_if_due, maintain_locked, rotate, prune_locked).         *)
THEOREM IdleStaysTidy == LogSpec => []IdleIsTidy
<1>1. IdleInv => IdleIsTidy
  <2> SUFFICES ASSUME IdleInv, NEW p \in Procs, proc[p].pc = "idle", lock.by # p, ~ Due(p)
               PROVE  LET F == FilesOf(disk, SourceOf[p])
                          closed == F \ {proc[p].file} IN
                      /\ proc[p].file # NoFile =>
                           \/ Cardinality(F) <= MaxFiles /\ Size(disk, closed) <= SourceCap
                           \/ closed \subseteq left.pass
                      /\ SourceOf[p] \notin overdue =>
                           \A f \in F \ left.pass : \A r \in Lines(f) : ~ Expired(r)
    BY DEF IdleIsTidy
  <2>0. LogTyped /\ Tidy(p) /\ IsDisk(disk) /\ ~Passing(p)
    BY DEF IdleInv, LogInOrder, LogForgets, LogBase, AllTidy, LogTyped, Passing
  <2>1. proc[p].window = Window /\ proc[p].window # <<>>
    <3>1. proc[p].window = Window
      BY DEF Due
    <3>2. DOMAIN Window = {"day", "offset"} /\ DOMAIN <<>> = {}
      BY DEF Window
    <3>3. Window # <<>>
      BY <3>2
    <3> QED BY <3>1, <3>3
  <2>2. proc[p].file # NoFile => WithinBudget(p)
    BY <2>0, <2>1 DEF Tidy
  <2>3. ASSUME SourceOf[p] \notin overdue, NEW f \in FilesOf(disk, SourceOf[p]) \ left.pass,
               NEW r \in Lines(f)
        PROVE  ~ Expired(r)
    <3>0. r \in Remaining(disk, left.pass, SourceOf[p])
      BY <2>3 DEF Remaining, Lines, LinesIn
    <3>1. Covered(Window, r)
      BY <2>0, <2>1, <2>3, <3>0 DEF Tidy
    <3>2. r.t \in Nat
      BY <2>0, <3>0, RemainingTyped
    <3>3. LocalDay(r.t) \in Int /\ LocalDay(clock.utc) \in Int /\ RetentionDays \in Nat
      BY <2>0, <3>2, ClockTicks
    <3> QED BY <3>1, <3>3 DEF Covered, Expired, Corrupt, Window, LocalDay
  <2> QED BY <2>2, <2>3 DEF WithinBudget
<1> QED BY <1>1, TidyInductive, PTL

=============================================================================
