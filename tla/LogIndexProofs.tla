---------------------------- MODULE LogIndexProofs ----------------------------
(***************************************************************************)
(* Proofs about LogIndex: an index that agrees with the recording in size  *)
(* and time is an index of it, a view keeps to the points asked for, and   *)
(* the viewer implements LogView, for recordings of any length, any        *)
(* queries and any number of changes, requests and restarts.               *)
(***************************************************************************)
EXTENDS LogIndex, FiniteSetTheorems, SequenceTheorems, WellFoundedInduction, TLAPS

Files == [exists : BOOLEAN, header : BOOLEAN, lines : Seq(Lines), torn : BOOLEAN]

(* A recording: lines come after the header, and only a row can be half      *)
(* written.                                                                  *)
Sane(f) ==
  /\ f \in Files
  /\ f.header => f.exists
  /\ ~f.header => f.lines = <<>>
  /\ f.torn => f.header /\ Len(f.lines) > 0 /\ f.lines[Len(f.lines)] \in Values

FileSize(f) == IF f.header THEN HeaderSize + BodySize(f) ELSE 0

Indexes(index, f) ==
  index.entries = Timed(f) /\ index.total = Cardinality(Counted(f))

(* What an index knows of the recording f, last changed at m: it is older,   *)
(* or the recording has grown since, or it is an index of f.                 *)
Fits(index, f, m) ==
  index.stamp.exists =>
    /\ index.stamp.mtime \in Nat /\ index.stamp.mtime <= m
    /\ f.exists /\ index.stamp.mtime = m =>
         /\ index.stamp.size \in Nat /\ index.stamp.size <= FileSize(f)
         /\ index.stamp.size = FileSize(f) => Indexes(index, f)

(* A view within its budget. *)
Bounded(e) ==
  /\ Cardinality(e[2].samples) \in Nat
  /\ Cardinality(e[2].samples) <= Max({FullDetail, e[1].points, PerBucket(e[1])})

(* An index: its rows, and its views, a sequence within its limit. *)
Shaped(index) ==
  /\ index = [stamp |-> index.stamp, total |-> index.total, entries |-> index.entries,
              views |-> index.views]
  /\ IsFiniteSet(index.entries) /\ index.entries \subseteq Nat
  /\ \E S : index.views \in Seq(S) /\ \A e \in S : Bounded(e)
  /\ Len(index.views) <= MaxViews

IInv == /\ Sane(msl) /\ mtime \in Nat
        /\ pc = "idle" \/ query \in Queries
        /\ Shaped(memory) /\ Fits(memory, msl, mtime)
        /\ disk = [good |-> disk.good, index |-> disk.index]
        /\ Shaped(disk.index) /\ Fits(disk.index, msl, mtime)

(* A view that shows f, its rows read from g. *)
Good(e, f, g) == e[2] \in Views /\ Abs!Shows(e[1], f, g, e[2])

(* The views of an index show f, as f was or as it has grown since. *)
Shown(index, f, G) == \A e \in Range(index.views) : \E g \in G : Good(e, f, g)

-----------------------------------------------------------------------------
(* Sizes. *)

LEMMA MarksFacts ==
  ASSUME NEW f, NEW i \in Nat
  PROVE  /\ IsFiniteSet({j \in 1 .. i : IsMark(f, j)})
         /\ Cardinality({j \in 1 .. i : IsMark(f, j)}) \in Nat
         /\ Cardinality({j \in 1 .. i : IsMark(f, j)}) <= i
<1>1. IsFiniteSet(1 .. i) /\ Cardinality(1 .. i) = i
  BY FS_Interval
<1> DEFINE M == {j \in 1 .. i : IsMark(f, j)}
<1>2. M \subseteq 1 .. i
  OBVIOUS
<1> HIDE DEF M
<1>3. IsFiniteSet(M) /\ Cardinality(M) <= Cardinality(1 .. i)
  BY <1>1, <1>2, FS_Subset
<1>4. Cardinality(M) \in Nat
  BY <1>3, FS_CardinalityType
<1> QED
  BY <1>1, <1>3, <1>4 DEF M

(* A line ends where the next one starts. *)
LEMMA OffsetNext ==
  ASSUME NEW f, NEW i \in Nat \ {0}
  PROVE  /\ Offset(f, i) \in Nat
         /\ Offset(f, i + 1) = Offset(f, i) + (IF IsMark(f, i) THEN 1 ELSE 2)
<1> DEFINE M == {j \in 1 .. i - 1 : IsMark(f, j)}
           N == {j \in 1 .. i : IsMark(f, j)}
<1>1. IsFiniteSet(M) /\ Cardinality(M) \in Nat /\ Cardinality(M) <= i - 1
  <2>1. i - 1 \in Nat
    OBVIOUS
  <2> QED
    BY <2>1, MarksFacts, Zenon
<1>2. Offset(f, i) = 2 * (i - 1) - Cardinality(M)
  BY DEF Offset
<1>3. Offset(f, i + 1) = 2 * i - Cardinality(N)
  <2>1. (i + 1) - 1 = i
    OBVIOUS
  <2> QED
    BY <2>1 DEF Offset
<1>4. CASE IsMark(f, i)
  <2>1. N = M \cup {i} /\ i \notin M
    BY <1>4
  <2> HIDE DEF M, N
  <2>2. Cardinality(N) = Cardinality(M) + 1
    BY <1>1, <2>1, FS_AddElement
  <2> QED
    BY <1>1, <1>2, <1>3, <1>4, <2>2
<1>5. CASE ~IsMark(f, i)
  <2>1. N = M
    BY <1>5
  <2> HIDE DEF M, N
  <2> QED
    BY <1>1, <1>2, <1>3, <1>5, <2>1
<1> QED
  BY <1>4, <1>5

LEMMA SizeType ==
  ASSUME NEW f, Sane(f)
  PROVE  BodySize(f) \in Nat /\ FileSize(f) \in Nat
<1>1. f.lines \in Seq(Lines) /\ Len(f.lines) \in Nat
  BY DEF Sane, Files
<1>2. CASE f.lines = <<>>
  BY <1>2 DEF BodySize, FileSize, HeaderSize
<1>3. CASE f.lines # <<>>
  <2>1. Len(f.lines) \in Nat \ {0}
    BY <1>1, <1>3, EmptySeq
  <2>2. Offset(f, Len(f.lines)) \in Nat
    BY <2>1, OffsetNext
  <2> QED
    BY <1>3, <2>2 DEF BodySize, LineSize, FileSize, HeaderSize
<1> QED
  BY <1>2, <1>3

(* A line more makes the recording longer. *)
LEMMA SizeAppend ==
  ASSUME NEW f, NEW g, Sane(f), Sane(g), ~f.torn, f.header, g.header,
         NEW line \in Lines, g.lines = Append(f.lines, line)
  PROVE  FileSize(f) < FileSize(g)
<1> DEFINE n == Len(f.lines)
<1>1. /\ f.lines \in Seq(Lines) /\ n \in Nat /\ Len(g.lines) = n + 1
      /\ \A i \in 1 .. n : g.lines[i] = f.lines[i]
  BY AppendProperties DEF Sane, Files
<1>2. g.lines # <<>> /\ BodySize(g) = Offset(g, n + 1) + LineSize(g, n + 1)
  BY <1>1 DEF BodySize
<1>3. LineSize(g, n + 1) \in {1, 2}
  BY DEF LineSize
<1>4. BodySize(f) \in Nat /\ BodySize(g) \in Nat
  BY SizeType
<1>5. CASE n = 0
  <2>1. f.lines = <<>>
    BY <1>1, <1>5, EmptySeq
  <2>2. BodySize(f) = 0
    BY <2>1 DEF BodySize
  <2>3. Offset(g, 1) \in Nat
    BY OffsetNext
  <2> QED
    BY <1>2, <1>3, <1>5, <2>2, <2>3 DEF FileSize, HeaderSize
<1>6. CASE n # 0
  <2>1. f.lines # <<>> /\ n \in Nat \ {0}
    BY <1>1, <1>6
  <2>2. BodySize(f) = Offset(f, n) + (IF IsMark(f, n) THEN 1 ELSE 2)
    BY <2>1 DEF BodySize, LineSize
  <2>3. BodySize(f) = Offset(f, n + 1)
    BY <2>1, <2>2, OffsetNext
  <2>4. {j \in 1 .. n : IsMark(f, j)} = {j \in 1 .. n : IsMark(g, j)}
    BY <1>1 DEF IsMark
  <2>5. Offset(f, n + 1) = Offset(g, n + 1)
    <3>1. (n + 1) - 1 = n
      BY <1>1
    <3> QED
      BY <2>4, <3>1 DEF Offset
  <2>6. Offset(g, n + 1) \in Nat
    BY <1>1, OffsetNext
  <2> QED
    BY <1>2, <1>3, <2>3, <2>5, <2>6 DEF FileSize, HeaderSize
<1> QED
  BY <1>5, <1>6

(* So does the rest of a line. *)
LEMMA SizeComplete ==
  ASSUME NEW f, NEW g, Sane(f), Sane(g), f.torn, g = [f EXCEPT !.torn = FALSE]
  PROVE  FileSize(f) < FileSize(g)
<1> DEFINE n == Len(f.lines)
<1>1. /\ g.lines = f.lines /\ g.header = f.header /\ ~g.torn
      /\ f.lines \in Seq(Lines) /\ n \in Nat \ {0} /\ f.header
  BY DEF Sane, Files
<1>2. ~IsMark(f, n) /\ ~IsMark(g, n)
  BY <1>1, LogFileAssumption DEF Sane, IsMark
<1>3. LineSize(f, n) = 1 /\ LineSize(g, n) = 2
  BY <1>1, <1>2 DEF LineSize
<1>4. Offset(f, n) = Offset(g, n) /\ Offset(f, n) \in Nat
  BY <1>1, OffsetNext DEF Offset, IsMark
<1>5. f.lines # <<>>
  BY <1>1
<1>6. BodySize(f) = Offset(f, n) + 1 /\ BodySize(g) = Offset(f, n) + 2
  BY <1>1, <1>3, <1>4, <1>5 DEF BodySize
<1> QED
  BY <1>1, <1>4, <1>6 DEF FileSize, HeaderSize

-----------------------------------------------------------------------------
(* Counting.                                                               *)

(* What a function on a finite set reaches is no larger than the set. *)
LEMMA ReachBound ==
  ASSUME NEW D, IsFiniteSet(D), NEW f, f = [x \in D |-> f[x]],
         NEW T, \A y \in T : \E x \in D : y = f[x]
  PROVE  /\ IsFiniteSet(T) /\ Cardinality(T) \in Nat
         /\ Cardinality(T) <= Cardinality(D)
<1> DEFINE R == {f[x] : x \in D}
<1>1. f \in [D -> R]
  OBVIOUS
<1>2. \A y \in R : \E x \in D : f[x] = y
  OBVIOUS
<1>3. T \subseteq R
  OBVIOUS
<1> HIDE DEF R
<1>4. f \in Surjection(D, R)
  BY <1>1, <1>2 DEF Surjection
<1>5. IsFiniteSet(R) /\ Cardinality(R) <= Cardinality(D)
  BY <1>4, FS_Surjection
<1>6. IsFiniteSet(T) /\ Cardinality(T) <= Cardinality(R)
  BY <1>3, <1>5, FS_Subset
<1>7. Cardinality(T) \in Nat /\ Cardinality(R) \in Nat /\ Cardinality(D) \in Nat
  BY <1>5, <1>6, FS_CardinalityType
<1> QED
  BY <1>5, <1>6, <1>7

(* Integer division. *)
LEMMA DivFacts ==
  ASSUME NEW a \in Nat, NEW b \in Nat \ {0}
  PROVE  /\ a \div b \in Nat /\ (a \div b) * b <= a /\ a < (a \div b) * b + b
  OBVIOUS

LEMMA TimesLess ==
  ASSUME NEW q \in Nat, NEW n \in Nat, NEW b \in Nat \ {0}, q * b < n * b
  PROVE  q < n
  OBVIOUS

LEMMA DivBound ==
  ASSUME NEW a \in Nat, NEW b \in Nat \ {0}, NEW n \in Nat, a < n * b
  PROVE  a \div b \in 0 .. n - 1
<1> DEFINE q == a \div b
<1>1. q \in Nat /\ q * b <= a
  BY DivFacts
<1> HIDE DEF q
<1>2. q * b \in Nat /\ n * b \in Nat
  BY <1>1
<1>3. q * b < n * b
  BY <1>1, <1>2
<1>4. q < n
  BY <1>1, <1>3, TimesLess
<1>5. q \in 0 .. n - 1
  BY <1>1, <1>4
<1> QED
  BY <1>5 DEF q

LEMMA CeilDivFacts ==
  ASSUME NEW a \in Nat, NEW b \in Nat \ {0}
  PROVE  CeilDiv(a, b) \in Nat /\ a <= b * CeilDiv(a, b)
<1>1. a + b - 1 \in Nat
  OBVIOUS
<1> DEFINE q == (a + b - 1) \div b
<1>2. q \in Nat /\ a + b - 1 < q * b + b
  BY <1>1, DivFacts
<1> HIDE DEF q
<1>3. q * b \in Nat /\ q * b = b * q
  BY <1>2
<1>4. a <= b * q
  BY <1>2, <1>3
<1> QED
  BY <1>2, <1>4 DEF q, CeilDiv

LEMMA MaxTwo ==
  ASSUME NEW a \in Nat, NEW b \in Nat
  PROVE  Max({a, b}) \in {a, b} /\ Max({a, b}) >= a /\ Max({a, b}) >= b
<1>1. \E x \in {a, b} : \A y \in {a, b} : x >= y
  OBVIOUS
<1>2. Max({a, b}) \in {a, b} /\ \A y \in {a, b} : Max({a, b}) >= y
  BY <1>1 DEF Max
<1> QED
  BY <1>2

LEMMA MaxThree ==
  ASSUME NEW a \in Nat, NEW b \in Nat, NEW c \in Nat
  PROVE  LET m == Max({a, b, c}) IN m \in Nat /\ m >= a /\ m >= b /\ m >= c
<1>1. \E x \in {a, b, c} : \A y \in {a, b, c} : x >= y
  OBVIOUS
<1>2. Max({a, b, c}) \in {a, b, c} /\ \A y \in {a, b, c} : Max({a, b, c}) >= y
  BY <1>1 DEF Max
<1> QED
  BY <1>2

(* The budget: as many buckets as leave room for what each keeps. *)
LEMMA BudgetFacts ==
  ASSUME NEW q, q.points \in Nat
  PROVE  /\ PerBucket(q) \in Nat \ {0} /\ BucketCount(q) \in Nat \ {0}
         /\ BucketCount(q) * PerBucket(q) <= Max({FullDetail, q.points, PerBucket(q)})
<1>1. PerBucket(q) \in Nat \ {0}
  BY DEF PerBucket
<1> DEFINE p == PerBucket(q)
           d == q.points \div p
           m == Max({FullDetail, q.points, p})
<1> HIDE DEF p
<1>2. d \in Nat /\ d * p <= q.points
  BY <1>1, DivFacts DEF p
<1>3. m \in Nat /\ m >= q.points /\ m >= p
  BY <1>1, MaxThree, LogFileAssumption DEF p
<1> HIDE DEF d, m
<1>4. BucketCount(q) = Max({1, d})
  BY DEF BucketCount, d, p
<1>5. BucketCount(q) \in {1, d} /\ BucketCount(q) >= 1
  BY <1>2, <1>4, MaxTwo
<1>6. BucketCount(q) * p <= m
  <2>1. CASE BucketCount(q) = 1
    BY <2>1, <1>1, <1>3 DEF p
  <2>2. CASE BucketCount(q) = d
    <3>1. d * p \in Nat
      BY <1>1, <1>2 DEF p
    <3> QED
      BY <2>2, <1>2, <1>3, <3>1
  <2> QED
    BY <1>5, <2>1, <2>2
<1> QED
  BY <1>1, <1>2, <1>5, <1>6 DEF p, m

(* A bucket keeps at most PerBucket rows. *)
Pick(g, q, S, l) ==
  LET numbers == {Sample(g, q, i).v : i \in S} \cap Values
  IN CASE l = 1 -> Min(S)
       [] l = 2 -> Max(S)
       [] l = 3 -> Min(Where(g, q, S, Min(numbers)))
       [] l = 4 -> Min(Where(g, q, S, Max(numbers)))
       [] OTHER -> Min(Where(g, q, S, Gap))

LEMMA KeepPicks ==
  ASSUME NEW g, NEW q, NEW S, NEW x \in Keep(g, q, S)
  PROVE  \E l \in 1 .. PerBucket(q) : x = Pick(g, q, S, l)
<1> DEFINE numbers == {Sample(g, q, i).v : i \in S} \cap Values
           vs == (IF numbers = {} THEN {} ELSE {Min(numbers), Max(numbers)})
                   \cup (IF Where(g, q, S, Gap) = {} THEN {} ELSE {Gap})
           firsts == IF ~q.chan THEN {} ELSE {Min(Where(g, q, S, v)) : v \in vs}
<1>1. x \in {Min(S), Max(S)} \cup firsts
  BY Zenon DEF Keep
<1>2. /\ Pick(g, q, S, 1) = Min(S) /\ Pick(g, q, S, 2) = Max(S)
      /\ Pick(g, q, S, 3) = Min(Where(g, q, S, Min(numbers)))
      /\ Pick(g, q, S, 4) = Min(Where(g, q, S, Max(numbers)))
      /\ Pick(g, q, S, 5) = Min(Where(g, q, S, Gap))
  BY DEF Pick
<1>3. ASSUME NEW v \in vs PROVE v \in {Min(numbers), Max(numbers), Gap}
  OBVIOUS
<1> HIDE DEF vs, numbers
<1>4. CASE x \in {Min(S), Max(S)}
  <2>1. 1 \in 1 .. PerBucket(q) /\ 2 \in 1 .. PerBucket(q)
    BY DEF PerBucket
  <2> QED
    BY <1>2, <1>4, <2>1
<1>5. CASE x \in firsts
  <2>1. q.chan /\ \E v \in vs : x = Min(Where(g, q, S, v))
    BY <1>5
  <2>2. 3 \in 1 .. PerBucket(q) /\ 4 \in 1 .. PerBucket(q) /\ 5 \in 1 .. PerBucket(q)
    BY <2>1 DEF PerBucket
  <2> QED
    BY <1>2, <1>3, <2>1, <2>2
<1> QED
  BY <1>1, <1>4, <1>5

LEMMA SampledBound ==
  ASSUME NEW g, NEW q, q.points \in Nat, NEW group, NEW B \in Nat \ {0},
         \A i \in DOMAIN group : group[i] \in 0 .. B - 1
  PROVE  /\ IsFiniteSet(Sampled(g, q, group)) /\ Cardinality(Sampled(g, q, group)) \in Nat
         /\ Cardinality(Sampled(g, q, group)) <= B * PerBucket(q)
<1> DEFINE S(k) == {i \in DOMAIN group : group[i] = k}
           p == PerBucket(q)
           D == (0 .. B - 1) \X (1 .. p)
           f == [d \in D |-> Sample(g, q, Pick(g, q, S(d[1]), d[2]))]
           T == Sampled(g, q, group)
<1>0. p \in Nat \ {0}
  BY BudgetFacts
<1>1. IsFiniteSet(D) /\ Cardinality(D) = B * p
  <2>1. IsFiniteSet(0 .. B - 1) /\ Cardinality(0 .. B - 1) = B
    BY FS_Interval
  <2>2. IsFiniteSet(1 .. p) /\ Cardinality(1 .. p) = p
    BY <1>0, FS_Interval
  <2> HIDE DEF p
  <2> QED
    BY <2>1, <2>2, FS_Product
<1>2. ASSUME NEW y \in T PROVE \E d \in D : y = f[d]
  <2>0. PICK k \in Range(group) : \E x \in Keep(g, q, S(k)) : y = Sample(g, q, x)
    BY <1>2 DEF Sampled
  <2>1. PICK x \in Keep(g, q, S(k)) : y = Sample(g, q, x)
    BY <2>0
  <2>2. k \in 0 .. B - 1
    BY <2>1 DEF Range
  <2>3. PICK l \in 1 .. p : x = Pick(g, q, S(k), l)
    BY <2>1, KeepPicks
  <2>4. <<k, l>> \in D
    BY <2>2, <2>3
  <2>5. f[<<k, l>>] = Sample(g, q, Pick(g, q, S(k), l))
    BY <2>4
  <2> QED
    BY <2>1, <2>3, <2>4, <2>5
<1>3. f = [d \in D |-> f[d]]
  OBVIOUS
<1> HIDE DEF f, D, T
<1>4. IsFiniteSet(T) /\ Cardinality(T) \in Nat /\ Cardinality(T) <= Cardinality(D)
  BY <1>1, <1>2, <1>3, ReachBound
<1> QED
  BY <1>1, <1>4 DEF T

(* Every line starts within the recording. *)
LEMMA OffsetWithin ==
  ASSUME NEW f, Sane(f), NEW i \in 1 .. Len(f.lines)
  PROVE  Offset(f, i) \in Nat /\ Offset(f, i) < BodySize(f)
<1> DEFINE n == Len(f.lines)
           M == {j \in 1 .. i - 1 : IsMark(f, j)}
           N == {j \in 1 .. n - 1 : IsMark(f, j)}
<1>1. n \in Nat \ {0} /\ i - 1 \in Nat /\ n - 1 \in Nat /\ f.lines # <<>>
  BY DEF Sane, Files
<1>2. /\ IsFiniteSet(M) /\ Cardinality(M) \in Nat
      /\ IsFiniteSet(N) /\ Cardinality(N) \in Nat
  BY <1>1, MarksFacts, Zenon
<1>3. IsFiniteSet(i .. n - 1) /\ Cardinality(i .. n - 1) = n - i
  <2>1. i \in Int /\ n - 1 \in Int /\ i <= n
    BY <1>1
  <2>2. /\ IsFiniteSet(i .. n - 1)
        /\ Cardinality(i .. n - 1) = IF i > n - 1 THEN 0 ELSE (n - 1) - i + 1
    BY <2>1, FS_Interval, Zenon
  <2> QED
    BY <1>1, <2>1, <2>2
<1>4. N \subseteq M \cup (i .. n - 1)
  BY <1>1
<1>5. Offset(f, i) = 2 * (i - 1) - Cardinality(M) /\ Offset(f, n) = 2 * (n - 1) - Cardinality(N)
  BY DEF Offset
<1> HIDE DEF M, N
<1>6. /\ IsFiniteSet(M \cup (i .. n - 1))
      /\ Cardinality(M \cup (i .. n - 1)) =
           Cardinality(M) + Cardinality(i .. n - 1) - Cardinality(M \cap (i .. n - 1))
  BY <1>2, <1>3, FS_Union
<1>7. Cardinality(M \cap (i .. n - 1)) \in Nat
  BY <1>2, FS_Intersection, FS_CardinalityType
<1>8. Cardinality(N) <= Cardinality(M \cup (i .. n - 1))
  BY <1>4, <1>6, FS_Subset
<1>9. Cardinality(N) <= Cardinality(M) + (n - i)
  BY <1>1, <1>2, <1>3, <1>6, <1>7, <1>8
<1>10. Offset(f, i) <= Offset(f, n)
  BY <1>1, <1>2, <1>5, <1>9
<1>11. Offset(f, i) \in Nat /\ Offset(f, n) \in Nat
  BY <1>1, OffsetNext
<1>12. LineSize(f, n) \in {1, 2}
  BY DEF LineSize
<1>13. BodySize(f) = Offset(f, n) + LineSize(f, n)
  BY <1>1 DEF BodySize
<1> QED
  BY <1>10, <1>11, <1>12, <1>13

LEMMA RowsFacts ==
  ASSUME NEW f, Sane(f)
  PROVE  /\ Timed(f) \subseteq 1 .. Len(f.lines) /\ IsFiniteSet(Timed(f))
         /\ Len(f.lines) \in Nat
<1>1. f.lines \in Seq(Lines)
  BY DEF Sane, Files
<1>2. Len(f.lines) \in Nat /\ DOMAIN f.lines = 1 .. Len(f.lines)
  BY <1>1, LenProperties
<1>3. Timed(f) \subseteq 1 .. Len(f.lines)
  BY <1>2 DEF Timed, Counted
<1>4. IsFiniteSet(1 .. Len(f.lines))
  BY <1>2, FS_Interval
<1> QED
  BY <1>2, <1>3, <1>4, FS_Subset

(* build: bytes are shared out among the buckets. *)
LEMMA OverviewBound ==
  ASSUME NEW f, Sane(f), NEW q, q.points \in Nat
  PROVE  /\ Cardinality(Overview(f, q)) \in Nat
         /\ Cardinality(Overview(f, q)) <= BucketCount(q) * PerBucket(q)
<1> DEFINE B == BucketCount(q)
           bytes == Max({1, CeilDiv(BodySize(f), B)})
           group == [i \in Timed(f) |-> Offset(f, i) \div bytes]
<1>1. B \in Nat \ {0} /\ BodySize(f) \in Nat
  BY BudgetFacts, SizeType
<1> HIDE DEF B
<1>2. CeilDiv(BodySize(f), B) \in Nat /\ BodySize(f) <= B * CeilDiv(BodySize(f), B)
  BY <1>1, CeilDivFacts
<1> DEFINE c == CeilDiv(BodySize(f), B)
<1>3. bytes \in Nat \ {0} /\ bytes >= c /\ c \in Nat
  BY <1>2, MaxTwo
<1> HIDE DEF bytes, c
<1>4. BodySize(f) <= B * bytes
  <2>1. BodySize(f) <= B * c /\ B * c \in Nat /\ B * bytes \in Nat
    BY <1>1, <1>2, <1>3 DEF c
  <2>2. B * c <= B * bytes
    BY <1>1, <1>3
  <2> QED
    BY <1>1, <2>1, <2>2
<1>5. ASSUME NEW i \in DOMAIN group PROVE group[i] \in 0 .. B - 1
  <2>1. i \in 1 .. Len(f.lines) /\ group[i] = Offset(f, i) \div bytes
    BY <1>5, RowsFacts
  <2>2. Offset(f, i) \in Nat /\ Offset(f, i) < BodySize(f)
    BY <2>1, OffsetWithin
  <2>3. Offset(f, i) < B * bytes
    <3>1. B * bytes \in Nat
      BY <1>1, <1>3
    <3> QED
      BY <1>1, <1>4, <2>2, <3>1
  <2> QED
    BY <1>1, <1>3, <2>1, <2>2, <2>3, DivBound
<1>6. Overview(f, q) = Sampled(f, q, group)
  BY DEF Overview, bytes, B
<1> HIDE DEF group
<1>7. /\ Cardinality(Sampled(f, q, group)) \in Nat
      /\ Cardinality(Sampled(f, q, group)) <= B * PerBucket(q)
  BY <1>1, <1>5, SampledBound
<1> QED
  BY <1>6, <1>7 DEF B

(* A row alone in its bucket is kept, and nothing else. *)
LEMMA KeepOne ==
  ASSUME NEW g, NEW q, NEW i \in Nat, NEW x \in Keep(g, q, {i})
  PROVE  x = i
<1> DEFINE w == Sample(g, q, i).v
           numbers == {Sample(g, q, j).v : j \in {i}} \cap Values
           vs == (IF numbers = {} THEN {} ELSE {Min(numbers), Max(numbers)})
                   \cup (IF Where(g, q, {i}, Gap) = {} THEN {} ELSE {Gap})
           firsts == IF ~q.chan THEN {} ELSE {Min(Where(g, q, {i}, v)) : v \in vs}
<1>1. ASSUME NEW a \in Nat PROVE Min({a}) = a /\ Max({a}) = a
  BY DEF Min, Max
<1>2. x \in {Min({i}), Max({i})} \cup firsts
  BY Zenon DEF Keep
<1>3. numbers = {} \/ (numbers = {w} /\ w \in Nat)
  BY LogFileAssumption
<1>4. \A v : Where(g, q, {i}, v) = IF v = w THEN {i} ELSE {}
  BY DEF Where
<1> HIDE DEF w, numbers
<1>5. \A v \in vs : v = w
  BY <1>1, <1>3, <1>4
<1> QED
  BY <1>1, <1>2, <1>4, <1>5

(* Ranks: how many rows come before. *)
LEMMA RankFacts ==
  ASSUME NEW R \in SUBSET Nat, IsFiniteSet(R), NEW i \in R
  PROVE  /\ Cardinality({j \in R : j < i}) \in Nat /\ Cardinality(R) \in Nat
         /\ Cardinality({j \in R : j < i}) < Cardinality(R)
         /\ \A k \in R : k < i =>
              Cardinality({j \in R : j < k}) < Cardinality({j \in R : j < i})
<1>1. ASSUME NEW S, NEW T, IsFiniteSet(S), T \subseteq S, T # S
      PROVE  /\ Cardinality(T) \in Nat /\ Cardinality(S) \in Nat /\ IsFiniteSet(T)
             /\ Cardinality(T) < Cardinality(S)
  <2>1. /\ IsFiniteSet(T) /\ Cardinality(T) <= Cardinality(S)
        /\ Cardinality(S) = Cardinality(T) <=> S = T
    BY <1>1, FS_Subset
  <2>2. Cardinality(T) \in Nat /\ Cardinality(S) \in Nat
    BY <1>1, <2>1, FS_CardinalityType
  <2> QED
    BY <1>1, <2>1, <2>2
<1> DEFINE Before(k) == {j \in R : j < k}
<1>2. Before(i) \subseteq R /\ Before(i) # R
  OBVIOUS
<1>3. ASSUME NEW k \in R, k < i
      PROVE  Before(k) \subseteq Before(i) /\ Before(k) # Before(i)
  <2>1. k \in Nat /\ i \in Nat
    BY <1>3
  <2>2. k \in Before(i) /\ k \notin Before(k)
    BY <1>3, <2>1
  <2>3. \A j \in Nat : j < k => j < i
    BY <1>3, <2>1
  <2>4. Before(k) \subseteq Before(i)
    BY <2>3
  <2> QED
    BY <2>2, <2>4
<1> HIDE DEF Before
<1>4. /\ Cardinality(Before(i)) \in Nat /\ Cardinality(R) \in Nat /\ IsFiniteSet(Before(i))
      /\ Cardinality(Before(i)) < Cardinality(R)
  BY <1>1, <1>2
<1>5. ASSUME NEW k \in R, k < i PROVE Cardinality(Before(k)) < Cardinality(Before(i))
  BY <1>1, <1>3, <1>4, <1>5
<1> QED
  BY <1>4, <1>5 DEF Before

(* load: rows are shared out among the buckets, or sent one by one. *)
LEMMA ZoomBound ==
  ASSUME NEW index, IsFiniteSet(index.entries), index.entries \subseteq Nat,
         NEW g, NEW q, q.points \in Nat
  PROVE  /\ Cardinality(Zoom(index, g, q)) \in Nat
         /\ Cardinality(Zoom(index, g, q)) <= Max({FullDetail, q.points, PerBucket(q)})
<1> DEFINE rows == {i \in index.entries : Covers(q, i)}
           n == Cardinality(rows)
           B == BucketCount(q)
           size == IF n > FullDetail THEN CeilDiv(n, B) ELSE 1
           rank(i) == Cardinality({j \in rows : j < i})
           group == [i \in rows |-> rank(i) \div size]
           m == Max({FullDetail, q.points, PerBucket(q)})
<1>1. rows \in SUBSET Nat /\ rows \subseteq index.entries
  OBVIOUS
<1>2. Zoom(index, g, q) = Sampled(g, q, group)
  BY Zenon DEF Zoom
<1> HIDE DEF rows
<1>3. IsFiniteSet(rows) /\ n \in Nat
  BY <1>1, FS_Subset, FS_CardinalityType
<1>4. /\ \A i \in rows : rank(i) \in Nat /\ rank(i) < n
      /\ \A i, k \in rows : k < i => rank(k) < rank(i)
  BY <1>1, <1>3, RankFacts
<1>5. m \in Nat /\ m >= FullDetail /\ FullDetail \in Nat
  BY MaxThree, BudgetFacts, LogFileAssumption
<1>6. B \in Nat \ {0} /\ PerBucket(q) \in Nat \ {0} /\ B * PerBucket(q) <= m
  BY BudgetFacts
<1> HIDE DEF B, n, rank, m
<1>7. CASE n > FullDetail
  <2>1. size = CeilDiv(n, B) /\ size \in Nat /\ n <= B * size
    BY <1>3, <1>6, <1>7, CeilDivFacts
  <2> HIDE DEF size
  <2>2. size # 0
    BY <1>3, <1>5, <1>6, <1>7, <2>1
  <2>3. ASSUME NEW i \in DOMAIN group PROVE group[i] \in 0 .. B - 1
    <3>1. i \in rows /\ group[i] = rank(i) \div size
      BY <2>3
    <3>2. rank(i) \in Nat /\ rank(i) < B * size
      <4>1. B * size \in Nat
        BY <1>6, <2>1
      <4> QED
        BY <1>3, <1>4, <2>1, <3>1, <4>1
    <3> QED
      BY <1>6, <2>1, <2>2, <3>1, <3>2, DivBound
  <2> HIDE DEF group
  <2>4. /\ Cardinality(Sampled(g, q, group)) \in Nat
        /\ Cardinality(Sampled(g, q, group)) <= B * PerBucket(q)
    BY <1>6, <2>3, SampledBound
  <2>5. B * PerBucket(q) \in Nat
    BY <1>6
  <2> QED
    BY <1>2, <1>5, <1>6, <2>4, <2>5 DEF m
<1>8. CASE ~(n > FullDetail)
  <2>1. size = 1
    BY <1>8
  <2>2. \A i \in rows : group[i] = rank(i)
    <3>1. \A a \in Nat : a \div 1 = a
      OBVIOUS
    <3> QED
      BY <1>4, <2>1, <3>1
  <2>3. DOMAIN group = rows
    OBVIOUS
  <2> HIDE DEF group, size
  <2> DEFINE f == [i \in rows |-> Sample(g, q, i)]
             T == Sampled(g, q, group)
  <2>4. ASSUME NEW y \in T PROVE \E i \in rows : y = f[i]
    <3>1. PICK k \in Range(group) :
            \E x \in Keep(g, q, {i \in DOMAIN group : group[i] = k}) : y = Sample(g, q, x)
      BY <2>4 DEF Sampled
    <3>2. PICK i \in rows : k = group[i]
      BY <2>3, <3>1 DEF Range
    <3>3. {j \in DOMAIN group : group[j] = k} = {i}
      <4>1. ASSUME NEW j \in rows, group[j] = k PROVE j = i
        <5>1. rank(j) = rank(i) /\ rank(i) \in Nat /\ j \in Nat /\ i \in Nat
          BY <1>1, <1>4, <2>2, <3>2, <4>1
        <5>2. ~(j < i) /\ ~(i < j)
          BY <1>4, <5>1
        <5> QED
          BY <5>1, <5>2
      <4> QED
        BY <2>3, <3>2, <4>1
    <3>4. PICK x \in Keep(g, q, {i}) : y = Sample(g, q, x)
      BY <3>1, <3>3
    <3>5. x = i
      BY <1>1, <3>2, <3>4, KeepOne
    <3> QED
      BY <3>4, <3>5
  <2>5. f = [i \in rows |-> f[i]]
    OBVIOUS
  <2> HIDE DEF f, T
  <2>6. Cardinality(T) \in Nat /\ Cardinality(T) <= Cardinality(rows)
    BY <1>3, <2>4, <2>5, ReachBound
  <2> QED
    BY <1>2, <1>3, <1>5, <1>8, <2>6 DEF T, m, n
<1> QED
  BY <1>7, <1>8

(* What serialize_overviews keeps are views of the index. *)
LEMMA NthFacts ==
  ASSUME NEW K \in SUBSET Nat, IsFiniteSet(K), NEW k \in 1 .. Cardinality(K)
  PROVE  \E i \in K : Cardinality({j \in K : j <= i}) = k
<1> DEFINE n == Cardinality(K)
           rank(i) == Cardinality({j \in K : j <= i})
<1>1. n \in Nat
  BY FS_CardinalityType
<1>2. ASSUME NEW i \in K
      PROVE  /\ Cardinality({j \in K : j < i}) \in Nat
             /\ rank(i) = Cardinality({j \in K : j < i}) + 1 /\ rank(i) \in 1 .. n
  <2> DEFINE b == {j \in K : j < i}
  <2>1. {j \in K : j <= i} = b \cup {i} /\ i \notin b /\ b \subseteq K
    <3>1. \A j \in Nat : j <= i <=> (j < i \/ j = i)
      BY <1>2
    <3>2. i \in K /\ K \subseteq Nat /\ ~(i < i)
      BY <1>2
    <3> QED
      BY <3>1, <3>2
  <2>2. Cardinality(b) \in Nat /\ Cardinality(b) < n
    BY <1>2, RankFacts
  <2> HIDE DEF b
  <2>3. rank(i) = Cardinality(b) + 1
    BY <2>1, FS_Subset, FS_AddElement
  <2>4. rank(i) \in 1 .. n
    BY <1>1, <2>2, <2>3
  <2> QED
    BY <2>2, <2>3, <2>4 DEF b
<1>3. ASSUME NEW i \in K, NEW h \in K, h < i PROVE rank(h) < rank(i)
  <2>1. Cardinality({j \in K : j < h}) < Cardinality({j \in K : j < i})
    BY <1>3, RankFacts
  <2> QED
    BY <1>2, <2>1
<1> HIDE DEF rank, n
<1> DEFINE f == [i \in K |-> rank(i)]
<1>4. f \in [K -> 1 .. n]
  BY <1>2
<1>5. ASSUME NEW i \in K, NEW h \in K, f[i] = f[h] PROVE i = h
  <2>0. rank(i) = rank(h)
    BY <1>5
  <2>3. rank(i) \in 1 .. n
    BY <1>2, <1>5, Zenon
  <2>4. i \in Nat /\ h \in Nat
    BY <1>5, Zenon
  <2>1. rank(i) = rank(h) /\ rank(i) \in Nat /\ i \in Nat /\ h \in Nat
    BY <1>1, <2>0, <2>3, <2>4
  <2>2. ~(i < h) /\ ~(h < i)
    BY <1>3, <2>1
  <2> QED
    BY <2>1, <2>2
<1>6. \A i \in K : f[i] = rank(i)
  OBVIOUS
<1> HIDE DEF f
<1>7. f \in Injection(K, 1 .. n)
  <2>1. \A i, h \in K : f[i] = f[h] => i = h
    BY <1>5, Zenon
  <2> QED
    BY <1>4, <2>1, Zenon DEF Injection, IsInjective
<1>8. IsFiniteSet(1 .. n) /\ Cardinality(1 .. n) = n
  BY <1>1, FS_Interval
<1>9. f \in Surjection(K, 1 .. n)
  BY <1>7, <1>8, FS_Injection DEF n
<1>10. k \in 1 .. n
  BY DEF n
<1>11. \E i \in K : f[i] = k
  BY <1>9, <1>10 DEF Surjection
<1> QED
  BY <1>6, <1>11 DEF rank

-----------------------------------------------------------------------------
(* What survives of the rows. *)

(* A nonempty set of naturals has a least element. *)
LEMMA LeastNat ==
  ASSUME NEW T \in SUBSET Nat, T # {}
  PROVE  \E x \in T : \A y \in T : x <= y
<1>1. IsWellFoundedOn(OpToRel(<, Nat), Nat)
  BY NatLessThanWellFounded
<1>2. PICK x \in T : \A y \in T : ~ (<<y, x>> \in OpToRel(<, Nat))
  BY <1>1, WFMin
<1>3. \A y \in T : ~(y < x)
  BY <1>2 DEF OpToRel
<1> QED
  BY <1>3

(* A finite set of naturals has a bound, a least and a greatest element. *)
LEMMA FiniteBounded ==
  ASSUME NEW S \in SUBSET Nat, IsFiniteSet(S)
  PROVE  \E b \in Nat : \A y \in S : y <= b
<1>1. Cardinality(S) \in Nat /\ ExistsBijection(1 .. Cardinality(S), S)
  BY FS_CardinalityType
<1> DEFINE n == Cardinality(S)
<1>2. PICK f : f \in Bijection(1 .. n, S)
  BY <1>1 DEF ExistsBijection
<1>3. /\ \A k \in 1 .. n : f[k] \in Nat
      /\ \A y \in S : \E k \in 1 .. n : f[k] = y
  BY <1>2 DEF Bijection, Injection, Surjection
<1> DEFINE Ok(k) == \E b \in Nat : \A j \in 1 .. k : f[j] <= b
           T == {k \in 0 .. n : ~Ok(k)}
<1> HIDE DEF n
<1>4. n \in Nat
  BY <1>1 DEF n
<1>5. ASSUME T # {} PROVE FALSE
  <2>1. T \in SUBSET Nat
    BY <1>4
  <2> HIDE DEF T
  <2>2. PICK k \in T : \A y \in T : k <= y
    BY <1>5, <2>1, LeastNat
  <2>3. k \in 0 .. n /\ ~Ok(k)
    BY <2>2 DEF T
  <2>4. k # 0
    <3>1. \A j \in 1 .. 0 : f[j] <= 0
      OBVIOUS
    <3> QED
      BY <2>3, <3>1
  <2>5. k - 1 \in 0 .. n /\ ~(k <= k - 1)
    BY <1>4, <2>3, <2>4
  <2>6. Ok(k - 1)
    BY <2>2, <2>5 DEF T
  <2>7. PICK b \in Nat : \A j \in 1 .. (k - 1) : f[j] <= b
    BY <2>6
  <2>8. f[k] \in Nat
    BY <1>3, <1>4, <2>3, <2>4
  <2>9. \A j \in 1 .. k : f[j] <= b + f[k]
    <3> SUFFICES ASSUME NEW j \in 1 .. k PROVE f[j] <= b + f[k]
      OBVIOUS
    <3>1. f[j] \in Nat
      BY <1>3, <1>4, <2>3
    <3>2. j \in 1 .. (k - 1) \/ j = k
      BY <2>3, <2>4
    <3> QED
      BY <2>7, <2>8, <3>1, <3>2
  <2>10. b + f[k] \in Nat
    BY <2>8
  <2> QED
    BY <2>3, <2>9, <2>10
<1>6. Ok(n)
  BY <1>4, <1>5
<1> QED
  BY <1>3, <1>6

LEMMA MinMaxFacts ==
  ASSUME NEW S \in SUBSET Nat, S # {}, IsFiniteSet(S)
  PROVE  /\ Min(S) \in S /\ \A y \in S : Min(S) <= y
         /\ Max(S) \in S /\ \A y \in S : y <= Max(S)
<1>1. \E x \in S : \A y \in S : x <= y
  BY LeastNat
<1>2. Min(S) \in S /\ \A y \in S : Min(S) <= y
  BY <1>1 DEF Min
<1> DEFINE B == {b \in Nat : \A y \in S : y <= b}
<1>3. B # {} /\ B \in SUBSET Nat
  BY FiniteBounded
<1>4. PICK b \in B : \A c \in B : b <= c
  BY <1>3, LeastNat
<1>5. b \in S
  <2> SUFFICES ASSUME b \notin S PROVE FALSE
    OBVIOUS
  <2>1. ASSUME NEW y \in S PROVE y < b
    <3>1. y \in Nat /\ b \in Nat /\ y <= b /\ y # b
      BY <1>4, <2>1
    <3> QED
      BY <3>1
  <2>2. b # 0
    <3>1. PICK y \in S : TRUE
      OBVIOUS
    <3>2. y < b /\ y \in Nat
      BY <2>1, <3>1
    <3> QED
      BY <3>2
  <2>3. b - 1 \in B /\ ~(b <= b - 1)
    BY <1>4, <2>1, <2>2
  <2> QED
    BY <1>4, <2>3
<1>6. \A y \in S : b >= y
  BY <1>4
<1>7. Max(S) \in S /\ \A y \in S : Max(S) >= y
  BY <1>5, <1>6 DEF Max
<1> QED
  BY <1>2, <1>7

(* Of the rows V, K keeps the ends, a lowest and a highest value and a gap. *)
Value(g, q, i) == Sample(g, q, i).v
Below(g, q, K, i) == \E j \in K : Value(g, q, j) \in Values /\ Value(g, q, j) <= Value(g, q, i)
Above(g, q, K, i) == \E j \in K : Value(g, q, j) \in Values /\ Value(g, q, i) <= Value(g, q, j)
HasGap(g, q, K) == \E j \in K : Value(g, q, j) = Gap
Kept(g, q, V, K) ==
  /\ K \subseteq V
  /\ V # {} => Min(V) \in K /\ Max(V) \in K
  /\ \A i \in V : Value(g, q, i) \in Values => Below(g, q, K, i) /\ Above(g, q, K, i)
  /\ HasGap(g, q, V) => HasGap(g, q, K)

LEMMA WhereFacts ==
  ASSUME NEW g, NEW q, NEW S \in SUBSET Nat, IsFiniteSet(S), NEW i \in S
  PROVE  LET w == Min(Where(g, q, S, Value(g, q, i)))
         IN w \in S /\ Value(g, q, w) = Value(g, q, i)
<1> DEFINE W == Where(g, q, S, Value(g, q, i))
<1>1. W \subseteq S /\ i \in W /\ \A j \in W : Value(g, q, j) = Value(g, q, i)
  BY DEF Where, Value
<1> HIDE DEF W
<1>2. W \in SUBSET Nat /\ W # {} /\ IsFiniteSet(W)
  BY <1>1, FS_Subset
<1>3. Min(W) \in W
  BY <1>2, MinMaxFacts
<1> QED
  BY <1>1, <1>3 DEF W

(* Bucket: what survives of a group stands for all of it. *)
LEMMA KeepFacts ==
  ASSUME NEW g, NEW q, NEW S \in SUBSET Nat, S # {}, IsFiniteSet(S), q.chan \in BOOLEAN
  PROVE  Kept(g, q, S, Keep(g, q, S))
<1> DEFINE K == Keep(g, q, S)
           numbers == {Sample(g, q, i).v : i \in S} \cap Values
           vs == (IF numbers = {} THEN {} ELSE {Min(numbers), Max(numbers)})
                   \cup (IF Where(g, q, S, Gap) = {} THEN {} ELSE {Gap})
           first(v) == Min(Where(g, q, S, v))
           firsts == IF ~q.chan THEN {} ELSE {first(v) : v \in vs}
<1>1. K = {Min(S), Max(S)} \cup firsts
  BY Zenon DEF Keep
<1>2. Min(S) \in S /\ Max(S) \in S
  BY MinMaxFacts
<1>3. /\ \A n \in numbers : n \in Values /\ n \in Nat /\ \E i \in S : Value(g, q, i) = n
      /\ \A i \in S : Value(g, q, i) \in Values => Value(g, q, i) \in numbers
  BY LogFileAssumption DEF Value
<1>4. IsFiniteSet(numbers)
  <2> DEFINE f == [i \in S |-> Sample(g, q, i).v]
  <2>1. f = [i \in S |-> f[i]] /\ \A n \in numbers : \E i \in S : n = f[i]
    OBVIOUS
  <2> HIDE DEF f, numbers
  <2> QED
    BY <2>1, ReachBound
<1>5. numbers # {} => /\ Min(numbers) \in numbers /\ Max(numbers) \in numbers
                      /\ \A n \in numbers : Min(numbers) <= n /\ n <= Max(numbers)
  <2>1. numbers \in SUBSET Nat
    BY <1>3
  <2> HIDE DEF numbers
  <2> QED
    BY <1>4, <2>1, MinMaxFacts
<1>6. \A v : Where(g, q, S, v) # {} <=> \E i \in S : Value(g, q, i) = v
  BY DEF Where, Value
<1>7. ASSUME NEW v, \E i \in S : Value(g, q, i) = v
      PROVE  first(v) \in S /\ Value(g, q, first(v)) = v
  BY <1>7, WhereFacts
<1>8. vs = (IF numbers = {} THEN {} ELSE {Min(numbers), Max(numbers)})
                   \cup (IF Where(g, q, S, Gap) = {} THEN {} ELSE {Gap})
  OBVIOUS
<1>9. firsts = IF ~q.chan THEN {} ELSE {first(v) : v \in vs}
  OBVIOUS
<1> HIDE DEF numbers, vs, first, firsts, K
<1>10. \A v \in vs : \E i \in S : Value(g, q, i) = v
  BY <1>3, <1>5, <1>6, <1>8
<1>11. K \subseteq S
  BY <1>1, <1>2, <1>7, <1>9, <1>10
<1>12. CASE q.chan
  <2>1. \A v \in vs : first(v) \in K /\ Value(g, q, first(v)) = v
    BY <1>1, <1>7, <1>9, <1>10, <1>12
  <2>2. ASSUME NEW i \in S, Value(g, q, i) \in Values
        PROVE  Below(g, q, K, i) /\ Above(g, q, K, i)
    <3>1. /\ Value(g, q, i) \in numbers /\ Min(numbers) \in vs /\ Max(numbers) \in vs
          /\ Min(numbers) \in Values /\ Max(numbers) \in Values
          /\ Min(numbers) <= Value(g, q, i) /\ Value(g, q, i) <= Max(numbers)
      BY <1>3, <1>5, <1>8, <2>2
    <3> QED
      BY <2>1, <3>1, Zenon DEF Below, Above
  <2>3. HasGap(g, q, S) => HasGap(g, q, K)
    <3>1. HasGap(g, q, S) => Gap \in vs
      BY <1>6, <1>8 DEF HasGap
    <3> QED
      BY <2>1, <3>1 DEF HasGap
  <2> QED
    BY <1>1, <1>11, <2>2, <2>3 DEF Kept, K
<1>13. CASE ~q.chan
  <2>1. \A i : Value(g, q, i) = Gap
    BY <1>13 DEF Value, Sample
  <2>2. Min(S) \in K
    BY <1>1
  <2>3. HasGap(g, q, K)
    BY <2>1, <2>2 DEF HasGap
  <2>4. ASSUME NEW i \in S, Value(g, q, i) \in Values
        PROVE  Below(g, q, K, i) /\ Above(g, q, K, i)
    <3>1. Gap \in Values
      BY <2>1, <2>4, Zenon
    <3>2. Gap <= Gap
      <4>1. Gap \in Nat
        BY <3>1, LogFileAssumption
      <4> QED
        BY <4>1
    <3>3. Below(g, q, K, i)
      BY <2>1, <2>2, <3>1, <3>2 DEF Below
    <3>4. Above(g, q, K, i)
      BY <2>1, <2>2, <3>1, <3>2 DEF Above
    <3> QED
      BY <3>3, <3>4
  <2> QED
    BY <1>1, <1>11, <2>3, <2>4 DEF Kept, K
<1> QED
  BY <1>12, <1>13

(* Sampled group by group, the rows are stood for as in one group. *)
Chosen(g, q, group) ==
  UNION {Keep(g, q, {i \in DOMAIN group : group[i] = k}) : k \in Range(group)}

LEMMA ChosenFacts ==
  ASSUME NEW g, NEW q, NEW group, DOMAIN group \in SUBSET Nat, IsFiniteSet(DOMAIN group),
         q.chan \in BOOLEAN
  PROVE  Kept(g, q, DOMAIN group, Chosen(g, q, group))
<1> DEFINE V == DOMAIN group
           K == Chosen(g, q, group)
           S(i) == {j \in DOMAIN group : group[j] = group[i]}
<1>1. \A x : x \in K <=> \E i \in V : x \in Keep(g, q, S(i))
  BY DEF Chosen, Range
<1>2. ASSUME NEW i \in V
      PROVE  i \in S(i) /\ S(i) \subseteq V /\ Kept(g, q, S(i), Keep(g, q, S(i)))
  <2>1. i \in S(i) /\ S(i) \subseteq V
    BY <1>2
  <2> HIDE DEF S
  <2>2. S(i) \in SUBSET Nat /\ S(i) # {} /\ IsFiniteSet(S(i))
    BY <2>1, FS_Subset
  <2> QED
    BY <2>1, <2>2, KeepFacts
<1> HIDE DEF V, K, S
<1>3. \A i \in V : Keep(g, q, S(i)) \subseteq K
  BY <1>1
<1>4. K \subseteq V
  BY <1>1, <1>2 DEF Kept
<1>5. ASSUME V # {} PROVE Min(V) \in K /\ Max(V) \in K
  <2>0. V \in SUBSET Nat /\ IsFiniteSet(V)
    BY DEF V
  <2>1. /\ Min(V) \in V /\ \A y \in V : Min(V) <= y
        /\ Max(V) \in V /\ \A y \in V : y <= Max(V)
    BY <1>5, <2>0, MinMaxFacts
  <2>2. Min(S(Min(V))) = Min(V)
    <3> DEFINE m == Min(V)
               Z == S(m)
    <3>1. m \in Z /\ Z \subseteq V /\ m \in V /\ \A y \in V : m <= y
      BY <1>2, <2>1
    <3> HIDE DEF m, Z
    <3>2. Z # {} /\ Z \in SUBSET Nat /\ IsFiniteSet(Z)
      BY <2>0, <3>1, FS_Subset
    <3>3. Min(Z) \in Z /\ Min(Z) <= m
      BY <3>1, <3>2, MinMaxFacts
    <3>4. Min(Z) \in Nat /\ m \in Nat /\ m <= Min(Z)
      BY <2>0, <3>1, <3>3
    <3> QED
      BY <3>3, <3>4 DEF m, Z
  <2>3. Max(S(Max(V))) = Max(V)
    <3> DEFINE m == Max(V)
               Z == S(m)
    <3>1. m \in Z /\ Z \subseteq V /\ m \in V /\ \A y \in V : y <= m
      BY <1>2, <2>1
    <3> HIDE DEF m, Z
    <3>2. Z # {} /\ Z \in SUBSET Nat /\ IsFiniteSet(Z)
      BY <2>0, <3>1, FS_Subset
    <3>3. Max(Z) \in Z /\ m <= Max(Z)
      BY <3>1, <3>2, MinMaxFacts
    <3>4. Max(Z) \in Nat /\ m \in Nat /\ Max(Z) <= m
      BY <2>0, <3>1, <3>3
    <3> QED
      BY <3>3, <3>4 DEF m, Z
  <2>4. /\ Min(S(Min(V))) \in Keep(g, q, S(Min(V)))
        /\ Max(S(Max(V))) \in Keep(g, q, S(Max(V)))
    BY <1>2, <2>1 DEF Kept
  <2> QED
    BY <1>3, <2>1, <2>2, <2>3, <2>4
<1>6. ASSUME NEW i \in V, Value(g, q, i) \in Values
      PROVE  Below(g, q, K, i) /\ Above(g, q, K, i)
  <2>1. Below(g, q, Keep(g, q, S(i)), i) /\ Above(g, q, Keep(g, q, S(i)), i)
    BY <1>2, <1>6 DEF Kept
  <2>2. Keep(g, q, S(i)) \subseteq K
    BY <1>3
  <2> QED
    BY <2>1, <2>2, Zenon DEF Below, Above
<1>7. ASSUME HasGap(g, q, V) PROVE HasGap(g, q, K)
  <2>1. PICK i \in V : Value(g, q, i) = Gap
    BY <1>7 DEF HasGap
  <2>2. HasGap(g, q, S(i))
    BY <1>2, <2>1 DEF HasGap
  <2>3. HasGap(g, q, Keep(g, q, S(i)))
    BY <1>2, <2>2 DEF Kept
  <2> QED
    BY <1>3, <2>3 DEF HasGap
<1>8. Kept(g, q, V, K)
  BY <1>4, <1>5, <1>6, <1>7 DEF Kept
<1> QED
  BY <1>8 DEF V, K

-----------------------------------------------------------------------------
(* Faithful answers. *)

(* The abstract specification's operators are those of the model. *)
LEMMA AbsSame ==
  /\ \A f : Abs!Counted(f) = Counted(f)
  /\ \A f, q : Abs!Visible(f, q) = Visible(f, q)
  /\ \A g, q, i : Abs!Sample(g, q, i) = Sample(g, q, i)
  /\ \A S : Abs!Cardinality(S) = Cardinality(S) /\ Abs!Min(S) = Min(S) /\ Abs!Max(S) = Max(S)
<1>1. \A S : Abs!Min(S) = Min(S) /\ Abs!Max(S) = Max(S)
  BY DEF Abs!Min, Min, Abs!Max, Max
<1>2. \A S : Abs!Cardinality(S) = Cardinality(S)
  BY DEF Abs!Cardinality, Cardinality
<1>3. \A f, i : Abs!Text(f, i) = Text(f, i)
  BY <1>1 DEF Abs!Text, Text, Abs!CutShort, CutShort
<1>4. \A f : Abs!Counted(f) = Counted(f)
  BY <1>3 DEF Abs!Counted, Counted
<1>5. \A f, q : Abs!Visible(f, q) = Visible(f, q)
  BY <1>3, <1>4 DEF Abs!Visible, Visible, Abs!Timed, Timed, Abs!Covers, Covers
<1>6. \A g, q, i : Abs!Sample(g, q, i) = Sample(g, q, i)
  BY <1>3 DEF Abs!Sample, Sample
<1> QED
  BY <1>1, <1>2, <1>4, <1>5, <1>6

(* Rows that stand for those a query covers make a faithful answer. *)
LEMMA FaithfulFacts ==
  ASSUME NEW q, NEW f, NEW g, NEW K, Visible(f, q) \in SUBSET Nat, IsFiniteSet(Visible(f, q)),
         Kept(g, q, Visible(f, q), K),
         Cardinality(Visible(f, q)) <= FullDetail => K = Visible(f, q)
  PROVE  Abs!Faithful(q, f, g, {Sample(g, q, i) : i \in K})
<1> DEFINE V == Visible(f, q)
           rows == {Sample(g, q, i) : i \in V}
           samples == {Sample(g, q, i) : i \in K}
           numbers(S) == {s.v : s \in S} \cap Values
           places(S) == {s.row : s \in S}
<1>1. K \subseteq V
  BY DEF Kept
<1>2. samples \subseteq rows
  BY <1>1
<1>3. \A i : Sample(g, q, i).row = i /\ Sample(g, q, i).v = Value(g, q, i)
  BY DEF Sample, Value
<1>4. places(rows) = V /\ places(samples) = K
  BY <1>3
<1>5. /\ \A n : n \in numbers(rows) <=> n \in Values /\ \E i \in V : n = Value(g, q, i)
      /\ \A n : n \in numbers(samples) <=> n \in Values /\ \E i \in K : n = Value(g, q, i)
  BY <1>3
<1>6. /\ (\E s \in rows : s.v = Gap) <=> HasGap(g, q, V)
      /\ (\E s \in samples : s.v = Gap) <=> HasGap(g, q, K)
  BY <1>3 DEF HasGap
<1>7. rows # {} <=> V # {}
  OBVIOUS
<1>8. Cardinality(rows) = Cardinality(V) /\ IsFiniteSet(rows)
  <2> DEFINE h == [i \in V |-> Sample(g, q, i)]
  <2>1. /\ h \in [V -> rows] /\ \A y \in rows : \E i \in V : h[i] = y
        /\ \A i \in V : h[i] = Sample(g, q, i)
    OBVIOUS
  <2>2. \A i, j \in V : h[i] = h[j] => i = j
    BY <1>3, <2>1
  <2> HIDE DEF h, rows, V
  <2>3. h \in Bijection(V, rows)
    BY <2>1, <2>2, Zenon DEF Bijection, Injection, Surjection, IsInjective
  <2>4. ExistsBijection(V, rows)
    BY <2>3 DEF ExistsBijection
  <2> QED
    BY <2>4, FS_Bijection DEF V
<1>9. Cardinality(rows) <= FullDetail => samples = rows
  BY <1>8
<1>10. rows # {} => {Min(places(rows)), Max(places(rows))} \subseteq places(samples)
  BY <1>4, <1>7 DEF Kept
<1>11. ASSUME numbers(rows) # {}
       PROVE  {Min(numbers(rows)), Max(numbers(rows))} \subseteq numbers(samples)
  <2> DEFINE N == numbers(rows)
  <2>0. IsFiniteSet(N)
    <3> DEFINE h == [i \in V |-> Value(g, q, i)]
    <3>1. h = [i \in V |-> h[i]]
      OBVIOUS
    <3>2. \A n \in N : \E i \in V : n = h[i]
      BY <1>5
    <3> HIDE DEF h, N
    <3> QED
      BY <3>1, <3>2, ReachBound
  <2>1. N \in SUBSET Nat
    BY <1>5, LogFileAssumption
  <2> HIDE DEF N
  <2>2. /\ Min(N) \in N /\ \A y \in N : Min(N) <= y
        /\ Max(N) \in N /\ \A y \in N : y <= Max(N)
    BY <1>11, <2>0, <2>1, MinMaxFacts DEF N
  <2>3. Min(N) \in numbers(samples)
    <3>1. PICK i \in V : Min(N) = Value(g, q, i) /\ Value(g, q, i) \in Values
      BY <1>5, <2>2 DEF N
    <3>2. PICK j \in K : Value(g, q, j) \in Values /\ Value(g, q, j) <= Value(g, q, i)
      BY <3>1 DEF Kept, Below
    <3>3. Value(g, q, j) \in N
      BY <1>1, <1>5, <3>2 DEF N
    <3>4. Value(g, q, j) = Min(N)
      <4>1. Min(N) <= Value(g, q, j) /\ Value(g, q, j) <= Min(N)
        BY <2>2, <3>1, <3>2, <3>3
      <4>2. Value(g, q, j) \in Nat /\ Min(N) \in Nat
        BY <2>1, <2>2, <3>3
      <4> QED
        BY <4>1, <4>2
    <3> QED
      BY <1>5, <3>2, <3>4
  <2>4. Max(N) \in numbers(samples)
    <3>1. PICK i \in V : Max(N) = Value(g, q, i) /\ Value(g, q, i) \in Values
      BY <1>5, <2>2 DEF N
    <3>2. PICK j \in K : Value(g, q, j) \in Values /\ Value(g, q, i) <= Value(g, q, j)
      BY <3>1 DEF Kept, Above
    <3>3. Value(g, q, j) \in N
      BY <1>1, <1>5, <3>2 DEF N
    <3>4. Value(g, q, j) = Max(N)
      <4>1. Value(g, q, j) <= Max(N) /\ Max(N) <= Value(g, q, j)
        BY <2>2, <3>1, <3>2, <3>3
      <4>2. Value(g, q, j) \in Nat /\ Max(N) \in Nat
        BY <2>1, <2>2, <3>3
      <4> QED
        BY <4>1, <4>2
    <3> QED
      BY <1>5, <3>2, <3>4
  <2> QED
    BY <2>3, <2>4 DEF N
<1>12. (\E s \in rows : s.v = Gap) => \E s \in samples : s.v = Gap
  BY <1>6 DEF Kept
<1>13. {Abs!Sample(g, q, i) : i \in Abs!Visible(f, q)} = rows
  BY AbsSame
<1>14. /\ Abs!Cardinality(rows) = Cardinality(rows)
       /\ Abs!Min(places(rows)) = Min(places(rows)) /\ Abs!Max(places(rows)) = Max(places(rows))
       /\ Abs!Min(numbers(rows)) = Min(numbers(rows))
       /\ Abs!Max(numbers(rows)) = Max(numbers(rows))
  BY AbsSame, Zenon
<1> HIDE DEF rows, samples
<1>15. Abs!Faithful(q, f, g, samples)
  BY <1>2, <1>9, <1>10, <1>11, <1>12, <1>13, <1>14, Zenon DEF Abs!Faithful
<1> QED
  BY <1>15 DEF samples

LEMMA TextType ==
  ASSUME NEW g, Sane(g), NEW i \in 1 .. Len(g.lines)
  PROVE  Text(g, i) \in Lines
<1>1. g.lines \in Seq(Lines)
  BY DEF Sane, Files
<1>2. g.lines[i] \in Lines
  BY <1>1, ElementOfSeq
<1>3. CutShort(g.lines[i]) \in Lines
  <2>1. CASE g.lines[i] \in Values /\ g.lines[i] > Min(Values)
    <3>1. \E x \in Values : \A y \in Values : x <= y
      BY <2>1, LogFileAssumption, LeastNat
    <3>2. Min(Values) \in Values
      BY <3>1 DEF Min
    <3> QED
      BY <2>1, <3>2 DEF CutShort, Lines
  <2>2. CASE ~(g.lines[i] \in Values /\ g.lines[i] > Min(Values))
    BY <2>2 DEF CutShort, Lines
  <2> QED
    BY <2>1, <2>2
<1> QED
  BY <1>2, <1>3 DEF Text

LEMMA VisibleFacts ==
  ASSUME NEW f, Sane(f), NEW q
  PROVE  /\ Visible(f, q) \in SUBSET Nat /\ IsFiniteSet(Visible(f, q))
         /\ Visible(f, q) \subseteq 1 .. Len(f.lines) /\ Len(f.lines) \in Nat
         /\ Cardinality(Visible(f, q)) \in Nat /\ Cardinality(Counted(f)) \in Nat
         /\ Visible(f, q) \subseteq Timed(f)
<1>1. Timed(f) \subseteq 1 .. Len(f.lines) /\ IsFiniteSet(Timed(f)) /\ Len(f.lines) \in Nat
  BY RowsFacts
<1>2. Visible(f, q) \subseteq Timed(f)
  BY DEF Visible
<1>3. Counted(f) \subseteq 1 .. Len(f.lines)
  <2>1. DOMAIN f.lines = 1 .. Len(f.lines)
    BY LenProperties DEF Sane, Files
  <2> QED
    BY <2>1 DEF Counted
<1>4. IsFiniteSet(1 .. Len(f.lines)) /\ 1 .. Len(f.lines) \subseteq Nat
  BY <1>1, FS_Interval
<1>5. IsFiniteSet(Visible(f, q)) /\ IsFiniteSet(Counted(f))
  BY <1>1, <1>2, <1>3, <1>4, FS_Subset
<1>6. Cardinality(Visible(f, q)) \in Nat /\ Cardinality(Counted(f)) \in Nat
  BY <1>5, FS_CardinalityType
<1> QED
  BY <1>1, <1>2, <1>4, <1>5, <1>6

LEMMA ViewGood ==
  ASSUME NEW q, NEW f, NEW g, NEW index, NEW K,
         Sane(f), Sane(g), f.exists, g.exists, Len(f.lines) <= Len(g.lines),
         Indexes(index, f), Kept(g, q, Visible(f, q), K),
         Cardinality(Visible(f, q)) <= FullDetail => K = Visible(f, q)
  PROVE  Good(<<q, View(index, q, {Sample(g, q, i) : i \in K})>>, f, g)
<1> DEFINE V == Visible(f, q)
           samples == {Sample(g, q, i) : i \in K}
           a == View(index, q, samples)
<1>1. /\ V \in SUBSET Nat /\ IsFiniteSet(V) /\ V \subseteq 1 .. Len(f.lines)
      /\ Len(f.lines) \in Nat /\ Cardinality(V) \in Nat /\ Cardinality(Counted(f)) \in Nat
  BY VisibleFacts
<1>2. {i \in index.entries : Covers(q, i)} = V /\ index.total = Cardinality(Counted(f))
  BY DEF Indexes, Visible
<1>3. samples \subseteq [row : Nat, v : Lines]
  <2> SUFFICES ASSUME NEW i \in K PROVE Sample(g, q, i) \in [row : Nat, v : Lines]
    OBVIOUS
  <2>0. Len(g.lines) \in Nat
    BY RowsFacts
  <2>1. i \in V
    BY DEF Kept
  <2>2. i \in Nat /\ i \in 1 .. Len(g.lines)
    BY <1>1, <2>0, <2>1
  <2>3. Text(g, i) \in Lines /\ Gap \in Lines
    BY <2>2, TextType DEF Lines
  <2> QED
    BY <2>2, <2>3 DEF Sample
<1>4. Abs!Faithful(q, f, g, samples)
  BY <1>1, FaithfulFacts
<1> HIDE DEF samples
<1>5. a = [total |-> Cardinality(Counted(f)), visible |-> Cardinality(V),
           sampled |-> Cardinality(V) > FullDetail, samples |-> samples]
  BY <1>2, Zenon DEF View
<1> HIDE DEF V, a
<1>6. a \in Views
  BY <1>1, <1>3, <1>5 DEF Views
<1>7. /\ a.total = Cardinality(Counted(f)) /\ a.visible = Cardinality(V)
      /\ a.sampled = (a.visible > FullDetail) /\ a.samples = samples
  BY <1>5
<1>8. Abs!Cardinality(Abs!Counted(f)) = Cardinality(Counted(f))
      /\ Abs!Cardinality(Abs!Visible(f, q)) = Cardinality(V)
  BY AbsSame DEF V
<1>9. Abs!Shows(q, f, g, a)
  BY <1>4, <1>7, <1>8, Zenon DEF Abs!Shows
<1> DEFINE e == <<q, a>>
<1>10. e[1] = q /\ e[2] = a
  OBVIOUS
<1> HIDE DEF e
<1>11. Good(e, f, g)
  BY <1>6, <1>9, <1>10, Zenon DEF Good
<1> QED
  BY <1>11 DEF e, a, samples

(* load: the rows found through the index, read from a later recording. *)
LEMMA ZoomGood ==
  ASSUME NEW q, q.chan \in BOOLEAN, NEW f, NEW g, NEW index,
         Sane(f), Sane(g), f.exists, g.exists, Len(f.lines) <= Len(g.lines), Indexes(index, f)
  PROVE  Good(<<q, View(index, q, Zoom(index, g, q))>>, f, g)
<1> DEFINE rows == {i \in index.entries : Covers(q, i)}
           n == Cardinality(rows)
           size == IF n > FullDetail THEN CeilDiv(n, BucketCount(q)) ELSE 1
           rank(i) == Cardinality({j \in rows : j < i})
           group == [i \in rows |-> rank(i) \div size]
           K == Chosen(g, q, group)
<1>1. Zoom(index, g, q) = {Sample(g, q, i) : i \in K}
  BY Zenon DEF Zoom, Sampled, Chosen
<1>2. rows = Visible(f, q)
  BY DEF Indexes, Visible
<1>3. DOMAIN group = rows
  OBVIOUS
<1>4. rows \in SUBSET Nat /\ IsFiniteSet(rows) /\ n \in Nat
  BY <1>2, VisibleFacts
<1> HIDE DEF rows
<1>5. Kept(g, q, rows, K)
  <2> HIDE DEF group
  <2> QED
    BY <1>3, <1>4, ChosenFacts
<1>6. ASSUME n <= FullDetail PROVE K = rows
  <2>1. size = 1
    BY <1>4, <1>6, LogFileAssumption
  <2>2. /\ \A i \in rows : rank(i) \in Nat
        /\ \A i, k \in rows : k < i => rank(k) < rank(i)
    BY <1>4, RankFacts
  <2>3. \A i \in rows : group[i] = rank(i)
    <3>1. \A a \in Nat : a \div 1 = a
      OBVIOUS
    <3> HIDE DEF rank, size
    <3> QED
      BY <2>1, <2>2, <3>1
  <2> HIDE DEF group, rank
  <2>4. ASSUME NEW i \in rows PROVE i \in K
    <3>1. {j \in DOMAIN group : group[j] = group[i]} = {i}
      <4>1. ASSUME NEW j \in rows, group[j] = group[i] PROVE j = i
        <5>1. rank(j) = rank(i) /\ rank(i) \in Nat /\ j \in Nat /\ i \in Nat
          BY <1>4, <2>2, <2>3, <2>4, <4>1
        <5>2. ~(j < i) /\ ~(i < j)
          BY <2>2, <2>4, <4>1, <5>1
        <5> QED
          BY <5>1, <5>2
      <4> QED
        BY <1>3, <2>4, <4>1
    <3>2. Min({i}) \in Keep(g, q, {i})
      BY Zenon DEF Keep
    <3>3. Min({i}) = i
      BY <1>4, <2>4 DEF Min
    <3>4. group[i] \in Range(group)
      BY <1>3, <2>4 DEF Range
    <3>5. i \in Keep(g, q, {j \in DOMAIN group : group[j] = group[i]})
      BY <3>1, <3>2, <3>3
    <3> QED
      BY <3>4, <3>5 DEF Chosen
  <2> QED
    BY <1>5, <2>4 DEF Kept
<1> HIDE DEF K, n
<1>7. Good(<<q, View(index, q, {Sample(g, q, i) : i \in K})>>, f, g)
  BY <1>2, <1>5, <1>6, ViewGood DEF n
<1> QED
  BY <1>1, <1>7

(* build: every row, or the rows of one pass. *)
LEMMA OverviewGood ==
  ASSUME NEW q, q.chan \in BOOLEAN, q.whole, NEW f, Sane(f), f.exists,
         NEW index, Indexes(index, f), NEW samples,
         samples = IF Cardinality(Timed(f)) <= FullDetail
                   THEN {Sample(f, q, i) : i \in Timed(f)} ELSE Overview(f, q)
  PROVE  Good(<<q, View(index, q, samples)>>, f, f)
<1>1. Visible(f, q) = Timed(f)
  BY DEF Visible, Covers
<1>2. /\ Timed(f) \in SUBSET Nat /\ IsFiniteSet(Timed(f)) /\ Cardinality(Timed(f)) \in Nat
      /\ Len(f.lines) \in Nat
  BY <1>1, VisibleFacts
<1>3. Len(f.lines) <= Len(f.lines)
  BY <1>2
<1>4. CASE Cardinality(Timed(f)) <= FullDetail
  <2> DEFINE K == Timed(f)
  <2>1. Kept(f, q, K, K)
    <3>1. K # {} => Min(K) \in K /\ Max(K) \in K
      BY <1>2, MinMaxFacts
    <3>2. ASSUME NEW i \in K, Value(f, q, i) \in Values
          PROVE  Below(f, q, K, i) /\ Above(f, q, K, i)
      <4>1. Value(f, q, i) \in Nat
        BY <3>2, LogFileAssumption
      <4>2. Value(f, q, i) <= Value(f, q, i)
        BY <4>1
      <4> QED
        BY <3>2, <4>2, Zenon DEF Below, Above
    <3> QED
      BY <3>1, <3>2 DEF Kept
  <2>2. samples = {Sample(f, q, i) : i \in K}
    BY <1>4
  <2> HIDE DEF K
  <2>3. Kept(f, q, Visible(f, q), K) /\ K = Visible(f, q)
    BY <1>1, <2>1 DEF K
  <2> QED
    BY <1>3, <2>2, <2>3, ViewGood
<1>5. CASE ~(Cardinality(Timed(f)) <= FullDetail)
  <2> DEFINE bytes == Max({1, CeilDiv(BodySize(f), BucketCount(q))})
             group == [i \in Timed(f) |-> Offset(f, i) \div bytes]
             K == Chosen(f, q, group)
  <2>1. samples = {Sample(f, q, i) : i \in K}
    BY <1>5, Zenon DEF Overview, Sampled, Chosen
  <2>2. DOMAIN group = Timed(f)
    OBVIOUS
  <2>3. Kept(f, q, Timed(f), K)
    <3> HIDE DEF group
    <3> QED
      BY <1>2, <2>2, ChosenFacts
  <2> HIDE DEF K
  <2> QED
    BY <1>1, <1>3, <1>5, <2>1, <2>3, ViewGood
<1> QED
  BY <1>4, <1>5

-----------------------------------------------------------------------------
(* An index goes on fitting a recording that grows, goes or is made anew. *)

LEMMA FitsGrown ==
  ASSUME NEW index, NEW f, NEW g, NEW m \in Nat, NEW n \in {m, m + 1},
         Fits(index, f, m), f.exists, Sane(f), Sane(g), FileSize(f) < FileSize(g)
  PROVE  Fits(index, g, n)
<1>1. FileSize(f) \in Nat /\ FileSize(g) \in Nat
  BY SizeType
<1>2. CASE n = m
  BY <1>1, <1>2 DEF Fits
<1>3. CASE n = m + 1
  BY <1>3 DEF Fits
<1> QED
  BY <1>2, <1>3

LEMMA FitsMoved ==
  ASSUME NEW index, NEW f, NEW g, NEW m \in Nat, Fits(index, f, m)
  PROVE  Fits(index, g, m + 1) /\ (~g.exists => Fits(index, g, m))
  BY DEF Fits

LEMMA FitsSame ==
  ASSUME NEW index, NEW other, NEW f, NEW m, Fits(index, f, m),
         other.stamp = index.stamp, other.total = index.total, other.entries = index.entries
  PROVE  Fits(other, f, m)
  BY DEF Fits, Indexes

(* Views. *)

LEMMA RangeSeq ==
  ASSUME NEW S, NEW v \in Seq(S)
  PROVE  v \in Seq(Range(v)) /\ Range(v) \subseteq S
<1>1. DOMAIN v = 1 .. Len(v) /\ Len(v) \in Nat /\ v = [i \in 1 .. Len(v) |-> v[i]]
  BY LenProperties
<1>2. \A i \in 1 .. Len(v) : v[i] \in S /\ v[i] \in Range(v)
  BY <1>1, ElementOfSeq DEF Range
<1>3. v \in [1 .. Len(v) -> Range(v)]
  BY <1>1, <1>2
<1>4. v \in Seq(Range(v))
  BY <1>1, <1>3
<1> QED
  BY <1>1, <1>2, <1>4 DEF Range

(* Evicted leaves room for a view. *)
LEMMA EvictedFacts ==
  ASSUME NEW S, NEW v \in Seq(S), Len(v) <= MaxViews
  PROVE  Evicted(v) \in Seq(S) /\ Len(Evicted(v)) < MaxViews
<1>0. MaxViews \in Nat \ {0} /\ Len(v) \in Nat
  BY LogIndexAssumption, LenProperties
<1>3. DOMAIN v = 1 .. Len(v)
  BY LenProperties
<1>1. CASE Len(v) # MaxViews
  <2>1. Evicted(v) = v
    BY <1>1, Zenon DEF Evicted
  <2>2. Len(v) < MaxViews
    BY <1>0, <1>1
  <2> QED
    BY <2>1, <2>2, Zenon
<1>2. CASE Len(v) = MaxViews
  <2> DEFINE zooms == {k \in DOMAIN v : ~v[k][1].whole}
             i == IF zooms = {} THEN 1 ELSE Min(zooms)
  <2>1. i \in 1 .. Len(v)
    <3>1. CASE zooms = {}
      BY <3>1, <1>0, <1>2
    <3>2. CASE zooms # {}
      <4>1. zooms \in SUBSET Nat /\ zooms \subseteq 1 .. Len(v)
        BY <1>0, <1>3
      <4> HIDE DEF zooms
      <4>2. \E x \in zooms : \A y \in zooms : x <= y
        BY <3>2, <4>1, LeastNat
      <4>3. Min(zooms) \in zooms
        BY <4>2 DEF Min
      <4> QED
        BY <3>2, <4>1, <4>3
    <3> QED
      BY <3>1, <3>2
  <2>2. Evicted(v) = RemoveAt(v, i)
    BY <1>2 DEF Evicted
  <2> HIDE DEF i
  <2>3. /\ SubSeq(v, 1, i - 1) \in Seq(S) /\ Len(SubSeq(v, 1, i - 1)) = i - 1
        /\ SubSeq(v, i + 1, Len(v)) \in Seq(S) /\ Len(SubSeq(v, i + 1, Len(v))) = Len(v) - i
    <3>1. \A k \in 1 .. Len(v) : v[k] \in S
      BY ElementOfSeq
    <3>2. SubSeq(v, 1, i - 1) \in Seq(S) /\ Len(SubSeq(v, 1, i - 1)) = i - 1
      <4>1. i - 1 \in Int /\ 1 \in Int /\ \A k \in 1 .. i - 1 : v[k] \in S
        BY <2>1, <1>0, <3>1
      <4>2. /\ SubSeq(v, 1, i - 1) \in Seq(S)
            /\ Len(SubSeq(v, 1, i - 1)) = IF 1 <= i - 1 THEN (i - 1) - 1 + 1 ELSE 0
        BY <4>1, SubSeqProperties
      <4> QED
        BY <4>2, <2>1, <1>0
    <3>3. SubSeq(v, i + 1, Len(v)) \in Seq(S) /\ Len(SubSeq(v, i + 1, Len(v))) = Len(v) - i
      <4>1. i + 1 \in Int /\ Len(v) \in Int /\ \A k \in i + 1 .. Len(v) : v[k] \in S
        BY <2>1, <1>0, <3>1
      <4>2. /\ SubSeq(v, i + 1, Len(v)) \in Seq(S)
            /\ Len(SubSeq(v, i + 1, Len(v))) =
                 IF i + 1 <= Len(v) THEN Len(v) - (i + 1) + 1 ELSE 0
        BY <4>1, SubSeqProperties
      <4> QED
        BY <4>2, <2>1, <1>0
    <3> QED
      BY <3>2, <3>3
  <2>4. /\ RemoveAt(v, i) \in Seq(S) /\ Len(RemoveAt(v, i)) = (i - 1) + (Len(v) - i)
    BY <2>3, ConcatProperties DEF RemoveAt
  <2> QED
    BY <1>0, <1>2, <2>1, <2>2, <2>4
<1> QED
  BY <1>1, <1>2

(* serialize_overviews keeps some of the views. *)
LEMMA SerializeFacts ==
  ASSUME NEW index, Shaped(index)
  PROVE  /\ Shaped(serialize_overviews(index))
         /\ \A f, m : Fits(index, f, m) => Fits(serialize_overviews(index), f, m)
         /\ Range(serialize_overviews(index).views) \subseteq Range(index.views)
         /\ serialize_overviews(index).stamp = index.stamp
<1> DEFINE out == serialize_overviews(index)
           keep == {i \in DOMAIN index.views : index.views[i][1].whole}
           nth(k) == CHOOSE i \in keep : Cardinality({j \in keep : j <= i}) = k
           s == [k \in 1 .. Cardinality(keep) |-> index.views[nth(k)]]
<1>1. /\ out.stamp = index.stamp /\ out.total = index.total /\ out.entries = index.entries
      /\ out = [stamp |-> out.stamp, total |-> out.total, entries |-> out.entries,
                views |-> out.views]
      /\ out.views = s
  <2>1. out = [index EXCEPT !.views = s]
    BY Zenon DEF serialize_overviews
  <2> HIDE DEF s, out
  <2> QED
    BY <2>1 DEF Shaped
<1>2. DOMAIN index.views = 1 .. Len(index.views) /\ Len(index.views) \in Nat
  BY LenProperties DEF Shaped
<1>3. Cardinality(keep) \in Nat /\ Cardinality(keep) <= Len(index.views)
  <2>1. IsFiniteSet(1 .. Len(index.views)) /\ Cardinality(1 .. Len(index.views)) = Len(index.views)
    BY <1>2, FS_Interval
  <2>2. keep \subseteq 1 .. Len(index.views)
    BY <1>2
  <2> HIDE DEF keep
  <2> QED
    BY <2>1, <2>2, FS_Subset, FS_CardinalityType
<1>8. PICK S : index.views \in Seq(S) /\ \A e \in S : Bounded(e)
  BY DEF Shaped
<1>9. ASSUME NEW T, index.views \in Seq(T) PROVE s \in Seq(T) /\ Len(s) = Cardinality(keep)
  <2> DEFINE n == Cardinality(keep)
  <2>1. ASSUME NEW k \in 1 .. n PROVE index.views[nth(k)] \in T
    <3>1. keep \in SUBSET Nat /\ IsFiniteSet(keep) /\ keep \subseteq 1 .. Len(index.views)
      <4>1. keep \subseteq 1 .. Len(index.views)
        BY <1>2
      <4>2. IsFiniteSet(1 .. Len(index.views))
        BY <1>2, FS_Interval
      <4>3. 1 .. Len(index.views) \subseteq Nat
        OBVIOUS
      <4> HIDE DEF keep
      <4>4. IsFiniteSet(keep)
        BY <4>1, <4>2, FS_Subset
      <4> QED
        BY <4>1, <4>3, <4>4, Zenon
    <3> HIDE DEF keep
    <3>2. \E i \in keep : Cardinality({j \in keep : j <= i}) = k
      BY <2>1, <3>1, NthFacts
    <3>3. nth(k) \in keep
      BY <3>2, Zenon
    <3> HIDE DEF nth
    <3> QED
      BY <1>9, <3>1, <3>3, ElementOfSeq
  <2>2. s \in [1 .. n -> T] /\ n \in Nat
    BY <1>3, <2>1, Zenon
  <2> HIDE DEF s, n
  <2>3. s \in Seq(T) /\ Len(s) = n
    BY <2>2
  <2> QED
    BY <2>3 DEF n
<1>4. s \in Seq(S) /\ Len(s) = Cardinality(keep)
  BY <1>8, <1>9
<1>10. Range(s) \subseteq Range(index.views)
  <2>1. index.views \in Seq(Range(index.views))
    BY <1>8, RangeSeq
  <2>2. s \in Seq(Range(index.views))
    BY <1>9, <2>1
  <2> HIDE DEF s
  <2> QED
    BY <2>2, RangeSeq
<1> HIDE DEF s, keep
<1>5. out.views \in Seq(S) /\ Len(out.views) <= MaxViews
  BY <1>1, <1>2, <1>3, <1>4, LogIndexAssumption DEF Shaped
<1>6. Shaped(out)
  BY <1>1, <1>5, <1>8, Zenon DEF Shaped
<1>7. \A f, m : Fits(index, f, m) => Fits(out, f, m)
  BY <1>1, FitsSame
<1> QED
  BY <1>1, <1>6, <1>7, <1>10

-----------------------------------------------------------------------------
(* The invariant. *)

LEMMA SaneAbsent == Sane(Absent) /\ Sane(Empty) /\ ~Absent.exists /\ Empty.exists
<1>1. Absent \in Files /\ ~Absent.exists /\ ~Absent.header /\ ~Absent.torn /\ Absent.lines = <<>>
  BY DEF Files, Absent
<1>2. Empty \in Files /\ Empty.exists /\ ~Empty.header /\ ~Empty.torn /\ Empty.lines = <<>>
  BY <1>1 DEF Files, Empty
<1> QED
  BY <1>1, <1>2 DEF Sane

LEMMA NoIndexFacts ==
  Shaped(NoIndex) /\ \A f, m : Fits(NoIndex, f, m)
<1>1. <<>> \in Seq({}) /\ Len(<<>>) = 0
  OBVIOUS
<1>2. Shaped(NoIndex)
  <2>1. /\ NoIndex = [stamp |-> NoIndex.stamp, total |-> NoIndex.total,
                      entries |-> NoIndex.entries, views |-> NoIndex.views]
        /\ NoIndex.entries = {} /\ NoIndex.views = <<>>
    BY DEF NoIndex
  <2>2. Len(NoIndex.views) <= MaxViews
    BY <1>1, <2>1, LogIndexAssumption
  <2>3. \E S : NoIndex.views \in Seq(S) /\ \A e \in S : Bounded(e)
    BY <1>1, <2>1, Zenon
  <2> QED
    BY <2>1, <2>2, <2>3, FS_EmptySet DEF Shaped
<1>3. \A f, m : Fits(NoIndex, f, m)
  BY DEF Fits, NoIndex
<1> QED
  BY <1>2, <1>3

(* build: the index of the recording as it is. *)
LEMMA BuiltFacts ==
  ASSUME Sane(msl), msl.header, mtime \in Nat, query \in Queries
  PROVE  /\ Shaped(Built) /\ Fits(Built, msl, mtime)
         /\ Indexes(Built, msl) /\ Shown(Built, msl, {msl})
<1> DEFINE q == AsOverview(query)
           index == [NoIndex EXCEPT !.stamp = Stamp, !.total = Cardinality(Counted(msl)),
                                    !.entries = Timed(msl)]
           samples == IF Cardinality(Timed(msl)) <= FullDetail
                      THEN {Sample(msl, q, i) : i \in Timed(msl)} ELSE Overview(msl, q)
           e == <<q, View(index, q, samples)>>
<1>1. Built = [index EXCEPT !.views = <<e>>]
  BY DEF Built
<1>2. /\ index = [stamp |-> index.stamp, total |-> index.total, entries |-> index.entries,
                  views |-> index.views]
      /\ index.stamp = Stamp /\ Indexes(index, msl)
  <2>1. ASSUME NEW r, NEW a, NEW b, NEW c, NEW i, i = [r EXCEPT !.stamp = a, !.total = b,
                 !.entries = c],
               r = [stamp |-> r.stamp, total |-> r.total, entries |-> r.entries,
                    views |-> r.views]
        PROVE  /\ i = [stamp |-> i.stamp, total |-> i.total, entries |-> i.entries,
                       views |-> i.views]
               /\ i.stamp = a /\ i.total = b /\ i.entries = c
    BY <2>1
  <2>2. NoIndex = [stamp |-> NoIndex.stamp, total |-> NoIndex.total,
                   entries |-> NoIndex.entries, views |-> NoIndex.views]
    BY DEF NoIndex
  <2>3. index = [NoIndex EXCEPT !.stamp = Stamp, !.total = Cardinality(Counted(msl)),
                                !.entries = Timed(msl)]
    OBVIOUS
  <2> HIDE DEF index
  <2>4. /\ index = [stamp |-> index.stamp, total |-> index.total,
                    entries |-> index.entries, views |-> index.views]
        /\ index.stamp = Stamp /\ index.total = Cardinality(Counted(msl))
        /\ index.entries = Timed(msl)
    BY <2>1, <2>2, <2>3, Zenon
  <2> QED
    BY <2>4, Zenon DEF Indexes
<1>9. Bounded(e)
  <2>1. q.points \in Nat
    BY LogFileAssumption DEF AsOverview
  <2> DEFINE m == Max({FullDetail, q.points, PerBucket(q)})
  <2>2. Cardinality(samples) \in Nat /\ Cardinality(samples) <= m
    <3>1. m \in Nat /\ m >= FullDetail /\ FullDetail \in Nat
      BY <2>1, BudgetFacts, MaxThree, LogFileAssumption
    <3> HIDE DEF q, m
    <3>2. CASE Cardinality(Timed(msl)) <= FullDetail
      <4> DEFINE f == [i \in Timed(msl) |-> Sample(msl, q, i)]
                 T == {Sample(msl, q, i) : i \in Timed(msl)}
      <4>1. samples = T
        BY <3>2
      <4>2. f = [i \in Timed(msl) |-> f[i]] /\ \A y \in T : \E i \in Timed(msl) : y = f[i]
        OBVIOUS
      <4>3. IsFiniteSet(Timed(msl)) /\ Cardinality(Timed(msl)) \in Nat
        BY RowsFacts, FS_CardinalityType
      <4> HIDE DEF f, T
      <4>4. Cardinality(T) \in Nat /\ Cardinality(T) <= Cardinality(Timed(msl))
        BY <4>2, <4>3, ReachBound
      <4> QED
        BY <3>1, <3>2, <4>1, <4>3, <4>4
    <3>3. CASE ~(Cardinality(Timed(msl)) <= FullDetail)
      <4>1. samples = Overview(msl, q)
        BY <3>3
      <4>2. /\ Cardinality(Overview(msl, q)) \in Nat
            /\ Cardinality(Overview(msl, q)) <= BucketCount(q) * PerBucket(q)
        BY <2>1, OverviewBound
      <4> DEFINE w == BucketCount(q) * PerBucket(q)
      <4>3. BucketCount(q) \in Nat /\ PerBucket(q) \in Nat /\ w <= m
        BY <2>1, BudgetFacts DEF m
      <4>4. w \in Nat
        BY <4>3
      <4> HIDE DEF w
      <4>5. Cardinality(Overview(msl, q)) <= w
        BY <4>2 DEF w
      <4> QED
        BY <3>1, <4>1, <4>2, <4>3, <4>4, <4>5
    <3> QED
      BY <3>2, <3>3
  <2> HIDE DEF q, samples, index
  <2>3. e[1] = q /\ e[2].samples = samples
    BY DEF View
  <2> HIDE DEF e
  <2> QED
    BY <2>2, <2>3, Zenon DEF Bounded
<1>10. Good(e, msl, msl)
  <2>1. q.chan \in BOOLEAN /\ q.whole
    BY LogFileAssumption DEF AsOverview
  <2>2. msl.exists
    BY DEF Sane
  <2> HIDE DEF q, index
  <2> QED
    BY <1>2, <2>1, <2>2, OverviewGood
<1> HIDE DEF e, index
<1>3. /\ Built = [stamp |-> Built.stamp, total |-> Built.total, entries |-> Built.entries,
                  views |-> Built.views]
      /\ Built.stamp = Stamp /\ Indexes(Built, msl) /\ Built.views = <<e>>
  BY <1>1, <1>2 DEF Indexes
<1>4. <<e>> \in Seq({e}) /\ Len(<<e>>) = 1
  OBVIOUS
<1>5. Shaped(Built)
  <2> DEFINE U == {e}
  <2>0. \A d \in U : Bounded(d)
    BY <1>9
  <2>1. \E S : Built.views \in Seq(S) /\ \A d \in S : Bounded(d)
    <3>1. Built.views \in Seq(U)
      BY <1>3, <1>4
    <3> HIDE DEF U
    <3> QED
      BY <2>0, <3>1, Zenon
  <2>2. Len(Built.views) <= MaxViews
    BY <1>3, <1>4, LogIndexAssumption
  <2>3. IsFiniteSet(Built.entries) /\ Built.entries \subseteq Nat
    BY <1>3, RowsFacts DEF Indexes
  <2> QED
    BY <1>3, <2>1, <2>2, <2>3, Zenon DEF Shaped
<1>6. Stamp.mtime = mtime /\ Stamp.size = FileSize(msl)
  BY DEF Stamp, FileSize
<1>7. FileSize(msl) \in Nat
  BY SizeType
<1>8. Fits(Built, msl, mtime)
  BY <1>3, <1>6, <1>7 DEF Fits
<1>11. Shown(Built, msl, {msl})
  <2>1. Range(Built.views) \subseteq {e}
    BY <1>3, <1>4, RangeSeq
  <2> QED
    BY <1>10, <2>1 DEF Shown
<1> QED
  BY <1>3, <1>5, <1>8, <1>11

(* load: a view is added in the room that was made. *)
LEMMA RereadFacts ==
  ASSUME Shaped(memory), NEW e, Bounded(e)
  PROVE  LET index == [memory EXCEPT !.views = Append(Evicted(@), e)]
         IN /\ Shaped(index)
            /\ \A f, m : Fits(memory, f, m) => Fits(index, f, m)
            /\ index.stamp = memory.stamp
            /\ \A f : Indexes(memory, f) => Indexes(index, f)
            /\ Range(index.views) \subseteq Range(memory.views) \cup {e}
            /\ index.views # <<>> /\ Last(index.views) = e
<1> DEFINE s == Append(Evicted(memory.views), e)
           index == [memory EXCEPT !.views = s]
<1>1. /\ index.stamp = memory.stamp /\ index.total = memory.total
      /\ index.entries = memory.entries /\ index.views = s
      /\ index = [stamp |-> index.stamp, total |-> index.total, entries |-> index.entries,
                  views |-> index.views]
  <2> HIDE DEF s
  <2> QED
    BY DEF Shaped
<1>2. PICK S : memory.views \in Seq(S) /\ \A d \in S : Bounded(d)
  BY DEF Shaped
<1>3. Evicted(memory.views) \in Seq(S) /\ Len(Evicted(memory.views)) < MaxViews
  BY <1>2, EvictedFacts DEF Shaped
<1>4. s \in Seq(S \cup {e}) /\ Len(s) = Len(Evicted(memory.views)) + 1
  <2> DEFINE v == Evicted(memory.views)
  <2> HIDE DEF v
  <2>1. v \in Seq(S)
    BY <1>3 DEF v
  <2>2. v \in Seq(S \cup {e})
    BY <2>1
  <2>3. Append(v, e) \in Seq(S \cup {e}) /\ Len(Append(v, e)) = Len(v) + 1
    BY <2>2, AppendProperties
  <2> QED
    BY <2>3 DEF v
<1>5. Len(s) <= MaxViews
  <2>1. Len(Evicted(memory.views)) \in Nat
    BY <1>3, LenProperties
  <2> QED
    BY <1>3, <1>4, <2>1, LogIndexAssumption
<1>9. Range(s) \subseteq Range(memory.views) \cup {e}
  <2> DEFINE v == Evicted(memory.views)
             T == Range(memory.views)
  <2>1. memory.views \in Seq(T)
    BY <1>2, RangeSeq
  <2>2. v \in Seq(T)
    BY <2>1, EvictedFacts DEF Shaped
  <2> HIDE DEF v, T
  <2>3. v \in Seq(T \cup {e})
    BY <2>2
  <2>4. Append(v, e) \in Seq(T \cup {e})
    BY <2>3, AppendProperties
  <2>5. Range(Append(v, e)) \subseteq T \cup {e}
    BY <2>4, RangeSeq
  <2> QED
    BY <2>5 DEF v, T
<1>10. s # <<>> /\ Last(s) = e
  <2> DEFINE v == Evicted(memory.views)
  <2>1. v \in Seq(S)
    BY <1>3
  <2> HIDE DEF v
  <2>2. v \in Seq(S \cup {e})
    BY <2>1
  <2>3. /\ Len(Append(v, e)) = Len(v) + 1 /\ Append(v, e)[Len(v) + 1] = e
        /\ Append(v, e) # <<>>
    BY <2>2, AppendProperties
  <2>4. Last(Append(v, e)) = e
    BY <2>3 DEF Last
  <2> QED
    BY <2>3, <2>4 DEF v
<1> HIDE DEF s
<1>8. \A d \in S \cup {e} : Bounded(d)
  BY <1>2
<1>6. Shaped(index)
  <2>1. \E U : index.views \in Seq(U) /\ \A d \in U : Bounded(d)
    BY <1>1, <1>4, <1>8, Zenon
  <2> HIDE DEF index
  <2> QED
    BY <1>1, <1>5, <2>1, Zenon DEF Shaped
<1>7. \A f, m : Fits(memory, f, m) => Fits(index, f, m)
  BY <1>1, FitsSame
<1>11. \A f : Indexes(memory, f) => Indexes(index, f)
  BY <1>1 DEF Indexes
<1>12. /\ index.stamp = memory.stamp /\ Range(index.views) \subseteq Range(memory.views) \cup {e}
       /\ index.views # <<>> /\ Last(index.views) = e
  BY <1>1, <1>9, <1>10, Zenon
<1> HIDE DEF index
<1> QED
  BY <1>6, <1>7, <1>11, <1>12, Zenon DEF s, index

LEMMA InitInv == LogInit => IInv
<1> SUFFICES ASSUME LogInit PROVE IInv
  OBVIOUS
<1>1. disk.index = NoIndex /\ disk = [good |-> disk.good, index |-> disk.index]
  BY DEF LogInit
<1> QED
  BY <1>1, SaneAbsent, NoIndexFacts DEF LogInit, IInv

(* What a change of the recording keeps. *)
LEMMA ChangeFacts ==
  ASSUME IInv, UNCHANGED <<caches, pc, query>>, Sane(msl'), mtime' \in Nat,
         Fits(memory, msl', mtime'), Fits(disk.index, msl', mtime')
  PROVE  IInv'
  BY DEF IInv, caches

LEMMA GrownFacts ==
  ASSUME IInv, NEW g, Rewritten(g, Soon), Sane(g), msl.exists, FileSize(msl) < FileSize(g)
  PROVE  IInv'
<1>1. msl' = g /\ mtime' \in {mtime, mtime + 1} /\ mtime \in Nat /\ UNCHANGED <<caches, pc, query>>
  BY DEF Rewritten, Soon, IInv
<1>2. Fits(memory, g, mtime') /\ Fits(disk.index, g, mtime')
  BY <1>1, FitsGrown DEF IInv
<1> QED
  BY <1>1, <1>2, ChangeFacts

(* Growing is the only thing that happens to a recording during a request,  *)
(* except that it may go.                                                   *)
LEMMA Grows ==
  ASSUME IInv, WriteHeader \/ AppendLine \/ CompleteLine
  PROVE  \E g : /\ Rewritten(g, Soon) /\ Sane(g) /\ msl.exists /\ g # msl
                /\ FileSize(msl) < FileSize(g) /\ Len(msl.lines) <= Len(g.lines)
<1>0. Sane(msl) /\ Len(msl.lines) \in Nat
  BY RowsFacts DEF IInv
<1>1. CASE WriteHeader
  <2> DEFINE g == [msl EXCEPT !.header = TRUE]
  <2>1. msl.exists /\ ~msl.header /\ Rewritten(g, Soon)
    BY <1>1 DEF WriteHeader
  <2>2. Sane(g) /\ g.header /\ g.lines = msl.lines
    BY <2>1 DEF IInv, Sane, Files
  <2>3. BodySize(g) \in Nat
    BY <2>2, SizeType
  <2>4. FileSize(msl) < FileSize(g)
    BY <2>1, <2>2, <2>3 DEF FileSize, HeaderSize
  <2> HIDE DEF g
  <2>5. g # msl /\ Len(msl.lines) <= Len(g.lines)
    BY <1>0, <2>1, <2>2
  <2> QED
    BY <2>1, <2>2, <2>4, <2>5
<1>2. CASE AppendLine
  <2>1. PICK line \in Values, torn \in BOOLEAN :
          Rewritten([msl EXCEPT !.lines = Append(@, line), !.torn = torn], Soon)
    BY <1>2 DEF AppendLine
  <2> DEFINE g == [msl EXCEPT !.lines = Append(@, line), !.torn = torn]
  <2>2. msl.header /\ ~msl.torn /\ line \in Lines
    BY <1>2, <2>1 DEF AppendLine, Lines
  <2>3. /\ Append(msl.lines, line) \in Seq(Lines)
        /\ Len(Append(msl.lines, line)) = Len(msl.lines) + 1
        /\ Append(msl.lines, line)[Len(msl.lines) + 1] = line
    BY <2>2, AppendProperties DEF IInv, Sane, Files
  <2>4. /\ g \in Files /\ g.exists = msl.exists /\ g.header = msl.header
        /\ g.torn = torn /\ g.lines = Append(msl.lines, line)
    BY <2>1, <2>3 DEF IInv, Sane, Files
  <2>5. msl.exists /\ Sane(msl)
    BY <2>2 DEF IInv, Sane
  <2>6. Rewritten(g, Soon)
    BY <2>1
  <2> HIDE DEF g
  <2>7. Sane(g)
    BY <1>0, <2>1, <2>2, <2>3, <2>4, <2>5 DEF Sane
  <2>8. FileSize(msl) < FileSize(g)
    BY <2>2, <2>4, <2>5, <2>7, SizeAppend
  <2>9. Len(g.lines) = Len(msl.lines) + 1
    BY <2>3, <2>4
  <2>10. g # msl /\ Len(msl.lines) <= Len(g.lines)
    BY <1>0, <2>9
  <2> QED
    BY <2>5, <2>6, <2>7, <2>8, <2>10
<1>3. CASE CompleteLine
  <2> DEFINE g == [msl EXCEPT !.torn = FALSE]
  <2>1. msl.torn /\ Rewritten(g, Soon) /\ Sane(msl) /\ msl.exists
    BY <1>3 DEF CompleteLine, IInv, Sane
  <2>2. Sane(g) /\ g.lines = msl.lines /\ ~g.torn
    BY <2>1 DEF Sane, Files
  <2>3. FileSize(msl) < FileSize(g)
    BY <2>1, <2>2, SizeComplete
  <2> HIDE DEF g
  <2>4. g # msl /\ Len(msl.lines) <= Len(g.lines)
    BY <1>0, <2>1, <2>2
  <2> QED
    BY <2>1, <2>2, <2>3, <2>4
<1> QED
  BY <1>1, <1>2, <1>3

LEMMA NextInv == IInv /\ [LogNext]_logVars => IInv'
<1> SUFFICES ASSUME IInv, [LogNext]_logVars PROVE IInv'
  OBVIOUS
<1>0. pc' = "idle" \/ query' \in Queries
  <2>1. CASE Ask \/ Stat \/ UseMemory \/ Restore \/ Build \/ Persist \/ Find \/ Reread
    BY <2>1 DEF Ask, Stat, UseMemory, Restore, Build, Persist, Find, Reread, Reply, IInv
  <2>2. CASE \/ Create \/ WriteHeader \/ AppendLine \/ CompleteLine \/ Delete
             \/ UNCHANGED logVars
    BY <2>2 DEF Create, WriteHeader, AppendLine, CompleteLine, Delete, Rewritten, logVars, IInv
  <2>3. CASE Collect \/ Restart
    BY <2>3 DEF Collect, Restart, IInv
  <2> QED
    BY <2>1, <2>2, <2>3 DEF LogNext
<1>1. ASSUME UNCHANGED <<msl, mtime, memory, disk>> PROVE IInv'
  BY <1>0, <1>1 DEF IInv
<1>2. ASSUME Ask \/ Stat \/ UseMemory \/ Find PROVE IInv'
  BY <1>1, <1>2 DEF Ask, Stat, UseMemory, Find, recording, caches
<1>3. ASSUME Restore PROVE IInv'
  BY <1>0, <1>3 DEF Restore, recording, IInv
<1>4. ASSUME Build PROVE IInv'
  <2>1. UNCHANGED <<msl, mtime, disk>>
    BY <1>4 DEF Build, recording
  <2>2. CASE msl.header
    <3>1. query \in Queries /\ memory' = Built
      BY <1>4, <2>2 DEF Build, IInv
    <3> QED
      BY <1>0, <2>1, <2>2, <3>1, BuiltFacts DEF IInv
  <2>3. CASE ~msl.header
    BY <1>4, <2>1, <2>3, <1>1 DEF Build
  <2> QED
    BY <2>2, <2>3
<1>5. ASSUME Persist PROVE IInv'
  <2>1. UNCHANGED <<msl, mtime, memory>>
    BY <1>5 DEF Persist, recording
  <2>2. CASE UNCHANGED disk
    BY <2>1, <2>2, <1>1
  <2>3. CASE disk' = [good |-> TRUE, index |-> serialize_overviews(memory)]
    BY <1>0, <2>1, <2>3, SerializeFacts DEF IInv
  <2> QED
    BY <1>5, <2>2, <2>3 DEF Persist
<1>6. ASSUME Reread PROVE IInv'
  <2>1. UNCHANGED <<msl, mtime, disk>>
    BY <1>6 DEF Reread, recording
  <2>2. CASE msl.exists
    <3> DEFINE e == <<query, View(memory, query, Zoom(memory, msl, query))>>
    <3>1. memory' = [memory EXCEPT !.views = Append(Evicted(@), e)]
      BY <1>6, <2>2 DEF Reread
    <3>2. query.points \in Nat
      BY <1>6, LogFileAssumption DEF Reread, IInv
    <3>3. e[1] = query /\ e[2].samples = Zoom(memory, msl, query)
      BY DEF View
    <3> HIDE DEF e
    <3>4. Bounded(e)
      <4>1. IsFiniteSet(memory.entries) /\ memory.entries \subseteq Nat
        BY DEF IInv, Shaped
      <4>2. /\ Cardinality(Zoom(memory, msl, query)) \in Nat
            /\ Cardinality(Zoom(memory, msl, query)) <=
                 Max({FullDetail, query.points, PerBucket(query)})
        BY <3>2, <4>1, ZoomBound
      <4> QED
        BY <3>3, <4>2, Zenon DEF Bounded
    <3>5. Shaped(memory) /\ Fits(memory, msl, mtime)
      BY DEF IInv
    <3>6. Shaped(memory') /\ Fits(memory', msl, mtime)
      BY <3>1, <3>4, <3>5, RereadFacts, Zenon
    <3> QED
      BY <1>0, <2>1, <3>6 DEF IInv
  <2>3. CASE ~msl.exists
    BY <1>6, <2>1, <2>3, <1>1 DEF Reread
  <2> QED
    BY <2>2, <2>3
<1>7. ASSUME Create PROVE IInv'
  <2>0. \A m \in Nat : m + 1 \in Nat
    OBVIOUS
  <2>1. PICK f \in {Empty} \cup {[Empty EXCEPT !.header = TRUE, !.lines = l] : l \in Imports} :
          Rewritten(f, {mtime + 1})
    BY <1>7 DEF Create
  <2>2. Sane(f)
    BY <2>1, SaneAbsent, LogIndexAssumption DEF Sane, Files, Empty, Absent
  <2>3. /\ msl' = f /\ mtime' = mtime + 1 /\ mtime \in Nat /\ mtime' \in Nat
        /\ UNCHANGED <<caches, pc, query>>
    <3>1. msl' = f /\ mtime' = mtime + 1 /\ mtime \in Nat /\ UNCHANGED <<caches, pc, query>>
      BY <2>1 DEF Rewritten, IInv
    <3> QED
      BY <2>0, <3>1, Zenon
  <2>4. Fits(memory, f, mtime') /\ Fits(disk.index, f, mtime')
    BY <2>3, FitsMoved DEF IInv
  <2> QED
    BY <2>2, <2>3, <2>4, ChangeFacts, Zenon
<1>8. ASSUME WriteHeader \/ AppendLine \/ CompleteLine PROVE IInv'
  BY <1>8, Grows, GrownFacts
<1>11. ASSUME Delete PROVE IInv'
  <2>1. msl' = Absent /\ mtime' = mtime /\ UNCHANGED <<caches, pc, query>> /\ mtime \in Nat
    BY <1>11 DEF Delete, Rewritten, IInv
  <2>2. Fits(memory, Absent, mtime) /\ Fits(disk.index, Absent, mtime)
    BY <2>1, FitsMoved, SaneAbsent DEF IInv
  <2> QED
    BY <2>1, <2>2, SaneAbsent, ChangeFacts
<1>12. ASSUME Collect PROVE IInv'
  BY <1>0, <1>12 DEF Collect, recording, IInv
<1>13. ASSUME Restart PROVE IInv'
  BY <1>0, <1>13, NoIndexFacts DEF Restart, recording, IInv
<1>14. ASSUME UNCHANGED logVars PROVE IInv'
  BY <1>1, <1>14 DEF logVars
<1> QED
  BY <1>2, <1>3, <1>4, <1>5, <1>6, <1>7, <1>8, <1>11, <1>12, <1>13, <1>14
     DEF LogNext

(* Every behaviour of the viewer and of the recording keeps to the invariant: *)
(* a changed recording is longer or newer than every index of it.             *)
THEOREM Inductive == LogSpec => []IInv
<1>1. LogInit => IInv
  BY InitInv
<1>2. IInv /\ [LogNext]_logVars => IInv'
  BY NextInv
<1> QED
  BY <1>1, <1>2, PTL DEF LogSpec

(* matches: an index in memory or in the cache file whose stamp is that of   *)
(* the recording has exactly its rows, across appends, torn lines, deletions, *)
(* files made anew under the name and restarts; and there are never more     *)
(* views than MaxViews.                                                      *)
THEOREM CacheSoundHolds == LogSpec => []CacheSound
<1>1. IInv => CacheSound
  <2> SUFFICES ASSUME IInv PROVE CacheSound
    OBVIOUS
  <2>1. ASSUME NEW index, Fits(index, msl, mtime), msl.exists, index.stamp = Stamp
        PROVE  Indexes(index, msl)
    <3>1. Stamp.exists = msl.exists /\ Stamp.mtime = mtime /\ Stamp.size = FileSize(msl)
      BY DEF Stamp, FileSize
    <3> QED
      BY <2>1, <3>1 DEF Fits
  <2>2. Len(memory.views) <= MaxViews
    BY DEF IInv, Shaped
  <2> QED
    BY <2>1, <2>2 DEF IInv, CacheSound, Indexes
<1> QED
  BY <1>1, Inductive, PTL

(* build, load: no answer is longer than the points asked for, than a short  *)
(* recording or than one bucket, whatever the values, the gaps and the marks *)
(* of the recording, and however old the view is.                            *)
THEOREM BoundedAnswerHolds == LogSpec => []BoundedAnswer
<1>1. IInv => BoundedAnswer
  <2> SUFFICES ASSUME IInv, NEW e \in Range(memory.views)
               PROVE  Cardinality(e[2].samples) <=
                        Max({FullDetail, e[1].points, PerBucket(e[1])})
    BY DEF BoundedAnswer
  <2>1. PICK S : memory.views \in Seq(S) /\ \A d \in S : Bounded(d)
    BY DEF IInv, Shaped
  <2>2. PICK i \in DOMAIN memory.views : e = memory.views[i]
    BY DEF Range
  <2>3. e \in S
    BY <2>1, <2>2, LenProperties, ElementOfSeq
  <2> QED
    BY <2>1, <2>3 DEF Bounded
<1> QED
  BY <1>1, Inductive, PTL

-----------------------------------------------------------------------------
(* What a request knows of the recording.                                  *)

(* The views of an index that agrees with the recording show it. *)
Current(index, f, m) ==
  (/\ index.stamp.exists /\ f.exists
   /\ index.stamp.mtime = m /\ index.stamp.size = FileSize(f)) => Shown(index, f, {f})

(* f is an earlier state of the recording, or the last one before it went. *)
Source(f, now) ==
  Sane(f) /\ f.exists /\ (now.exists => Len(f.lines) <= Len(now.lines))

Serves(index, f, G) == Indexes(index, f) /\ Shown(index, f, G)

(* What the request statted was true of a recording it has seen. *)
Matching ==
  /\ meta.exists
  /\ \E f \in seen : /\ Source(f, msl)
                     /\ memory.stamp = meta => Serves(memory, f, {f})
                     /\ disk.index.stamp = meta => Serves(disk.index, f, {f})

(* The index is one of a recording the request has seen. *)
Serving == \E f \in seen : Source(f, msl) /\ Serves(memory, f, seen)

Requesting ==
  /\ pc \in {"idle", "stat", "match", "save", "find", "save_view"}
  /\ pc = "idle" => query = NoQuery /\ seen = {}
  /\ pc # "idle" => query \in Queries /\ msl \in seen

RInv ==
  /\ Requesting
  /\ Current(memory, msl, mtime) /\ Current(disk.index, msl, mtime)
  /\ pc = "match" => Matching
  /\ pc \in {"save", "find", "save_view"} => Serving
  /\ pc = "save_view" => memory.views # <<>> /\ Last(memory.views)[1] = query

LEMMA CurrentGrown ==
  ASSUME NEW index, NEW f, NEW g, NEW m \in Nat, NEW n \in {m, m + 1},
         Fits(index, f, m), f.exists, Sane(f), Sane(g), FileSize(f) < FileSize(g)
  PROVE  Current(index, g, n)
<1>1. FileSize(f) \in Nat /\ FileSize(g) \in Nat
  BY SizeType
<1>2. CASE n = m
  BY <1>1, <1>2 DEF Fits, Current
<1>3. CASE n = m + 1
  BY <1>3 DEF Fits, Current
<1> QED
  BY <1>2, <1>3

LEMMA CurrentMoved ==
  ASSUME NEW index, NEW f, NEW g, NEW m \in Nat, Fits(index, f, m)
  PROVE  Current(index, g, m + 1) /\ (~g.exists => Current(index, g, m))
  BY DEF Fits, Current

LEMMA ShownMore ==
  ASSUME NEW index, NEW f, NEW G, NEW H, Shown(index, f, G), G \subseteq H
  PROVE  Shown(index, f, H)
  BY DEF Shown

(* An index whose stamp is that of the recording serves it. *)
LEMMA StampServes ==
  ASSUME NEW index, Fits(index, msl, mtime), Current(index, msl, mtime),
         msl.exists, index.stamp = Stamp
  PROVE  Serves(index, msl, {msl})
<1>1. Stamp.exists = msl.exists /\ Stamp.mtime = mtime /\ Stamp.size = FileSize(msl)
  BY DEF Stamp, FileSize
<1> QED
  BY <1>1 DEF Fits, Current, Serves

LEMMA SourceNow == Sane(msl) /\ msl.exists => Source(msl, msl)
  BY RowsFacts DEF Source

(* Once a request has been answered, only the caches matter. *)
LEMMA RepliedInv ==
  ASSUME pc' = "idle", query' = NoQuery, seen' = {},
         Current(memory', msl', mtime'), Current(disk'.index, msl', mtime')
  PROVE  RInv'
  BY DEF RInv, Requesting

LEMMA ChangedInv ==
  ASSUME RInv, NEW g, NEW t, Rewritten(g, t), pc = "idle" \/ msl.exists,
         ~g.exists \/ Len(msl.lines) <= Len(g.lines), Sane(msl), Sane(g),
         Current(memory, g, mtime'), Current(disk.index, g, mtime')
  PROVE  RInv'
<1>1. /\ msl' = g /\ UNCHANGED <<memory, disk, pc, query, meta>>
      /\ seen' = IF pc = "idle" THEN {} ELSE seen \cup {g}
  BY DEF Rewritten, caches
<1>2. Requesting'
  BY <1>1 DEF RInv, Requesting
<1>3. ASSUME NEW f, Source(f, msl), msl.exists PROVE Source(f, g)
  <2>1. Len(f.lines) \in Nat /\ Len(msl.lines) \in Nat /\ Len(g.lines) \in Nat
    BY <1>3, RowsFacts DEF Source
  <2> QED
    BY <1>3, <2>1 DEF Source
<1>4. ASSUME pc' = "match" PROVE Matching'
  <2>1. Matching /\ pc # "idle"
    BY <1>1, <1>4 DEF RInv
  <2>2. PICK f \in seen : /\ Source(f, msl)
                          /\ memory.stamp = meta => Serves(memory, f, {f})
                          /\ disk.index.stamp = meta => Serves(disk.index, f, {f})
    BY <2>1 DEF Matching
  <2>3. Source(f, g) /\ f \in seen'
    BY <1>1, <1>3, <2>1, <2>2
  <2> QED
    BY <1>1, <2>1, <2>2, <2>3 DEF Matching
<1>5. ASSUME pc' \in {"save", "find", "save_view"} PROVE Serving'
  <2>1. Serving /\ pc # "idle"
    BY <1>1, <1>5 DEF RInv
  <2>2. PICK f \in seen : Source(f, msl) /\ Serves(memory, f, seen)
    BY <2>1 DEF Serving
  <2>3. Source(f, g) /\ f \in seen' /\ seen \subseteq seen'
    BY <1>1, <1>3, <2>1, <2>2
  <2>4. Serves(memory, f, seen')
    BY <2>2, <2>3, ShownMore DEF Serves
  <2> QED
    BY <1>1, <2>3, <2>4 DEF Serving
<1> QED
  BY <1>1, <1>2, <1>4, <1>5 DEF RInv

LEMMA GrewInv ==
  ASSUME IInv, RInv, NEW g, Rewritten(g, Soon), Sane(g), msl.exists,
         FileSize(msl) < FileSize(g), Len(msl.lines) <= Len(g.lines)
  PROVE  RInv'
<1>1. mtime' \in {mtime, mtime + 1} /\ mtime \in Nat /\ Sane(msl)
  BY DEF Rewritten, Soon, IInv
<1>2. Current(memory, g, mtime') /\ Current(disk.index, g, mtime')
  BY <1>1, CurrentGrown DEF IInv
<1> QED
  BY <1>1, <1>2, ChangedInv

(* load: the view that is added shows what the others do. *)
LEMMA RereadShown ==
  ASSUME IInv, RInv, Reread, msl.exists
  PROVE  /\ Current(memory', msl, mtime) /\ memory'.stamp = memory.stamp
         /\ \E f \in seen : Source(f, msl) /\ Serves(memory', f, seen)
         /\ memory'.views # <<>>
         /\ Last(memory'.views) = <<query, View(memory, query, Zoom(memory, msl, query))>>
<1> DEFINE e == <<query, View(memory, query, Zoom(memory, msl, query))>>
<1>1. memory' = [memory EXCEPT !.views = Append(Evicted(@), e)]
  BY DEF Reread
<1>2. pc = "find" /\ query \in Queries /\ query.points \in Nat /\ query.chan \in BOOLEAN
  BY LogFileAssumption DEF Reread, IInv
<1>3. e[1] = query /\ e[2].samples = Zoom(memory, msl, query)
  BY DEF View
<1>4. ASSUME NEW f, Source(f, msl), Indexes(memory, f) PROVE Good(e, f, msl)
  BY <1>2, <1>4, ZoomGood DEF Source, IInv
<1> HIDE DEF e
<1>5. Bounded(e)
  <2>1. IsFiniteSet(memory.entries) /\ memory.entries \subseteq Nat
    BY DEF IInv, Shaped
  <2>2. /\ Cardinality(Zoom(memory, msl, query)) \in Nat
        /\ Cardinality(Zoom(memory, msl, query)) <=
             Max({FullDetail, query.points, PerBucket(query)})
    BY <1>2, <2>1, ZoomBound
  <2> QED
    BY <1>3, <2>2, Zenon DEF Bounded
<1>6. /\ memory'.stamp = memory.stamp
      /\ \A f : Indexes(memory, f) => Indexes(memory', f)
      /\ Range(memory'.views) \subseteq Range(memory.views) \cup {e}
      /\ memory'.views # <<>> /\ Last(memory'.views) = e
  <2>1. Shaped(memory)
    BY DEF IInv
  <2> QED
    BY <1>1, <1>5, <2>1, RereadFacts, Zenon
<1>7. ASSUME NEW f, NEW G, Source(f, msl), Serves(memory, f, G), msl \in G
      PROVE  Serves(memory', f, G)
  <2>1. Indexes(memory', f) /\ Good(e, f, msl)
    BY <1>4, <1>6, <1>7 DEF Serves
  <2> QED
    BY <1>6, <1>7, <2>1 DEF Serves, Shown
<1>8. Current(memory', msl, mtime)
  <2> SUFFICES ASSUME memory.stamp.exists, memory.stamp.mtime = mtime,
                      memory.stamp.size = FileSize(msl)
               PROVE  Serves(memory', msl, {msl})
    BY <1>6 DEF Current, Serves
  <2>1. Serves(memory, msl, {msl})
    BY DEF IInv, RInv, Fits, Current, Serves
  <2>2. Source(msl, msl)
    BY SourceNow DEF IInv
  <2> QED
    BY <1>7, <2>1, <2>2
<1>9. \E f \in seen : Source(f, msl) /\ Serves(memory', f, seen)
  <2>1. PICK f \in seen : Source(f, msl) /\ Serves(memory, f, seen)
    BY <1>2 DEF RInv, Serving
  <2>2. msl \in seen
    BY <1>2 DEF RInv, Requesting
  <2> QED
    BY <1>7, <2>1, <2>2
<1> QED
  BY <1>6, <1>8, <1>9 DEF e

LEMMA CurrentNoIndex == \A f, m : Current(NoIndex, f, m)
  BY DEF Current, NoIndex

LEMMA RInit == LogInit => RInv
  BY CurrentNoIndex DEF LogInit, RInv, Requesting

LEMMA RNext == IInv /\ RInv /\ [LogNext]_logVars => RInv'
<1> SUFFICES ASSUME IInv, RInv, [LogNext]_logVars PROVE RInv'
  OBVIOUS
<1> USE DEF RInv
<1>1. CASE Ask
  BY <1>1 DEF Ask, Requesting, recording, caches
<1>2. CASE Stat
  <2>1. UNCHANGED <<msl, mtime, memory, disk>> /\ pc = "stat"
    BY <1>2 DEF Stat, recording, caches
  <2>2. CASE msl.exists
    <3>1. pc' = "match" /\ meta' = Stamp /\ UNCHANGED <<query, seen>>
      BY <1>2, <2>2 DEF Stat
    <3>2. msl \in seen /\ query \in Queries
      BY <2>1 DEF Requesting
    <3>3. Source(msl, msl)
      BY <2>2, SourceNow DEF IInv
    <3>4. /\ memory.stamp = Stamp => Serves(memory, msl, {msl})
          /\ disk.index.stamp = Stamp => Serves(disk.index, msl, {msl})
      BY <2>2, StampServes DEF IInv
    <3>5. Stamp.exists
      BY <2>2 DEF Stamp
    <3>6. Matching'
      BY <2>1, <3>1, <3>2, <3>3, <3>4, <3>5 DEF Matching
    <3> QED
      BY <2>1, <3>1, <3>2, <3>6 DEF Requesting
  <2>3. CASE ~msl.exists
    BY <1>2, <2>1, <2>3, RepliedInv DEF Stat, Reply
  <2> QED
    BY <2>2, <2>3
<1>3. CASE UseMemory
  <2>1. /\ UNCHANGED <<msl, mtime, memory, disk, query, meta, seen>>
        /\ pc = "match" /\ pc' = "find" /\ memory.stamp = meta
    BY <1>3 DEF UseMemory, InMemory, matches, recording, caches
  <2>2. PICK f \in seen : Source(f, msl) /\ Serves(memory, f, {f})
    BY <2>1 DEF Matching
  <2>3. Serves(memory, f, seen)
    BY <2>2, ShownMore DEF Serves
  <2>4. Serving'
    BY <2>1, <2>2, <2>3 DEF Serving
  <2> QED
    BY <2>1, <2>4 DEF Requesting
<1>4. CASE Restore
  <2>1. /\ UNCHANGED <<msl, mtime, disk, query, meta, seen>> /\ memory' = disk.index
        /\ pc = "match" /\ pc' = "find" /\ disk.index.stamp = meta
    BY <1>4 DEF Restore, OnDisk, matches, recording
  <2>2. PICK f \in seen : Source(f, msl) /\ Serves(disk.index, f, {f})
    BY <2>1 DEF Matching
  <2>3. Serves(disk.index, f, seen)
    BY <2>2, ShownMore DEF Serves
  <2>4. Serving'
    BY <2>1, <2>2, <2>3 DEF Serving
  <2> QED
    BY <2>1, <2>4 DEF Requesting
<1>5. CASE Build
  <2>1. UNCHANGED <<msl, mtime, disk>> /\ pc = "match"
    BY <1>5 DEF Build, recording
  <2>2. CASE msl.header
    <3>1. memory' = Built /\ pc' = "save" /\ UNCHANGED <<query, seen>>
      BY <1>5, <2>2 DEF Build
    <3>2. msl \in seen /\ query \in Queries /\ Sane(msl) /\ mtime \in Nat
      BY <2>1 DEF Requesting, IInv
    <3>3. Indexes(Built, msl) /\ Shown(Built, msl, {msl})
      BY <2>2, <3>2, BuiltFacts
    <3>4. Shown(Built, msl, seen)
      BY <3>2, <3>3, ShownMore
    <3>5. Source(msl, msl)
      BY <2>2, <3>2, SourceNow DEF Sane
    <3>6. Serving'
      BY <2>1, <3>1, <3>2, <3>3, <3>4, <3>5 DEF Serving, Serves
    <3>7. Current(Built, msl, mtime)
      BY <3>3 DEF Current
    <3> QED
      BY <2>1, <3>1, <3>2, <3>6, <3>7 DEF Requesting
  <2>3. CASE ~msl.header
    BY <1>5, <2>1, <2>3, RepliedInv DEF Build, Reply
  <2> QED
    BY <2>2, <2>3
<1>6. CASE Persist
  <2>1. UNCHANGED <<msl, mtime, memory>> /\ pc \in {"save", "save_view"}
    BY <1>6 DEF Persist, recording
  <2>2. Current(disk'.index, msl, mtime)
    <3>1. CASE UNCHANGED disk
      BY <3>1
    <3>2. CASE disk' = [good |-> TRUE, index |-> serialize_overviews(memory)]
      <4>1. /\ Range(serialize_overviews(memory).views) \subseteq Range(memory.views)
            /\ serialize_overviews(memory).stamp = memory.stamp
        BY SerializeFacts DEF IInv
      <4>2. Current(serialize_overviews(memory), msl, mtime)
        BY <4>1 DEF Current, Shown
      <4> QED
        BY <3>2, <4>2
    <3> QED
      BY <1>6, <3>1, <3>2 DEF Persist
  <2>3. CASE pc = "save"
    <3>1. pc' = "find" /\ UNCHANGED <<query, meta, seen>>
      BY <1>6, <2>3 DEF Persist
    <3>2. Serving'
      BY <2>1, <2>3, <3>1 DEF Serving
    <3> QED
      BY <2>1, <2>2, <2>3, <3>1, <3>2 DEF Requesting
  <2>4. CASE pc # "save"
    BY <1>6, <2>1, <2>2, <2>4, RepliedInv DEF Persist, Reply
  <2> QED
    BY <2>3, <2>4
<1>7. CASE Find
  BY <1>7, RepliedInv DEF Find, Reply, recording, caches
<1>8. CASE Reread
  <2>1. UNCHANGED <<msl, mtime, disk>> /\ pc = "find"
    BY <1>8 DEF Reread, recording
  <2>2. CASE msl.exists
    <3> DEFINE view == View(memory, query, Zoom(memory, msl, query))
    <3>1. /\ Current(memory', msl, mtime)
          /\ \E f \in seen : Source(f, msl) /\ Serves(memory', f, seen)
          /\ memory'.views # <<>>
          /\ Last(memory'.views) = <<query, view>>
      BY <1>8, <2>2, RereadShown
    <3>2. \/ query.whole /\ pc' = "save_view" /\ UNCHANGED <<query, meta, seen>>
          \/ Reply(view)
      BY <1>8, <2>2 DEF Reread
    <3> HIDE DEF view
    <3>3. CASE Reply(view)
      BY <2>1, <3>1, <3>3, RepliedInv DEF Reply
    <3>4. CASE pc' = "save_view" /\ UNCHANGED <<query, meta, seen>>
      <4>1. Serving'
        BY <2>1, <3>1, <3>4 DEF Serving
      <4>2. Last(memory'.views)[1] = query
        BY <3>1
      <4> QED
        BY <2>1, <3>1, <3>4, <4>1, <4>2 DEF Requesting
    <3> QED
      BY <3>2, <3>3, <3>4
  <2>3. CASE ~msl.exists
    BY <1>8, <2>1, <2>3, RepliedInv DEF Reread, Reply
  <2> QED
    BY <2>2, <2>3
<1>9. CASE Create
  <2>1. PICK f \in {Empty} \cup {[Empty EXCEPT !.header = TRUE, !.lines = l] : l \in Imports} :
          Rewritten(f, {mtime + 1})
    BY <1>9 DEF Create
  <2>2. pc = "idle" /\ msl' = f /\ mtime' = mtime + 1 /\ mtime \in Nat
        /\ UNCHANGED <<memory, disk, pc, query>> /\ seen' = {}
    BY <1>9, <2>1 DEF Create, Rewritten, caches, IInv
  <2>3. Current(memory, f, mtime') /\ Current(disk.index, f, mtime')
    BY <2>2, CurrentMoved DEF IInv
  <2>4. query = NoQuery
    BY <2>2 DEF Requesting
  <2> QED
    BY <2>2, <2>3, <2>4, RepliedInv
<1>10. CASE WriteHeader \/ AppendLine \/ CompleteLine
  BY <1>10, Grows, GrewInv
<1>11. CASE Delete
  <2>1. Rewritten(Absent, {mtime}) /\ msl.exists /\ mtime' = mtime /\ mtime \in Nat /\ Sane(msl)
    BY <1>11 DEF Delete, Rewritten, IInv
  <2>2. Current(memory, Absent, mtime) /\ Current(disk.index, Absent, mtime)
    BY <2>1, CurrentMoved, SaneAbsent DEF IInv
  <2> QED
    BY <2>1, <2>2, SaneAbsent, ChangedInv
<1>12. CASE Collect
  <2>1. /\ UNCHANGED <<msl, mtime, memory, pc, query, meta, seen>>
        /\ disk' = [disk EXCEPT !.good = FALSE]
    BY <1>12 DEF Collect, recording
  <2>2. disk'.index = disk.index
    BY <2>1 DEF IInv
  <2> QED
    BY <2>1, <2>2 DEF Requesting, Matching, Serving
<1>13. CASE Restart
  <2>1. /\ UNCHANGED <<msl, mtime>> /\ memory' = NoIndex /\ pc' = "idle" /\ query' = NoQuery
        /\ seen' = {} /\ disk' \in {disk, [disk EXCEPT !.good = FALSE]}
    BY <1>13 DEF Restart, recording
  <2>2. disk'.index = disk.index
    BY <2>1 DEF IInv
  <2> QED
    BY <2>1, <2>2, CurrentNoIndex, RepliedInv
<1>14. CASE UNCHANGED logVars
  BY <1>14 DEF logVars, Requesting, Matching, Serving
<1> QED
  BY <1>1, <1>2, <1>3, <1>4, <1>5, <1>6, <1>7, <1>8, <1>9, <1>10, <1>11, <1>12, <1>13, <1>14
     DEF LogNext

(* A view of the index answers the request that asks for it. *)
LEMMA ViewAnswers ==
  ASSUME RInv, pc \in {"find", "save_view"}, NEW e \in Range(memory.views), e[1] = query,
         Reply(e[2]), UNCHANGED msl
  PROVE  Abs!Answers
<1>1. PICK f \in seen : Source(f, msl) /\ Serves(memory, f, seen)
  BY DEF RInv, Serving
<1>2. PICK g \in seen : Good(e, f, g)
  BY <1>1 DEF Serves, Shown
<1>3. /\ answer' = e[2] /\ query' = NoQuery /\ seen' = {}
  BY DEF Reply
<1>4. query # NoQuery
  BY LogIndexAssumption DEF RInv, Requesting
<1>5. answer' \notin {NoAnswer, Failed} /\ Abs!Shows(query, f, g, answer')
  BY <1>2, <1>3, LogIndexAssumption DEF Good
<1> QED
  BY <1>3, <1>4, <1>5 DEF Abs!Answers

LEMMA FailureAnswers ==
  ASSUME RInv, pc # "idle", ~msl.header, Reply(Failed), UNCHANGED msl
  PROVE  Abs!Answers
<1>1. query # NoQuery /\ msl \in seen
  BY LogIndexAssumption DEF RInv, Requesting
<1> QED
  BY <1>1 DEF Reply, Abs!Answers

LEMMA ChangeShows ==
  ASSUME RInv, NEW g, NEW t, Rewritten(g, t), g # msl
  PROVE  Abs!Changes
<1>1. pc = "idle" <=> query = NoQuery
  BY LogIndexAssumption DEF RInv, Requesting
<1> QED
  BY <1>1 DEF Rewritten, Abs!Changes

(* Each step is one of the abstract specification, or changes nothing of it. *)
LEMMA StepRefines ==
  IInv /\ RInv /\ [LogNext]_logVars =>
    [Abs!Changes \/ Abs!Asks \/ Abs!Answers \/ Abs!Dropped]_(Abs!absVars)
<1> SUFFICES ASSUME IInv, RInv, [LogNext]_logVars
             PROVE  \/ Abs!Changes \/ Abs!Asks \/ Abs!Answers \/ Abs!Dropped
                    \/ UNCHANGED <<msl, query, seen, answer>>
  BY DEF Abs!absVars
<1>1. CASE Ask
  <2>1. query = NoQuery
    BY <1>1 DEF Ask, RInv, Requesting
  <2> QED
    BY <1>1, <2>1 DEF Ask, Abs!Asks, recording
<1>2. CASE Stat
  <2>1. CASE msl.exists
    BY <1>2, <2>1 DEF Stat, recording
  <2>2. CASE ~msl.exists
    <3>1. ~msl.header
      BY <2>2 DEF IInv, Sane
    <3> QED
      BY <1>2, <2>2, <3>1, FailureAnswers DEF Stat, recording
  <2> QED
    BY <2>1, <2>2
<1>3. CASE UseMemory \/ Restore \/ Collect
  BY <1>3 DEF UseMemory, Restore, Collect, recording
<1>4. CASE Build
  <2>1. CASE msl.header
    BY <1>4, <2>1 DEF Build, recording
  <2>2. CASE ~msl.header
    BY <1>4, <2>2, FailureAnswers DEF Build, recording
  <2> QED
    BY <2>1, <2>2
<1>5. CASE Persist
  <2>1. CASE pc = "save"
    BY <1>5, <2>1 DEF Persist, recording
  <2>2. CASE pc # "save"
    <3> DEFINE e == Last(memory.views)
    <3>1. pc = "save_view" /\ Reply(e[2]) /\ UNCHANGED msl
      BY <1>5, <2>2 DEF Persist, recording
    <3>2. memory.views # <<>> /\ e[1] = query
      BY <3>1 DEF RInv
    <3>3. e \in Range(memory.views)
      <4>1. PICK S : memory.views \in Seq(S)
        BY DEF IInv, Shaped
      <4>2. DOMAIN memory.views = 1 .. Len(memory.views) /\ Len(memory.views) \in Nat \ {0}
        BY <3>2, <4>1, LenProperties, EmptySeq
      <4> QED
        BY <4>2 DEF Range, Last
    <3> HIDE DEF e
    <3> QED
      BY <3>1, <3>2, <3>3, ViewAnswers
  <2> QED
    BY <2>1, <2>2
<1>6. CASE Find
  <2>1. PICK e \in Range(memory.views) : e[1] = query /\ Reply(e[2])
    BY <1>6 DEF Find, Cached
  <2>2. pc = "find" /\ UNCHANGED msl
    BY <1>6 DEF Find, recording
  <2> QED
    BY <2>1, <2>2, ViewAnswers
<1>7. CASE Reread
  <2>0. pc = "find" /\ UNCHANGED msl
    BY <1>7 DEF Reread, recording
  <2>1. CASE msl.exists
    <3> DEFINE view == View(memory, query, Zoom(memory, msl, query))
    <3>1. \/ UNCHANGED <<query, seen, answer>>
          \/ Reply(view)
      BY <1>7, <2>1 DEF Reread
    <3>2. CASE Reply(view)
      <4>1. PICK f \in seen : Source(f, msl) /\ Indexes(memory, f)
        BY <2>0 DEF RInv, Serving, Serves
      <4>2. query # NoQuery /\ query.chan \in BOOLEAN /\ msl \in seen
        BY <2>0, LogFileAssumption, LogIndexAssumption DEF RInv, Requesting
      <4> DEFINE e == <<query, view>>
      <4>3. Good(e, f, msl)
        BY <2>1, <4>1, <4>2, ZoomGood DEF Source, IInv
      <4>4. e[1] = query /\ e[2] = view
        OBVIOUS
      <4> HIDE DEF view, e
      <4>5. view \notin {NoAnswer, Failed} /\ Abs!Shows(query, f, msl, view)
        BY <4>3, <4>4, LogIndexAssumption DEF Good
      <4> QED
        BY <2>0, <3>2, <4>1, <4>2, <4>5 DEF Reply, Abs!Answers
    <3> QED
      BY <2>0, <3>1, <3>2
  <2>2. CASE ~msl.exists
    <3>1. ~msl.header
      BY <2>2 DEF IInv, Sane
    <3> QED
      BY <1>7, <2>0, <2>2, <3>1, FailureAnswers DEF Reread
  <2> QED
    BY <2>1, <2>2
<1>8. CASE Create
  <2>1. PICK f \in {Empty} \cup {[Empty EXCEPT !.header = TRUE, !.lines = l] : l \in Imports} :
          Rewritten(f, {mtime + 1})
    BY <1>8 DEF Create
  <2>2. f.exists /\ ~msl.exists
    BY <1>8 DEF Create, Empty, Absent
  <2> QED
    BY <2>1, <2>2, ChangeShows
<1>9. CASE WriteHeader \/ AppendLine \/ CompleteLine
  BY <1>9, Grows, ChangeShows
<1>10. CASE Delete
  <2>1. Rewritten(Absent, {mtime}) /\ Absent # msl
    BY <1>10, SaneAbsent DEF Delete
  <2> QED
    BY <2>1, ChangeShows
<1>11. CASE Restart
  <2>1. /\ UNCHANGED <<msl, answer>> /\ query' = NoQuery /\ seen' = {}
    BY <1>11 DEF Restart, recording
  <2>2. query # NoQuery \/ (query = NoQuery /\ seen = {})
    BY LogIndexAssumption DEF RInv, Requesting
  <2> QED
    BY <2>1, <2>2 DEF Abs!Dropped
<1>12. CASE UNCHANGED logVars
  BY <1>12 DEF logVars
<1> QED
  BY <1>1, <1>2, <1>3, <1>4, <1>5, <1>6, <1>7, <1>8, <1>9, <1>10, <1>11, <1>12 DEF LogNext

(* load, build, restore, persist: every answer shows the recording as it was *)
(* at a moment between the request and the answer, for any recordings, any   *)
(* queries and any interleaving with the writer, retention and restarts; a   *)
(* request fails only if the recording was missing or without a header.      *)
THEOREM AnswersFaithfullyHolds == LogSpec => AnswersFaithfully
<1>1. LogInit => Abs!AbsInit
  BY DEF LogInit, Abs!AbsInit, Abs!Absent, Absent
<1>2. LogSpec => []RInv
  <2>1. LogInit => RInv
    BY RInit
  <2>2. IInv /\ IInv' /\ RInv /\ [LogNext]_logVars => RInv'
    BY RNext
  <2> QED
    BY <2>1, <2>2, Inductive, PTL DEF LogSpec
<1>3. IInv /\ RInv /\ [LogNext]_logVars =>
        [Abs!Changes \/ Abs!Asks \/ Abs!Answers \/ Abs!Dropped]_(Abs!absVars)
  BY StepRefines
<1> QED
  BY <1>1, <1>2, <1>3, Inductive, PTL DEF LogSpec, AnswersFaithfully, Abs!AbsSpec
=============================================================================
