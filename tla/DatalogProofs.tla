---------------------------- MODULE DatalogProofs ----------------------------
(***************************************************************************)
(* Proofs about Datalog, for any number of threads, imports, files, rows   *)
(* and seconds, however the threads overlap: what a power cut may cost,    *)
(* that a closed log is synced, what the status says, what is closed when  *)
(* poweroff is requested, and what prune_logs may remove.                  *)
(***************************************************************************)
EXTENDS Datalog, Integers, WellFoundedInduction, FiniteSetTheorems, TLAPS

LogNames == Logs \cup {NoLog}
Working == {"loop", "poll", "row", "observe"}
Places == Working \cup {"sync", "active", "list", "prune", "request", "leave", "gone"}
Nexts == {"loop", "observe", "leave", "request", "again"}
Entries == [name : Names, at : Nat, size : Nat]

FilesTyped ==
  /\ exists \in SUBSET Names
  /\ rows \in [Names -> Nat] /\ synced \in [Names -> Nat]
  /\ mtime \in [Names -> Nat] /\ from \in [Names -> Nat]
  /\ slog \in LogNames
ThreadsTyped ==
  /\ pc \in [Threads -> Places] /\ then \in [Threads -> Nexts]
  /\ log \in [Threads -> LogNames] /\ closing \in [Threads -> LogNames]
  /\ asked \in [Threads -> LogNames]
  /\ last_sync \in [Threads -> Nat]
PruneTyped ==
  /\ active \in [Threads -> LogNames]
  /\ todo \in [Threads -> SUBSET Entries] /\ total \in [Threads -> Int]
FlagsTyped ==
  /\ auto \in [Threads -> BOOLEAN] /\ stop \in [Threads -> BOOLEAN]
  /\ requested \in BOOLEAN
ImportsTyped == importing \in [Importers -> Imports \cup {NoLog}]
(* Every variable but the two sets of ghosts has its type.  prune_logs'      *)
(* running sum is an integer: two threads may subtract the same file.        *)
TypeOK == /\ now \in Seconds
          /\ FilesTyped /\ ThreadsTyped /\ PruneTyped /\ FlagsTyped /\ ImportsTyped

(* A thread has a writer only in its loop, and one it took only to sync.     *)
PathInv ==
  \A t \in Threads : /\ pc[t] \notin Working => log[t] = NoLog
                     /\ closing[t] # NoLog => pc[t] = "sync"

(* The oldest unsynced row is no older than the last sync of any writer.     *)
Recent(n) ==
  /\ synced[n] <= rows[n]
  /\ synced[n] < rows[n] =>
       /\ from[n] <= now
       /\ mtime[n] - from[n] < Interval
       /\ \A t \in Threads : log[t] = n => last_sync[t] <= from[n]
LossInv == /\ \A t \in Threads : last_sync[t] <= now
           /\ \A n \in Logs : Recent(n)

IInv == TypeOK /\ PathInv /\ LossInv /\ ClosedLogsSynced

-----------------------------------------------------------------------------
(* Names. *)

LEMMA NameFacts ==
  /\ NoLog \notin Names
  /\ Logs \cap Imports = {}
  /\ \A s \in Seconds : <<"log", s>> \in Logs
  /\ Seconds \subseteq Nat
<1>1. ASSUME NEW a, NEW b, <<"none", 0>> = <<a, b>> PROVE a = "none"
  BY <1>1
<1>2. ASSUME NEW a, NEW b, NEW c, NEW d, <<a, b>> = <<c, d>> PROVE a = c
  BY <1>2
<1>3. NoLog \notin Names
  BY <1>1 DEF NoLog, Names, Logs, Imports
<1>4. Logs \cap Imports = {}
  BY <1>2 DEF Logs, Imports
<1>5. Seconds \subseteq Nat
  BY BoundAssumption DEF Seconds
<1> QED
  BY <1>3, <1>4, <1>5 DEF Logs

-----------------------------------------------------------------------------
(* The sum over a set of files: Bytes is a fold, which takes the files in an *)
(* order of its own.                                                         *)

First(s) == CHOOSE x \in s : TRUE
Solves(g, r, S) ==
  g = [s \in SUBSET S |-> IF s = {} THEN 0 ELSE (r[First(s)] + 1) + g[s \ {First(s)}]]
Total(r, S) == (CHOOSE g : Solves(g, r, S))[S]

(* Bytes unfolds to the solution of the fold's recursion, before a step and  *)
(* after it.                                                                 *)
LEMMA BytesTotal == \A S : Bytes(S) = Total(rows, S)
  BY DEF Bytes, MapThenSumSet, MapThenFoldSet, Size, Total, Solves, First
LEMMA BytesTotalNext == \A S : Bytes(S)' = Total(rows', S)
  BY DEF Bytes, MapThenSumSet, MapThenFoldSet, Size, Total, Solves, First

(* The file the fold takes first is one of them. *)
LEMMA FirstIn == \A s : s # {} => First(s) \in s
  BY DEF First

(* A nonempty set of naturals has a least element. *)
LEMMA LeastNat ==
  ASSUME NEW T \in SUBSET Nat, T # {}
  PROVE  \E x \in T : \A y \in T : x <= y
<1>1. IsWellFoundedOn(OpToRel(<, Nat), Nat)
  BY NatLessThanWellFounded
<1>2. PICK x \in T : \A y \in T : ~ (<<y, x>> \in OpToRel(<, Nat))
  BY <1>1, WFMin
<1>3. \A y \in T : ~(y < x)
  BY <1>2 DEF OpToRel
<1> QED
  BY <1>3

(* Of a collection of finite sets, one has no other of them one element      *)
(* below it.                                                                 *)
LEMMA SmallestSet ==
  ASSUME NEW C, C # {}, \A s \in C : IsFiniteSet(s)
  PROVE  \E s \in C : \A x \in s : s \ {x} \notin C
<1> DEFINE K == {Cardinality(s) : s \in C}
<1>1. K \in SUBSET Nat /\ K # {}
  BY FS_CardinalityType
<1>2. PICK k \in K : \A y \in K : k <= y
  <2> HIDE DEF K
  <2> QED
    BY <1>1, LeastNat
<1>3. PICK s \in C : k = Cardinality(s)
  OBVIOUS
<1>4. ASSUME NEW x \in s, s \ {x} \in C PROVE FALSE
  <2>1. Cardinality(s \ {x}) = Cardinality(s) - 1
    BY FS_RemoveElement
  <2>2. k <= Cardinality(s \ {x})
    BY <1>2, <1>4
  <2> QED
    BY <2>1, <2>2, <1>3, FS_CardinalityType
<1> QED
  BY <1>4

(* A solution, at one set of files. *)
LEMMA SolvesAt ==
  ASSUME NEW g, NEW r, NEW S, Solves(g, r, S), NEW s \in SUBSET S
  PROVE  /\ s = {} => g[s] = 0
         /\ s # {} => g[s] = (r[First(s)] + 1) + g[s \ {First(s)}]
  BY DEF Solves

(* The sums up to a number of files, and so all of them. *)
Level(g, r, S, n) ==
  g = [s \in {x \in SUBSET S : Cardinality(x) <= n} |->
         IF s = {} THEN 0 ELSE (r[First(s)] + 1) + g[s \ {First(s)}]]

(* There are sums up to any number of files. *)
LEMMA LevelExists ==
  ASSUME NEW r, NEW S, IsFiniteSet(S)
  PROVE  \A n \in Nat : \E g : Level(g, r, S, n)
<1> DEFINE T == {n \in Nat : ~\E g : Level(g, r, S, n)}
<1>0. \A s \in SUBSET S : IsFiniteSet(s) /\ Cardinality(s) \in Nat
  BY FS_Subset, FS_CardinalityType
<1> SUFFICES ASSUME T # {} PROVE FALSE
  OBVIOUS
<1>1. PICK k \in T : \A y \in T : k <= y
  <2>1. T \in SUBSET Nat
    OBVIOUS
  <2> HIDE DEF T
  <2> QED
    BY <2>1, LeastNat
<1>2. k # 0
  <2> SUFFICES ASSUME k = 0 PROVE FALSE
    OBVIOUS
  <2>1. \A x \in SUBSET S : Cardinality(x) <= 0 => x = {}
    BY <1>0, FS_EmptySet
  <2> DEFINE D == {x \in SUBSET S : Cardinality(x) <= 0}
             g == [s \in D |-> 0]
  <2>2. g = [s \in D |-> IF s = {} THEN 0 ELSE (r[First(s)] + 1) + g[s \ {First(s)}]]
    BY <2>1
  <2>3. Level(g, r, S, 0)
    BY <2>2 DEF Level
  <2> QED
    BY <2>3
<1>3. k - 1 \in Nat /\ k - 1 \notin T
  BY <1>1, <1>2
<1>4. PICK h : Level(h, r, S, k - 1)
  BY <1>3
<1> DEFINE D == {x \in SUBSET S : Cardinality(x) <= k}
           E == {x \in SUBSET S : Cardinality(x) <= k - 1}
           g == [s \in D |-> IF s = {} THEN 0 ELSE (r[First(s)] + 1) + h[s \ {First(s)}]]
<1>5. \A s \in E : s \in D /\ h[s] = g[s]
  <2>1. h = [s \in E |-> IF s = {} THEN 0 ELSE (r[First(s)] + 1) + h[s \ {First(s)}]]
    BY <1>4 DEF Level
  <2>2. \A s \in E : s \in D
    BY <1>0, <1>3
  <2>3. ASSUME NEW s \in E PROVE h[s] = g[s]
    <3>1. s \in D
      BY <2>2
    <3>2. g[s] = IF s = {} THEN 0 ELSE (r[First(s)] + 1) + h[s \ {First(s)}]
      BY <3>1
    <3>3. h[s] = IF s = {} THEN 0 ELSE (r[First(s)] + 1) + h[s \ {First(s)}]
      <4> HIDE DEF D, E
      <4> QED
        BY <2>1
    <3> HIDE DEF g, D, E
    <3> QED
      BY <3>2, <3>3
  <2> QED
    BY <2>2, <2>3
<1>6. ASSUME NEW s \in D, s # {} PROVE s \ {First(s)} \in E
  <2>1. First(s) \in s /\ IsFiniteSet(s) /\ Cardinality(s) \in Nat
    BY <1>6, <1>0, FirstIn
  <2>2. Cardinality(s \ {First(s)}) = Cardinality(s) - 1
    BY <2>1, FS_RemoveElement
  <2> QED
    BY <2>1, <2>2
<1>7. ASSUME NEW s \in D
      PROVE  g[s] = IF s = {} THEN 0 ELSE (r[First(s)] + 1) + g[s \ {First(s)}]
  <2>1. g[s] = IF s = {} THEN 0 ELSE (r[First(s)] + 1) + h[s \ {First(s)}]
    OBVIOUS
  <2>2. s # {} => h[s \ {First(s)}] = g[s \ {First(s)}]
    BY <1>5, <1>6
  <2> HIDE DEF g, D, E
  <2> QED
    BY <2>1, <2>2
<1>8. g = [s \in D |-> g[s]]
  OBVIOUS
<1>9. Level(g, r, S, k)
  <2> HIDE DEF g
  <2> QED
    BY <1>7, <1>8 DEF Level
<1> QED
  BY <1>9

(* The recursion has a solution. *)
LEMMA SumExists ==
  ASSUME NEW r, NEW S, IsFiniteSet(S)
  PROVE  \E g : Solves(g, r, S)
<1>1. Cardinality(S) \in Nat
  BY FS_CardinalityType
<1>2. PICK g : Level(g, r, S, Cardinality(S))
  BY <1>1, LevelExists
<1>3. {x \in SUBSET S : Cardinality(x) <= Cardinality(S)} = SUBSET S
  BY FS_Subset
<1> QED
  BY <1>2, <1>3 DEF Level, Solves

(* Sums are natural numbers, and depend only on the files summed. *)
LEMMA SumType ==
  ASSUME NEW r, NEW S, IsFiniteSet(S), \A x \in S : r[x] \in Nat,
         NEW g, Solves(g, r, S)
  PROVE  \A s \in SUBSET S : g[s] \in Nat
<1> DEFINE C == {s \in SUBSET S : g[s] \notin Nat}
<1>0. \A s \in C : IsFiniteSet(s)
  BY FS_Subset
<1> SUFFICES ASSUME C # {} PROVE FALSE
  OBVIOUS
<1>1. PICK s \in C : \A x \in s : s \ {x} \notin C
  <2> HIDE DEF C
  <2> QED
    BY <1>0, SmallestSet
<1>2. s # {}
  <2>1. s = {} => g[s] = 0
    BY SolvesAt
  <2> QED
    BY <2>1
<1>3. First(s) \in s
  BY <1>2, FirstIn
<1>4. g[s \ {First(s)}] \in Nat
  BY <1>1, <1>3
<1>5. g[s] = (r[First(s)] + 1) + g[s \ {First(s)}]
  BY <1>2, SolvesAt
<1>6. r[First(s)] \in Nat
  BY <1>3
<1>7. g[s] \in Nat
  BY <1>4, <1>5, <1>6
<1> QED
  BY <1>7

(* Two solutions agree wherever the rows do. *)
LEMMA SumAgrees ==
  ASSUME NEW r, NEW q, NEW S, NEW T, NEW g, NEW h, Solves(g, r, S), Solves(h, q, T),
         NEW U, U \subseteq S, U \subseteq T, IsFiniteSet(U), \A x \in U : r[x] = q[x]
  PROVE  g[U] = h[U]
<1> DEFINE C == {s \in SUBSET U : g[s] # h[s]}
<1>0. \A s \in C : IsFiniteSet(s)
  BY FS_Subset
<1> SUFFICES ASSUME C # {} PROVE FALSE
  OBVIOUS
<1>1. PICK s \in C : \A x \in s : s \ {x} \notin C
  <2> HIDE DEF C
  <2> QED
    BY <1>0, SmallestSet
<1>2. s \in SUBSET S /\ s \in SUBSET T
  OBVIOUS
<1>3. s # {}
  BY <1>2, SolvesAt
<1>4. First(s) \in s
  BY <1>3, FirstIn
<1>5. g[s \ {First(s)}] = h[s \ {First(s)}] /\ r[First(s)] = q[First(s)]
  BY <1>1, <1>4
<1>6. g[s] = (r[First(s)] + 1) + g[s \ {First(s)}]
  BY <1>2, <1>3, SolvesAt
<1>7. h[s] = (q[First(s)] + 1) + h[s \ {First(s)}]
  BY <1>2, <1>3, SolvesAt
<1> QED
  BY <1>5, <1>6, <1>7

(* Any file may be the first to be taken. *)
LEMMA SumRemove ==
  ASSUME NEW r, NEW S, IsFiniteSet(S), \A x \in S : r[x] \in Nat,
         NEW g, Solves(g, r, S)
  PROVE  \A s \in SUBSET S : \A x \in s : g[s] = (r[x] + 1) + g[s \ {x}]
<1> DEFINE C == {s \in SUBSET S : \E x \in s : g[s] # (r[x] + 1) + g[s \ {x}]}
<1>0. \A s \in C : IsFiniteSet(s)
  BY FS_Subset
<1> SUFFICES ASSUME C # {} PROVE FALSE
  OBVIOUS
<1>1. PICK s \in C : \A x \in s : s \ {x} \notin C
  <2> HIDE DEF C
  <2> QED
    BY <1>0, SmallestSet
<1>2. PICK x \in s : g[s] # (r[x] + 1) + g[s \ {x}]
  OBVIOUS
<1> DEFINE y == First(s)
<1>3. y \in s /\ s # {}
  BY FirstIn
<1> HIDE DEF y
<1>4. g[s] = (r[y] + 1) + g[s \ {y}]
  <2>1. s \in SUBSET S
    OBVIOUS
  <2>2. s # {} => g[s] = (r[First(s)] + 1) + g[s \ {First(s)}]
    BY <2>1, SolvesAt
  <2> QED
    BY <1>3, <2>2 DEF y
<1>5. x # y
  BY <1>2, <1>4
<1>6. g[s \ {y}] = (r[x] + 1) + g[(s \ {y}) \ {x}]
  BY <1>1, <1>3, <1>5
<1>7. g[s \ {x}] = (r[y] + 1) + g[(s \ {x}) \ {y}]
  BY <1>1, <1>3, <1>5
<1>8. (s \ {x}) \ {y} = (s \ {y}) \ {x}
  OBVIOUS
<1>9. r[x] \in Nat /\ r[y] \in Nat /\ g[(s \ {y}) \ {x}] \in Nat
  BY <1>3, SumType
<1> HIDE DEF C
<1> QED
  BY <1>2, <1>4, <1>6, <1>7, <1>8, <1>9

(* The sum is one such solution's. *)
LEMMA TotalIs ==
  ASSUME NEW r, NEW S, IsFiniteSet(S)
  PROVE  \E g : Solves(g, r, S) /\ Total(r, S) = g[S]
<1>1. PICK g : Solves(g, r, S)
  BY SumExists
<1>2. Solves(CHOOSE h : Solves(h, r, S), r, S)
  BY <1>1
<1> QED
  BY <1>2 DEF Total

(* What prune_logs' arithmetic rests on. *)
LEMMA TotalFacts ==
  ASSUME NEW r, NEW S, IsFiniteSet(S), \A x \in S : r[x] \in Nat
  PROVE  /\ Total(r, S) \in Nat
         /\ \A x \in S : Total(r, S) = (r[x] + 1) + Total(r, S \ {x})
<1>1. PICK g : Solves(g, r, S) /\ Total(r, S) = g[S]
  BY TotalIs
<1>2. Total(r, S) \in Nat
  BY <1>1, SumType
<1>3. ASSUME NEW x \in S PROVE Total(r, S) = (r[x] + 1) + Total(r, S \ {x})
  <2>1. IsFiniteSet(S \ {x})
    BY FS_Subset
  <2>2. PICK h : Solves(h, r, S \ {x}) /\ Total(r, S \ {x}) = h[S \ {x}]
    BY <2>1, TotalIs
  <2>3. g[S \ {x}] = h[S \ {x}]
    BY <1>1, <2>1, <2>2, SumAgrees
  <2>4. g[S] = (r[x] + 1) + g[S \ {x}]
    BY <1>1, SumRemove
  <2> QED
    BY <1>1, <2>2, <2>3, <2>4
<1> QED
  BY <1>2, <1>3

(* Only the rows of the files summed matter. *)
LEMMA TotalSame ==
  ASSUME NEW r, NEW q, NEW S, IsFiniteSet(S), \A x \in S : r[x] = q[x]
  PROVE  Total(r, S) = Total(q, S)
<1>1. PICK g : Solves(g, r, S) /\ Total(r, S) = g[S]
  BY TotalIs
<1>2. PICK h : Solves(h, q, S) /\ Total(q, S) = h[S]
  BY TotalIs
<1> QED
  BY <1>1, <1>2, SumAgrees

(* Fewer files are never more bytes. *)
LEMMA TotalMonotone ==
  ASSUME NEW r, NEW S, IsFiniteSet(S), \A x \in S : r[x] \in Nat, NEW T, T \subseteq S
  PROVE  Total(r, T) <= Total(r, S)
<1> DEFINE C == {s \in SUBSET S : T \subseteq s /\ ~(Total(r, T) <= Total(r, s))}
<1>0. \A s \in SUBSET S : IsFiniteSet(s) /\ Total(r, s) \in Nat
  BY FS_Subset, TotalFacts
<1> SUFFICES ASSUME C # {} PROVE FALSE
  OBVIOUS
<1>1. PICK s \in C : \A x \in s : s \ {x} \notin C
  <2>1. \A s \in C : IsFiniteSet(s)
    BY <1>0
  <2> HIDE DEF C
  <2> QED
    BY <2>1, SmallestSet
<1>2. s # T
  BY <1>0
<1>3. PICK x \in s : x \notin T
  BY <1>2
<1>4. Total(r, T) <= Total(r, s \ {x})
  BY <1>1, <1>3
<1>5. Total(r, s) = (r[x] + 1) + Total(r, s \ {x})
  BY <1>0, TotalFacts
<1>6. Total(r, T) \in Nat /\ Total(r, s \ {x}) \in Nat /\ r[x] \in Nat
  BY <1>0
<1>7. Total(r, T) <= Total(r, s)
  BY <1>4, <1>5, <1>6
<1> QED
  BY <1>7

(* The directory is finite. *)
LEMMA NamesFinite == IsFiniteSet(Names)
<1>1. IsFiniteSet(0 .. MaxTime) /\ IsFiniteSet(1 .. MaxImports)
  BY BoundAssumption, FS_Interval
<1> DEFINE f == [s \in 0 .. MaxTime |-> <<"log", s>>]
           g == [i \in 1 .. MaxImports |-> <<"import", i>>]
<1>2. f \in Surjection(0 .. MaxTime, Logs)
  BY DEF Surjection, Logs, Seconds
<1>3. g \in Surjection(1 .. MaxImports, Imports)
  BY DEF Surjection, Imports
<1>4. IsFiniteSet(Logs) /\ IsFiniteSet(Imports)
  <2> HIDE DEF f, g
  <2> QED
    BY <1>1, <1>2, <1>3, FS_Surjection
<1> QED
  BY <1>4, FS_Union DEF Names

(* The bytes of a directory: what one file adds, and that fewer files are    *)
(* never more bytes.                                                         *)
LEMMA BytesFacts ==
  ASSUME FilesTyped, NEW S \in SUBSET Names
  PROVE  /\ Bytes(S) \in Nat
         /\ \A x \in S : Bytes(S) = Size(x) + Bytes(S \ {x})
         /\ \A T \in SUBSET S : Bytes(T) <= Bytes(S)
<1>1. IsFiniteSet(S) /\ \A x \in S : rows[x] \in Nat
  BY NamesFinite, FS_Subset DEF FilesTyped
<1>2. /\ Total(rows, S) \in Nat
      /\ \A x \in S : Total(rows, S) = (rows[x] + 1) + Total(rows, S \ {x})
  BY <1>1, TotalFacts
<1>3. \A T \in SUBSET S : Total(rows, T) <= Total(rows, S)
  BY <1>1, TotalMonotone
<1> QED
  BY <1>2, <1>3, BytesTotal DEF Size

-----------------------------------------------------------------------------
(* The initial state. *)

LEMMA InitInv == Init => IInv
<1> SUFFICES ASSUME Init PROVE IInv
  OBVIOUS
<1>1. TypeOK
  <2>1. now \in Seconds /\ FilesTyped
    BY BoundAssumption DEF Init, FilesTyped, LogNames, Seconds
  <2>2. ThreadsTyped
    BY DEF Init, ThreadsTyped, LogNames, Places, Working, Nexts
  <2>3. PruneTyped /\ ImportsTyped
    BY DEF Init, PruneTyped, ImportsTyped, LogNames
  <2>4. FlagsTyped
    BY Zenon DEF Init, FlagsTyped
  <2> QED
    BY <2>1, <2>2, <2>3, <2>4 DEF TypeOK
<1>2. PathInv
  BY DEF Init, PathInv
<1>3. LossInv
  BY DEF Init, LossInv, Recent, Names
<1>4. ClosedLogsSynced
  BY DEF Init, ClosedLogsSynced
<1> QED
  BY <1>1, <1>2, <1>3, <1>4 DEF IInv

-----------------------------------------------------------------------------
(* What the parts of an action keep. *)

(* Nothing about the files or the writers changes. *)
LEMMA StillFacts ==
  ASSUME IInv,
         UNCHANGED <<now, exists, rows, synced, mtime, from, broken, replaced,
                     log, last_sync, closing>>
  PROVE  LossInv' /\ ClosedLogsSynced'
<1>1. LossInv'
  BY DEF IInv, LossInv, Recent
<1>2. ClosedLogsSynced'
  BY DEF IInv, ClosedLogsSynced, Held
<1> QED
  BY <1>1, <1>2

(* create: the file starts again, empty and synced. *)
LEMMA CreateFacts ==
  ASSUME IInv, NEW n \in Logs, Create(n)
  PROVE  /\ exists' \in SUBSET Names
         /\ rows' \in [Names -> Nat] /\ synced' \in [Names -> Nat]
         /\ mtime' \in [Names -> Nat] /\ from' \in [Names -> Nat]
         /\ rows'[n] = 0 /\ synced'[n] = 0
         /\ \A m \in Names \ {n} : /\ rows'[m] = rows[m] /\ synced'[m] = synced[m]
                                   /\ mtime'[m] = mtime[m] /\ from'[m] = from[m]
  BY NameFacts DEF Create, IInv, TypeOK, status, FilesTyped, Names

(* start_log: whichever way it ends, no file loses its bound, and a writer   *)
(* that is dropped is noted.                                                 *)
LEMMA StartLogFacts ==
  ASSUME IInv, NEW t \in Threads, NEW n \in Logs, StartLog(t, n),
         UNCHANGED <<now, closing>>
  PROVE  /\ FilesTyped' /\ log' \in [Threads -> LogNames]
         /\ last_sync' \in [Threads -> Nat]
         /\ \A u \in Threads : log'[u] = IF u = t THEN log'[t] ELSE log[u]
         /\ LossInv' /\ ClosedLogsSynced'
<1> USE DEF IInv, TypeOK
<1>0. n \in Names /\ n \in LogNames /\ n # NoLog /\ now \in Nat
  BY NameFacts DEF Names, LogNames
<1>1. CASE /\ Create(n)
           /\ replaced' = (replaced \cup {log[t]}) \ {n, NoLog}
           /\ Show(t, n)
           /\ log' = [log EXCEPT ![t] = n]
           /\ last_sync' = [last_sync EXCEPT ![t] = now]
  <2>1. FilesTyped' /\ log' \in [Threads -> LogNames] /\ last_sync' \in [Threads -> Nat]
    BY <1>0, <1>1, CreateFacts DEF Show, FilesTyped, ThreadsTyped
  <2>2. log'[t] = n /\ last_sync'[t] = now
    BY <1>1 DEF ThreadsTyped
  <2>3. \A u \in Threads \ {t} : log'[u] = log[u] /\ last_sync'[u] = last_sync[u]
    BY <1>1 DEF ThreadsTyped
  <2>4. LossInv'
    <3>1. \A u \in Threads : last_sync'[u] <= now'
      BY <1>0, <2>2, <2>3 DEF LossInv
    <3>2. ASSUME NEW m \in Logs PROVE Recent(m)'
      <4>1. CASE m = n
        BY <4>1, <1>0, <1>1, CreateFacts DEF Recent
      <4>2. CASE m # n
        <5>1. Recent(m) /\ m \in Names
          BY DEF LossInv, Names
        <5>2. /\ rows'[m] = rows[m] /\ synced'[m] = synced[m]
              /\ mtime'[m] = mtime[m] /\ from'[m] = from[m]
          BY <4>2, <5>1, <1>1, CreateFacts
        <5>3. \A u \in Threads : log'[u] = m => log[u] = m /\ last_sync'[u] = last_sync[u]
          BY <4>2, <2>2, <2>3
        <5> QED
          BY <5>1, <5>2, <5>3 DEF Recent
      <4> QED
        BY <4>1, <4>2
    <3> QED
      BY <3>1, <3>2 DEF LossInv
  <2>5. ClosedLogsSynced'
    <3> SUFFICES ASSUME NEW m \in (exists' \cap Logs) \ (broken' \cup replaced'), ~Held(m)'
                 PROVE  synced'[m] = rows'[m]
      BY DEF ClosedLogsSynced
    <3>1. CASE m = n
      BY <3>1, <1>1, CreateFacts
    <3>2. CASE m # n
      <4>1. m \in (exists \cap Logs) \ (broken \cup replaced) /\ m # log[t] /\ m \in Names
        BY <3>2, <1>1, NameFacts DEF Create, Names
      <4>2. ~Held(m)
        BY <3>2, <4>1, <2>3 DEF Held
      <4> QED
        BY <3>2, <4>1, <4>2, <1>1, CreateFacts DEF ClosedLogsSynced
    <3> QED
      BY <3>1, <3>2
  <2> QED
    BY <2>1, <2>3, <2>4, <2>5
<1>2. CASE /\ Create(n) /\ replaced' = replaced \ {n}
           /\ UNCHANGED <<status, log, last_sync>>
  <2>1. FilesTyped' /\ log' \in [Threads -> LogNames] /\ last_sync' \in [Threads -> Nat]
    BY <1>0, <1>2, CreateFacts DEF status, FilesTyped, ThreadsTyped
  <2>2. LossInv'
    <3>2. ASSUME NEW m \in Logs PROVE Recent(m)'
      <4>1. CASE m = n
        BY <4>1, <1>0, <1>2, CreateFacts DEF Recent
      <4>2. CASE m # n
        <5>1. Recent(m) /\ m \in Names
          BY DEF LossInv, Names
        <5>2. /\ rows'[m] = rows[m] /\ synced'[m] = synced[m]
              /\ mtime'[m] = mtime[m] /\ from'[m] = from[m]
          BY <4>2, <5>1, <1>2, CreateFacts
        <5> QED
          BY <5>1, <5>2, <1>2 DEF Recent
      <4> QED
        BY <4>1, <4>2
    <3> QED
      BY <3>2, <1>2 DEF LossInv
  <2>3. ClosedLogsSynced'
    <3> SUFFICES ASSUME NEW m \in (exists' \cap Logs) \ (broken' \cup replaced'), ~Held(m)'
                 PROVE  synced'[m] = rows'[m]
      BY DEF ClosedLogsSynced
    <3>1. CASE m = n
      BY <3>1, <1>2, CreateFacts
    <3>2. CASE m # n
      <4>1. m \in (exists \cap Logs) \ (broken \cup replaced) /\ m \in Names
        BY <3>2, <1>2 DEF Create, Names
      <4>2. ~Held(m)
        BY <1>2 DEF Held
      <4> QED
        BY <3>2, <4>1, <4>2, <1>2, CreateFacts DEF ClosedLogsSynced
    <3> QED
      BY <3>1, <3>2
  <2> QED
    BY <2>1, <2>2, <2>3, <1>2
<1>3. CASE UNCHANGED files /\ UNCHANGED <<status, log, last_sync>>
  <2>1. LossInv' /\ ClosedLogsSynced'
    BY <1>3, StillFacts DEF files, directory, status
  <2> QED
    BY <1>3, <2>1 DEF files, directory, status, FilesTyped, ThreadsTyped
<1> QED
  BY <1>1, <1>2, <1>3 DEF StartLog

(* finish_log: the writer moves to where it is synced from. *)
LEMMA FinishLogFacts ==
  ASSUME IInv, NEW t \in Threads, NEW next \in Nexts, FinishLog(t, next),
         next = "again" => log[t] # NoLog, pc[t] \in Working,
         UNCHANGED <<now, exists, rows, synced, mtime, from, replaced, asked>>,
         broken \subseteq broken'
  PROVE  FilesTyped' /\ ThreadsTyped' /\ PathInv' /\ LossInv' /\ ClosedLogsSynced'
<1> USE DEF IInv, TypeOK
<1>0. NoLog \in LogNames /\ now \in Nat
  BY NameFacts DEF LogNames
<1>1. log' \in [Threads -> LogNames] /\ last_sync' \in [Threads -> Nat]
  BY <1>0 DEF FinishLog, ThreadsTyped
<1>2. /\ log'[t] = NoLog /\ last_sync'[t] = 0
      /\ \A u \in Threads \ {t} : log'[u] = log[u] /\ last_sync'[u] = last_sync[u]
  BY DEF FinishLog, ThreadsTyped
<1>3. FilesTyped'
  BY <1>0 DEF FinishLog, status, FilesTyped, ShowStopped, Show
<1>4. /\ pc' \in [Threads -> Places] /\ then' \in [Threads -> Nexts]
      /\ closing' \in [Threads -> LogNames]
  BY DEF FinishLog, ThreadsTyped, Goto, Places, Nexts, Working, ending
<1>5. ThreadsTyped'
  BY <1>1, <1>4 DEF ThreadsTyped
<1>6. /\ \A u \in Threads \ {t} : pc'[u] = pc[u] /\ closing'[u] = closing[u]
      /\ pc'[t] = IF log[t] = NoLog THEN next ELSE "sync"
      /\ closing'[t] = IF log[t] = NoLog THEN closing[t] ELSE log[t]
  BY DEF FinishLog, ThreadsTyped, Goto, ending
<1>7. closing[t] = NoLog
  BY DEF PathInv, Working
<1>8. PathInv'
  BY <1>2, <1>6, <1>7 DEF PathInv
<1>9. LossInv'
  <2>1. \A u \in Threads : last_sync'[u] <= now'
    BY <1>0, <1>2 DEF LossInv
  <2>2. \A n \in Logs : n # NoLog
    BY NameFacts DEF Names
  <2>3. \A n \in Logs : Recent(n)'
    BY <1>2, <2>2 DEF LossInv, Recent
  <2> QED
    BY <2>1, <2>3 DEF LossInv
<1>10. ClosedLogsSynced'
  <2> SUFFICES ASSUME NEW n \in (exists' \cap Logs) \ (broken' \cup replaced'), ~Held(n)'
               PROVE  synced'[n] = rows'[n]
    BY DEF ClosedLogsSynced
  <2>1. n # NoLog
    BY NameFacts DEF Names
  <2>2. ~Held(n)
    BY <1>2, <1>6, <1>7, <2>1 DEF Held
  <2> QED
    BY <2>2 DEF ClosedLogsSynced
<1> QED
  BY <1>3, <1>5, <1>8, <1>9, <1>10

(* What follows prune_logs. *)
LEMMA ResumeFacts ==
  ASSUME IInv, NEW t \in Threads, Resume(t), pc[t] \in {"active", "list", "prune"},
         UNCHANGED <<now, directory, status, log, last_sync, closing, asked>>
  PROVE  /\ FilesTyped' /\ ThreadsTyped' /\ PruneTyped'
         /\ PathInv' /\ LossInv' /\ ClosedLogsSynced'
<1> USE DEF IInv, TypeOK
<1>1. FilesTyped' /\ LossInv' /\ ClosedLogsSynced'
  BY StillFacts DEF files, directory, status, FilesTyped
<1>2. pc' \in [Threads -> Places] /\ then' \in [Threads -> Nexts]
  BY DEF Resume, Goto, ThreadsTyped, Places, Working, Nexts
<1>3. PruneTyped'
  BY DEF Resume, PruneTyped, LogNames
<1>4. /\ log[t] = NoLog /\ closing[t] = NoLog
      /\ \A u \in Threads \ {t} : pc'[u] = pc[u]
  BY DEF PathInv, Working, Resume, Goto, ThreadsTyped
<1>5. PathInv'
  BY <1>4 DEF PathInv
<1> QED
  BY <1>1, <1>2, <1>3, <1>5 DEF ThreadsTyped

(* write_row: a row is written within the interval of the last sync, or it   *)
(* is synced at once.                                                        *)
LEMMA AppendFacts ==
  ASSUME IInv, NEW t \in Threads, log[t] \in exists, Append(t),
         UNCHANGED <<now, status, log, closing>>
  PROVE  /\ FilesTyped' /\ last_sync' \in [Threads -> Nat]
         /\ LossInv' /\ ClosedLogsSynced'
<1> USE DEF IInv, TypeOK
<1> DEFINE n == log[t]
<1>0. n \in Names /\ n \in Logs /\ now \in Nat
  BY NameFacts DEF status, FilesTyped, ThreadsTyped, LogNames
<1>1. FilesTyped' /\ last_sync' \in [Threads -> Nat]
  BY <1>0 DEF Append, status, FilesTyped, ThreadsTyped, SyncedAt
<1>2. /\ exists' = exists /\ broken' = broken /\ replaced' = replaced
      /\ rows'[n] = rows[n] + 1 /\ mtime'[n] = now
      /\ \A m \in Names \ {n} : /\ rows'[m] = rows[m] /\ synced'[m] = synced[m]
                                /\ mtime'[m] = mtime[m] /\ from'[m] = from[m]
      /\ \A u \in Threads \ {t} : last_sync'[u] = last_sync[u]
  BY <1>0 DEF Append, status, FilesTyped, ThreadsTyped
<1>3. \/ Due(t) /\ synced'[n] = rows[n] + 1 /\ last_sync'[t] = now
      \/ /\ ~Due(t) /\ synced'[n] = synced[n] /\ last_sync'[t] = last_sync[t]
         /\ from'[n] = IF synced[n] = rows[n] THEN now ELSE from[n]
  BY <1>0 DEF Append, status, FilesTyped, ThreadsTyped, SyncedAt
<1>4. Recent(n) /\ \A u \in Threads : last_sync[u] <= now /\ last_sync[u] \in Nat
  BY <1>0 DEF LossInv, ThreadsTyped
<1>5. rows[n] \in Nat /\ synced[n] \in Nat /\ from[n] \in Nat /\ Interval \in Nat \ {0}
  BY <1>0, LimitAssumption DEF status, FilesTyped
<1>6. ASSUME Due(t) PROVE Recent(n)'
  BY <1>2, <1>3, <1>5, <1>6 DEF Recent
<1>7. ASSUME ~Due(t) PROVE Recent(n)'
  <2>1. now - last_sync[t] < Interval
    BY <1>7, <1>0, <1>4, <1>5 DEF Due
  <2>2. synced[n] <= rows[n] + 1
    BY <1>4, <1>5 DEF Recent
  <2>3. CASE synced[n] = rows[n]
    <3>1. from'[n] = now /\ synced'[n] = synced[n] /\ last_sync'[t] = last_sync[t]
      BY <2>3, <1>3, <1>7
    <3>2. now - now < Interval
      BY <1>0, <1>5
    <3> QED
      BY <3>1, <3>2, <2>2, <1>0, <1>2, <1>4, <1>5 DEF Recent
  <2>4. CASE synced[n] # rows[n]
    <3>1. synced[n] < rows[n]
      BY <2>4, <1>4, <1>5 DEF Recent
    <3>2. /\ from[n] <= now
          /\ \A u \in Threads : log[u] = n => last_sync[u] <= from[n]
      BY <3>1, <1>4 DEF Recent
    <3>3. now - from[n] < Interval
      BY <3>2, <2>1, <1>0, <1>4, <1>5
    <3>4. from'[n] = from[n] /\ synced'[n] = synced[n] /\ last_sync'[t] = last_sync[t]
      BY <2>4, <1>3, <1>7
    <3> QED
      BY <3>2, <3>3, <3>4, <2>2, <1>0, <1>2, <1>5 DEF Recent
  <2> QED
    BY <2>3, <2>4
<1>8. LossInv'
  <2>1. \A u \in Threads : last_sync'[u] <= now'
    BY <1>0, <1>2, <1>3, <1>4
  <2>2. ASSUME NEW m \in Logs, m # n PROVE Recent(m)'
    <3>1. Recent(m) /\ m \in Names
      BY DEF LossInv, Names
    <3>2. \A u \in Threads : log'[u] = m => last_sync'[u] = last_sync[u] /\ log[u] = m
      BY <1>2, <2>2
    <3>3. /\ rows'[m] = rows[m] /\ synced'[m] = synced[m]
          /\ mtime'[m] = mtime[m] /\ from'[m] = from[m]
      BY <1>2, <2>2, <3>1
    <3> QED
      BY <3>1, <3>2, <3>3 DEF Recent
  <2> QED
    BY <2>1, <2>2, <1>6, <1>7 DEF LossInv
<1>9. ClosedLogsSynced'
  <2> SUFFICES ASSUME NEW m \in (exists' \cap Logs) \ (broken' \cup replaced'), ~Held(m)'
               PROVE  synced'[m] = rows'[m]
    BY DEF ClosedLogsSynced
  <2>1. m # n /\ ~Held(m) /\ m \in Names
    BY DEF Held, Names
  <2> QED
    BY <2>1, <1>2 DEF ClosedLogsSynced
<1> QED
  BY <1>1, <1>8, <1>9

(* finish: what is closed is synced, or known to be broken. *)
LEMMA SyncFacts ==
  ASSUME IInv, NEW t \in Threads, Sync(t)
  PROVE  FilesTyped' /\ ThreadsTyped' /\ PathInv' /\ LossInv' /\ ClosedLogsSynced'
<1> USE DEF IInv, TypeOK
<1> DEFINE n == closing[t]
<1>0. /\ NoLog \in LogNames /\ NoLog \notin Names /\ n \in LogNames
      /\ \A m \in Logs : m \in Names /\ m # NoLog
  BY NameFacts DEF ThreadsTyped, LogNames, Names
<1>1. /\ UNCHANGED <<now, exists, rows, mtime, replaced, status, log, last_sync, asked, then>>
      /\ broken \subseteq broken'
  BY DEF Sync, clock, writers, queue
<1>2. /\ closing' \in [Threads -> LogNames] /\ closing'[t] = NoLog
      /\ pc' \in [Threads -> Places] /\ pc'[t] = "active"
      /\ \A u \in Threads \ {t} : closing'[u] = closing[u] /\ pc'[u] = pc[u]
  BY <1>0 DEF Sync, Goto, ThreadsTyped, Places
<1>3. /\ synced' \in [Names -> Nat] /\ from' \in [Names -> Nat]
      /\ \A m \in Names \ {n} : synced'[m] = synced[m] /\ from'[m] = from[m]
  BY DEF Sync, Finished, status, FilesTyped
<1>4. ASSUME n \in Names
      PROVE  \/ synced'[n] = rows[n]
             \/ n \in broken' /\ synced'[n] = synced[n] /\ from'[n] = from[n]
  BY <1>4 DEF Sync, Finished, status, FilesTyped
<1>5. FilesTyped' /\ ThreadsTyped'
  BY <1>1, <1>2, <1>3 DEF status, FilesTyped, ThreadsTyped
<1>6. PathInv'
  BY <1>1, <1>2 DEF PathInv, Sync, Working
<1>7. LossInv'
  <2>1. ASSUME NEW m \in Logs PROVE Recent(m)'
    <3>1. Recent(m) /\ m \in Names /\ rows[m] \in Nat
      BY <1>0 DEF LossInv, status, FilesTyped
    <3>2. CASE synced'[m] = rows[m]
      BY <3>1, <3>2, <1>1 DEF Recent
    <3>3. CASE synced'[m] = synced[m] /\ from'[m] = from[m]
      BY <3>1, <3>3, <1>1 DEF Recent
    <3> QED
      BY <3>1, <3>2, <3>3, <1>3, <1>4
  <2> QED
    BY <2>1, <1>1 DEF LossInv
<1>8. ClosedLogsSynced'
  <2> SUFFICES ASSUME NEW m \in (exists' \cap Logs) \ (broken' \cup replaced'), ~Held(m)'
               PROVE  synced'[m] = rows'[m]
    BY DEF ClosedLogsSynced
  <2>1. CASE m = n
    BY <2>1, <1>0, <1>1, <1>4
  <2>2. CASE m # n
    <3>1. ~Held(m)
      BY <2>2, <1>1, <1>2 DEF Held
    <3> QED
      BY <2>2, <3>1, <1>0, <1>1, <1>3 DEF ClosedLogsSynced
  <2> QED
    BY <2>1, <2>2
<1> QED
  BY <1>5, <1>6, <1>7, <1>8

(* prune_logs removes a file: its rows are gone with it. *)
LEMMA RemoveFacts ==
  ASSUME IInv, NEW t \in Threads, RemoveNext(t)
  PROVE  FilesTyped' /\ PruneTyped' /\ LossInv' /\ ClosedLogsSynced'
<1> USE DEF IInv, TypeOK
<1>1. UNCHANGED <<now, status, log, last_sync, closing, active>>
  BY DEF RemoveNext, clock, writers, ending
<1>2. PICK f \in todo[t] :
        /\ todo' = [todo EXCEPT ![t] = @ \ {f}]
        /\ IF f.name \in exists \ Stuck
             THEN /\ exists' = exists \ {f.name}
                  /\ rows' = [rows EXCEPT ![f.name] = 0]
                  /\ synced' = [synced EXCEPT ![f.name] = 0]
                  /\ mtime' = [mtime EXCEPT ![f.name] = 0]
                  /\ from' = [from EXCEPT ![f.name] = 0]
                  /\ broken' = broken \ {f.name}
                  /\ replaced' = replaced \ {f.name}
                  /\ total' = [total EXCEPT ![t] = @ - f.size]
             ELSE UNCHANGED <<files, total>>
  BY DEF RemoveNext
<1>3. PruneTyped'
  <2>1. f.size \in Nat /\ total \in [Threads -> Int]
    BY <1>2 DEF PruneTyped, Entries
  <2>2. total' \in [Threads -> Int]
    BY <1>2, <2>1
  <2> QED
    BY <1>1, <1>2, <2>2 DEF PruneTyped
<1>4. CASE f.name \in exists \ Stuck
  <2> DEFINE n == f.name
  <2>1. FilesTyped'
    BY <1>1, <1>2, <1>4 DEF status, FilesTyped
  <2>2. n \in Names /\ rows'[n] = 0 /\ synced'[n] = 0
    BY <1>2, <1>4 DEF status, FilesTyped
  <2>3. \A m \in Names \ {n} : /\ rows'[m] = rows[m] /\ synced'[m] = synced[m]
                               /\ mtime'[m] = mtime[m] /\ from'[m] = from[m]
    BY <1>2, <1>4 DEF status, FilesTyped
  <2>4. /\ exists' = exists \ {n} /\ broken' = broken \ {n} /\ replaced' = replaced \ {n}
    BY <1>2, <1>4
  <2> HIDE DEF n
  <2>5. LossInv'
    <3>1. ASSUME NEW m \in Logs PROVE Recent(m)'
      <4>1. Recent(m) /\ m \in Names
        BY DEF LossInv, Names
      <4>2. CASE m = n
        BY <4>2, <2>2 DEF Recent
      <4>3. CASE m # n
        BY <4>1, <4>3, <2>3, <1>1 DEF Recent
      <4> QED
        BY <4>2, <4>3
    <3> QED
      BY <3>1, <1>1 DEF LossInv
  <2>6. ClosedLogsSynced'
    BY <1>1, <2>3, <2>4 DEF ClosedLogsSynced, Held, Names
  <2> QED
    BY <1>3, <2>1, <2>5, <2>6
<1>5. CASE f.name \notin exists \ Stuck
  <2>1. UNCHANGED <<exists, rows, synced, mtime, from, broken, replaced>>
    BY <1>2, <1>5 DEF files, directory, status
  <2>2. FilesTyped'
    BY <1>1, <2>1 DEF status, FilesTyped
  <2> QED
    BY <1>1, <1>3, <2>1, <2>2, StillFacts
<1> QED
  BY <1>4, <1>5

(* log_import writes files of its own. *)
LEMMA ImportFacts ==
  ASSUME IInv, NEW r \in Importers, ImportWrites(r)
  PROVE  /\ FilesTyped' /\ ImportsTyped' /\ LossInv' /\ ClosedLogsSynced'
<1> USE DEF IInv, TypeOK
<1> DEFINE n == importing[r]
<1>1. n \in Imports /\ n \in Names /\ n \notin Logs /\ now \in Nat
  BY NameFacts DEF ImportWrites, ImportsTyped, Names
<1>2. UNCHANGED <<now, status, log, last_sync, closing, from, broken, replaced>>
  BY DEF ImportWrites, clock, writers, ending
<1>3. FilesTyped' /\ ImportsTyped'
  BY <1>1, <1>2 DEF ImportWrites, status, FilesTyped, ImportsTyped
<1>4. \A m \in Logs : /\ rows'[m] = rows[m] /\ synced'[m] = synced[m]
                      /\ mtime'[m] = mtime[m] /\ (m \in exists' <=> m \in exists)
  BY <1>1 DEF ImportWrites, status, FilesTyped, Names
<1>5. LossInv'
  BY <1>2, <1>4 DEF LossInv, Recent
<1>6. ClosedLogsSynced'
  BY <1>2, <1>4 DEF ClosedLogsSynced, Held
<1> QED
  BY <1>3, <1>5, <1>6

(* log_import: the name it finds is that of an import that is not there. *)
LEMMA FreeNameFacts ==
  ASSUME ~(Imports \subseteq exists)
  PROVE  FreeName \in Imports /\ FreeName \notin exists
<1> DEFINE S == {i \in 1 .. MaxImports : <<"import", i>> \notin exists}
<1>1. S \in SUBSET Nat /\ S # {}
  BY BoundAssumption DEF Imports
<1>2. Min(S) \in S
  <2> HIDE DEF S
  <2>1. \E x \in S : \A y \in S : x <= y
    BY <1>1, LeastNat
  <2> QED
    BY <2>1 DEF Min
<1> QED
  BY <1>2 DEF FreeName, Imports

-----------------------------------------------------------------------------
(* Every action keeps the invariant. *)
LEMMA NextInv == IInv /\ [Next]_vars => IInv'
<1> SUFFICES ASSUME IInv, [Next]_vars PROVE IInv'
  OBVIOUS
<1> USE DEF IInv, TypeOK
<1>1. ASSUME NEW t \in Threads, Connect(t) PROVE IInv'
  <2>1. /\ UNCHANGED <<now, exists, rows, synced, mtime, from, broken, replaced>>
        /\ UNCHANGED <<log, last_sync, closing>>
    BY <1>1 DEF Show, Connect, clock, files, directory, status, writers, ending
  <2>2. LossInv' /\ ClosedLogsSynced'
    BY <2>1, StillFacts
  <2>3. FilesTyped' /\ ThreadsTyped' /\ (now \in Seconds)' /\ PruneTyped' /\ ImportsTyped'
    BY <1>1, <2>1, NameFacts DEF Show, Connect, Goto, clock, files, directory, status,
       writers, queue, ending, prune, FilesTyped, ThreadsTyped, PruneTyped,
       ImportsTyped, LogNames, Places, Working, Nexts
  <2>4. FlagsTyped'
    BY <1>1, ModeAssumption, Zenon DEF Show, Connect, Goto, clock, files, directory,
       status, writers, queue, ending, prune, FlagsTyped
  <2>5. PathInv'
    BY <1>1, <2>1 DEF Show, Connect, Goto, clock, files, directory, status, writers,
       queue, ending, prune, ThreadsTyped, PathInv, Working
  <2> QED
    BY <2>1, <2>2, <2>3, <2>4, <2>5
<1>2. ASSUME NEW t \in Threads, Poll(t) PROVE IInv'
  <2>1. /\ UNCHANGED <<now, exists, rows, synced, mtime, from, broken, replaced>>
        /\ UNCHANGED <<log, last_sync, closing>>
    BY <1>2 DEF Poll, clock, files, directory, status, writers, ending
  <2>2. LossInv' /\ ClosedLogsSynced'
    BY <2>1, StillFacts
  <2>3. FilesTyped' /\ ThreadsTyped' /\ (now \in Seconds)' /\ PruneTyped' /\ ImportsTyped'
    BY <1>2, <2>1, NameFacts DEF Poll, Goto, clock, files, directory, status, writers,
       queue, ending, prune, FilesTyped, ThreadsTyped, PruneTyped, ImportsTyped,
       LogNames, Places, Working, Nexts
  <2>4. FlagsTyped'
    BY <1>2, ModeAssumption, Zenon DEF Poll, Goto, clock, files, directory, status,
       writers, queue, ending, prune, FlagsTyped
  <2>5. PathInv'
    BY <1>2, <2>1 DEF Poll, Goto, clock, files, directory, status, writers, queue,
       ending, prune, ThreadsTyped, PathInv, Working
  <2> QED
    BY <2>1, <2>2, <2>3, <2>4, <2>5
<1>3. ASSUME NEW t \in Threads, NoFrame(t) PROVE IInv'
  <2>1. /\ UNCHANGED <<now, exists, rows, synced, mtime, from, broken, replaced>>
        /\ UNCHANGED <<log, last_sync, closing>>
    BY <1>3 DEF NoFrame, clock, files, directory, status, writers, ending
  <2>2. LossInv' /\ ClosedLogsSynced'
    BY <2>1, StillFacts
  <2>3. FilesTyped' /\ ThreadsTyped' /\ (now \in Seconds)' /\ PruneTyped' /\ ImportsTyped'
    BY <1>3, <2>1, NameFacts DEF NoFrame, Goto, clock, files, directory, status,
       writers, queue, ending, prune, FilesTyped, ThreadsTyped, PruneTyped,
       ImportsTyped, LogNames, Places, Working, Nexts
  <2>4. FlagsTyped'
    BY <1>3, ModeAssumption, Zenon DEF NoFrame, Goto, clock, files, directory, status,
       writers, queue, ending, prune, FlagsTyped
  <2>5. PathInv'
    BY <1>3, <2>1 DEF NoFrame, Goto, clock, files, directory, status, writers, queue,
       ending, prune, ThreadsTyped, PathInv, Working
  <2> QED
    BY <2>1, <2>2, <2>3, <2>4, <2>5
<1>4. ASSUME NEW t \in Threads, EngineRuns(t) PROVE IInv'
  <2>1. /\ UNCHANGED <<now, exists, rows, synced, mtime, from, broken, replaced>>
        /\ UNCHANGED <<log, last_sync, closing>>
    BY <1>4 DEF EngineRuns, clock, files, directory, status, writers, ending
  <2>2. LossInv' /\ ClosedLogsSynced'
    BY <2>1, StillFacts
  <2>3. FilesTyped' /\ ThreadsTyped' /\ (now \in Seconds)' /\ PruneTyped' /\ ImportsTyped'
    BY <1>4, <2>1, NameFacts DEF EngineRuns, Goto, clock, files, directory, status,
       writers, queue, ending, prune, FilesTyped, ThreadsTyped, PruneTyped,
       ImportsTyped, LogNames, Places, Working, Nexts
  <2>4. FlagsTyped'
    BY <1>4, ModeAssumption, Zenon DEF EngineRuns, Goto, clock, files, directory,
       status, writers, queue, ending, prune, FlagsTyped
  <2>5. PathInv'
    BY <1>4, <2>1 DEF EngineRuns, Goto, clock, files, directory, status, writers,
       queue, ending, prune, ThreadsTyped, PathInv, Working
  <2> QED
    BY <2>1, <2>2, <2>3, <2>4, <2>5
<1>5. ASSUME NEW t \in Threads, RequestPoweroff(t) PROVE IInv'
  <2>1. /\ UNCHANGED <<now, exists, rows, synced, mtime, from, broken, replaced>>
        /\ UNCHANGED <<log, last_sync, closing>>
    BY <1>5 DEF RequestPoweroff, clock, files, directory, status, writers, ending
  <2>2. LossInv' /\ ClosedLogsSynced'
    BY <2>1, StillFacts
  <2>3. FilesTyped' /\ ThreadsTyped' /\ (now \in Seconds)' /\ PruneTyped' /\ ImportsTyped'
    BY <1>5, <2>1, NameFacts DEF RequestPoweroff, Return, Goto, clock, files,
       directory, status, writers, queue, ending, prune, FilesTyped, ThreadsTyped,
       PruneTyped, ImportsTyped, LogNames, Places, Working, Nexts
  <2>4. FlagsTyped'
    BY <1>5, ModeAssumption, Zenon DEF RequestPoweroff, Return, Goto, clock,
       files, directory, status, writers, queue, ending, prune, FlagsTyped
  <2>5. PathInv'
    BY <1>5, <2>1 DEF RequestPoweroff, Return, Goto, clock, files, directory, status,
       writers, queue, ending, prune, ThreadsTyped, PathInv, Working
  <2> QED
    BY <2>1, <2>2, <2>3, <2>4, <2>5
<1>6. ASSUME NEW t \in Threads, Leave(t) PROVE IInv'
  <2>1. /\ UNCHANGED <<now, exists, rows, synced, mtime, from, broken, replaced>>
        /\ UNCHANGED <<log, last_sync, closing>>
    BY <1>6 DEF Show, Leave, clock, files, directory, status, writers, ending
  <2>2. LossInv' /\ ClosedLogsSynced'
    BY <2>1, StillFacts
  <2>3. FilesTyped' /\ ThreadsTyped' /\ (now \in Seconds)' /\ PruneTyped' /\ ImportsTyped'
    BY <1>6, <2>1, NameFacts DEF Show, Leave, Return, Goto, clock, files, directory,
       status, writers, queue, ending, prune, FilesTyped, ThreadsTyped, PruneTyped,
       ImportsTyped, LogNames, Places, Working, Nexts
  <2>4. FlagsTyped'
    BY <1>6, ModeAssumption, Zenon DEF Show, Leave, Return, Goto, clock, files,
       directory, status, writers, queue, ending, prune, FlagsTyped
  <2>5. PathInv'
    BY <1>6, <2>1 DEF Show, Leave, Return, Goto, clock, files, directory, status,
       writers, queue, ending, prune, ThreadsTyped, PathInv, Working
  <2> QED
    BY <2>1, <2>2, <2>3, <2>4, <2>5
<1>7. ASSUME NEW t \in Threads, log_start(t) PROVE IInv'
  <2>1. /\ UNCHANGED <<now, exists, rows, synced, mtime, from, broken, replaced>>
        /\ UNCHANGED <<log, last_sync, closing>>
    BY <1>7 DEF log_start, clock, files, directory, status, writers, ending
  <2>2. LossInv' /\ ClosedLogsSynced'
    BY <2>1, StillFacts
  <2>3. FilesTyped' /\ ThreadsTyped' /\ (now \in Seconds)' /\ PruneTyped' /\ ImportsTyped'
    BY <1>7, <2>1, NameFacts DEF log_start, clock, files, directory, status, writers,
       queue, ending, prune, FilesTyped, ThreadsTyped, PruneTyped, ImportsTyped,
       LogNames, Places, Working, Nexts
  <2>4. FlagsTyped'
    BY <1>7, ModeAssumption, Zenon DEF log_start, clock, files, directory, status,
       writers, queue, ending, prune, FlagsTyped
  <2>5. PathInv'
    BY <1>7, <2>1 DEF log_start, clock, files, directory, status, writers, queue,
       ending, prune, ThreadsTyped, PathInv, Working
  <2> QED
    BY <2>1, <2>2, <2>3, <2>4, <2>5
<1>8. ASSUME NEW t \in Threads, disconnect(t) PROVE IInv'
  <2>1. /\ UNCHANGED <<now, exists, rows, synced, mtime, from, broken, replaced>>
        /\ UNCHANGED <<log, last_sync, closing>>
    BY <1>8 DEF disconnect, clock, files, directory, status, writers, ending
  <2>2. LossInv' /\ ClosedLogsSynced'
    BY <2>1, StillFacts
  <2>3. FilesTyped' /\ ThreadsTyped' /\ (now \in Seconds)' /\ PruneTyped' /\ ImportsTyped'
    BY <1>8, <2>1, NameFacts DEF disconnect, clock, files, directory, status, writers,
       queue, ending, prune, FilesTyped, ThreadsTyped, PruneTyped, ImportsTyped,
       LogNames, Places, Working, Nexts
  <2>4. FlagsTyped'
    BY <1>8, ModeAssumption, Zenon DEF disconnect, clock, files, directory, status,
       writers, queue, ending, prune, FlagsTyped
  <2>5. PathInv'
    BY <1>8, <2>1 DEF disconnect, clock, files, directory, status, writers, queue,
       ending, prune, ThreadsTyped, PathInv, Working
  <2> QED
    BY <2>1, <2>2, <2>3, <2>4, <2>5
<1>9. ASSUME NEW t \in Threads, ListLogs(t) PROVE IInv'
  <2>1. /\ UNCHANGED <<now, exists, rows, synced, mtime, from, broken, replaced>>
        /\ UNCHANGED <<log, last_sync, closing, active>>
    BY <1>9 DEF ListLogs, Candidates, Entry, clock, files, directory, status, writers,
       ending
  <2>2. LossInv' /\ ClosedLogsSynced'
    BY <2>1, StillFacts
  <2>3. \A c \in SUBSET exists :
          {[name |-> m, at |-> mtime[m], size |-> Size(m)] : m \in c} \subseteq Entries
    BY DEF status, FilesTyped, Entries, Size
  <2>4. todo' \in [Threads -> SUBSET Entries]
    BY <1>9, <2>3 DEF ListLogs, Candidates, Entry, PruneTyped
  <2>4a. total' \in [Threads -> Int]
    <3>1. Bytes(exists \ {active[t]}) \in Int
      BY BytesFacts DEF status, FilesTyped
    <3> QED
      BY <1>9, <3>1 DEF ListLogs, Candidates, Entry, PruneTyped
  <2>5. FilesTyped' /\ ThreadsTyped' /\ (now \in Seconds)' /\ PruneTyped' /\ ImportsTyped'
    BY <1>9, <2>1, <2>4, <2>4a DEF ListLogs, Candidates, Entry, Goto, queue, ending,
       status, FilesTyped, ThreadsTyped, PruneTyped, ImportsTyped, Places
  <2>6. FlagsTyped'
    BY <1>9, Zenon DEF ListLogs, Candidates, Entry, writers, queue, FlagsTyped
  <2>7. PathInv'
    BY <1>9, <2>1 DEF ListLogs, Candidates, Entry, Goto, ThreadsTyped, PathInv,
       Working
  <2> QED
    BY <2>1, <2>2, <2>3, <2>4, <2>5, <2>6, <2>7
<1>10. ASSUME NEW t \in Threads, ListFails(t) PROVE IInv'
  <2>1. UNCHANGED <<now, directory, status, log, last_sync, closing, asked>>
    BY <1>10 DEF ListFails, clock, writers, queue
  <2>2. /\ FilesTyped' /\ ThreadsTyped' /\ PruneTyped'
        /\ PathInv' /\ LossInv' /\ ClosedLogsSynced'
    BY <1>10, <2>1, ResumeFacts DEF ListFails
  <2>3. (now \in Seconds)' /\ ImportsTyped'
    BY <1>10, <2>1 DEF ListFails, ImportsTyped
  <2>4. FlagsTyped'
    BY <1>10, Zenon DEF ListFails, writers, queue, FlagsTyped
  <2> QED
    BY <2>1, <2>2, <2>3, <2>4
<1>11. ASSUME NEW t \in Threads, Pruned(t) PROVE IInv'
  <2>1. UNCHANGED <<now, directory, status, log, last_sync, closing, asked>>
    BY <1>11 DEF Pruned, clock, writers, queue
  <2>2. /\ FilesTyped' /\ ThreadsTyped' /\ PruneTyped'
        /\ PathInv' /\ LossInv' /\ ClosedLogsSynced'
    BY <1>11, <2>1, ResumeFacts DEF Pruned
  <2>3. (now \in Seconds)' /\ ImportsTyped'
    BY <1>11, <2>1 DEF Pruned, ImportsTyped
  <2>4. FlagsTyped'
    BY <1>11, Zenon DEF Pruned, writers, queue, FlagsTyped
  <2> QED
    BY <2>1, <2>2, <2>3, <2>4
<1>12. ASSUME NEW t \in Threads, ReadActive(t) PROVE IInv'
  <2>1. CASE Limit = 0
    <3>1. UNCHANGED <<now, directory, status, log, last_sync, closing, asked>>
      BY <1>12 DEF ReadActive, clock, writers, queue
    <3>2. /\ FilesTyped' /\ ThreadsTyped' /\ PruneTyped'
          /\ PathInv' /\ LossInv' /\ ClosedLogsSynced'
      BY <1>12, <2>1, <3>1, ResumeFacts DEF ReadActive
    <3>3. (now \in Seconds)' /\ ImportsTyped'
      BY <1>12, <3>1 DEF ReadActive, ImportsTyped
    <3>4. FlagsTyped'
      BY <1>12, Zenon DEF ReadActive, writers, queue, FlagsTyped
    <3> QED
    BY <3>2, <3>3, <3>4
  <2>2. CASE Limit # 0
    <3>1. /\ UNCHANGED <<now, exists, rows, synced, mtime, from, broken, replaced>>
          /\ UNCHANGED <<log, last_sync, closing>>
      BY <1>12 DEF ReadActive, clock, files, directory, status, writers, ending
    <3>2. LossInv' /\ ClosedLogsSynced'
      BY <3>1, StillFacts
    <3>3. FilesTyped' /\ ThreadsTyped' /\ (now \in Seconds)' /\ PruneTyped' /\ ImportsTyped'
      BY <1>12, <2>2, <3>1 DEF ReadActive, Goto, queue, status, FilesTyped,
         ThreadsTyped, PruneTyped, ImportsTyped, Places
    <3>4. FlagsTyped'
      BY <1>12, Zenon DEF ReadActive, writers, queue, FlagsTyped
    <3>5. PathInv'
      BY <1>12, <2>2, <3>1 DEF ReadActive, Goto, ThreadsTyped, PathInv, Working
    <3> QED
    BY <3>2, <3>3, <3>4, <3>5
  <2> QED
    BY <2>1, <2>2
<1>13. ASSUME NEW t \in Threads, StartAsked(t) PROVE IInv'
  <2>1. asked[t] \in Logs
    BY <1>13 DEF StartAsked, ThreadsTyped, LogNames
  <2>2. UNCHANGED <<now, closing, pc, then, active, todo, total, importing>>
    BY <1>13 DEF StartAsked, clock, ending, prune
  <2>3. /\ FilesTyped' /\ log' \in [Threads -> LogNames]
        /\ last_sync' \in [Threads -> Nat]
        /\ \A u \in Threads : log'[u] = IF u = t THEN log'[t] ELSE log[u]
        /\ LossInv' /\ ClosedLogsSynced'
    BY <1>13, <2>1, <2>2, StartLogFacts DEF StartAsked
  <2>4. ThreadsTyped' /\ (now \in Seconds)' /\ PruneTyped' /\ ImportsTyped'
    BY <1>13, <2>2, <2>3 DEF StartAsked, ThreadsTyped, PruneTyped, ImportsTyped,
       LogNames
  <2>5. FlagsTyped'
    BY <1>13, Zenon DEF StartAsked, FlagsTyped
  <2>6. PathInv'
    BY <1>13, <2>2, <2>3 DEF StartAsked, PathInv, Working
  <2> QED
    BY <2>1, <2>2, <2>3, <2>4, <2>5, <2>6
<1>14. ASSUME NEW t \in Threads, Frame(t) PROVE IInv'
  <2>1. UNCHANGED <<now, closing, asked, then, active, todo, total, importing>>
    BY <1>14 DEF Frame, clock, queue, ending, prune
  <2>2. /\ FilesTyped' /\ log' \in [Threads -> LogNames]
        /\ last_sync' \in [Threads -> Nat]
        /\ \A u \in Threads : log'[u] = IF u = t THEN log'[t] ELSE log[u]
        /\ LossInv' /\ ClosedLogsSynced'
    <3>1. CASE auto[t] /\ log[t] = NoLog
      BY <1>14, <2>1, <3>1, StartLogFacts, NameFacts DEF Frame
    <3>2. CASE ~(auto[t] /\ log[t] = NoLog)
      <4>1. UNCHANGED <<files, status, log, last_sync>>
        BY <1>14, <3>2 DEF Frame
      <4> QED
        BY <4>1, <2>1, StillFacts DEF files, directory, status, FilesTyped,
           ThreadsTyped
    <3> QED
    BY <3>1, <3>2
  <2>3. /\ pc' \in [Threads -> Places] /\ pc'[t] = "row"
        /\ \A u \in Threads \ {t} : pc'[u] = pc[u]
    BY <1>14 DEF Frame, Goto, ThreadsTyped, Places, Working
  <2>4. ThreadsTyped' /\ (now \in Seconds)' /\ PruneTyped' /\ ImportsTyped'
    BY <2>1, <2>2, <2>3 DEF ThreadsTyped, PruneTyped, ImportsTyped
  <2>5. FlagsTyped'
    BY <1>14, Zenon DEF Frame, queue, FlagsTyped
  <2>6. PathInv'
    BY <1>14, <2>1, <2>2, <2>3 DEF Frame, PathInv, Working
  <2> QED
    BY <2>1, <2>2, <2>3, <2>4, <2>5, <2>6
<1>15. ASSUME NEW t \in Threads, Row(t) PROVE IInv'
  <2>1. UNCHANGED <<now, status, log, closing, asked, then, active, todo, total, importing>>
    BY <1>15 DEF Row, clock, queue, ending, prune
  <2>2. FilesTyped' /\ last_sync' \in [Threads -> Nat] /\ LossInv' /\ ClosedLogsSynced'
    <3>1. CASE log[t] \in exists
      BY <1>15, <2>1, <3>1, AppendFacts DEF Row
    <3>2. CASE log[t] \notin exists
      <4>1. UNCHANGED <<files, last_sync>>
        BY <1>15, <3>2 DEF Row
      <4> QED
        BY <4>1, <2>1, StillFacts DEF files, directory, status, FilesTyped,
           ThreadsTyped
    <3> QED
    BY <3>1, <3>2
  <2>3. /\ pc' \in [Threads -> Places] /\ pc'[t] = "observe"
        /\ \A u \in Threads \ {t} : pc'[u] = pc[u]
    BY <1>15 DEF Row, Goto, ThreadsTyped, Places, Working
  <2>4. ThreadsTyped' /\ (now \in Seconds)' /\ PruneTyped' /\ ImportsTyped'
    BY <2>1, <2>2, <2>3 DEF ThreadsTyped, PruneTyped, ImportsTyped
  <2>5. FlagsTyped'
    BY <1>15, Zenon DEF Row, queue, FlagsTyped
  <2>6. PathInv'
    BY <1>15, <2>1, <2>3 DEF Row, PathInv, Working
  <2> QED
    BY <2>1, <2>2, <2>3, <2>4, <2>5, <2>6
<1>16. ASSUME NEW t \in Threads, StopLog(t) PROVE IInv'
  <2>1. /\ UNCHANGED <<now, exists, rows, synced, mtime, from, replaced, asked>>
        /\ broken \subseteq broken' /\ UNCHANGED <<active, todo, total, importing>>
    BY <1>16 DEF StopLog, clock, files, directory, status, queue, prune
  <2>2. "loop" \in Nexts /\ pc[t] \in Working /\ FinishLog(t, "loop")
    BY <1>16 DEF StopLog, Nexts, Working
  <2>3. FilesTyped' /\ ThreadsTyped' /\ PathInv' /\ LossInv' /\ ClosedLogsSynced'
    BY <2>1, <2>2, FinishLogFacts
  <2>4. (now \in Seconds)' /\ PruneTyped' /\ ImportsTyped'
    BY <2>1 DEF PruneTyped, ImportsTyped
  <2>5. FlagsTyped'
    BY <1>16, Zenon DEF StopLog, queue, FlagsTyped
  <2> QED
    BY <2>1, <2>2, <2>3, <2>4, <2>5
<1>17. ASSUME NEW t \in Threads, Shutdown(t) PROVE IInv'
  <2>1. /\ UNCHANGED <<now, exists, rows, synced, mtime, from, replaced, asked>>
        /\ broken \subseteq broken' /\ UNCHANGED <<active, todo, total, importing>>
    BY <1>17 DEF Shutdown, clock, files, directory, status, queue, prune
  <2>2. "leave" \in Nexts /\ pc[t] \in Working /\ FinishLog(t, "leave")
    BY <1>17 DEF Shutdown, Nexts, Working
  <2>3. FilesTyped' /\ ThreadsTyped' /\ PathInv' /\ LossInv' /\ ClosedLogsSynced'
    BY <2>1, <2>2, FinishLogFacts
  <2>4. (now \in Seconds)' /\ PruneTyped' /\ ImportsTyped'
    BY <2>1 DEF PruneTyped, ImportsTyped
  <2>5. FlagsTyped'
    BY <1>17, Zenon DEF Shutdown, queue, FlagsTyped
  <2> QED
    BY <2>1, <2>2, <2>3, <2>4, <2>5
<1>18. ASSUME NEW t \in Threads, RowFails(t) PROVE IInv'
  <2>1. /\ UNCHANGED <<now, exists, rows, synced, mtime, from, replaced, asked>>
        /\ broken \subseteq broken' /\ UNCHANGED <<active, todo, total, importing>>
    BY <1>18 DEF RowFails, clock, files, directory, status, queue, prune
  <2>2. "observe" \in Nexts /\ pc[t] \in Working /\ FinishLog(t, "observe")
    BY <1>18 DEF RowFails, Nexts, Working
  <2>3. FilesTyped' /\ ThreadsTyped' /\ PathInv' /\ LossInv' /\ ClosedLogsSynced'
    BY <2>1, <2>2, FinishLogFacts
  <2>4. (now \in Seconds)' /\ PruneTyped' /\ ImportsTyped'
    BY <2>1 DEF PruneTyped, ImportsTyped
  <2>5. FlagsTyped'
    BY <1>18, Zenon DEF RowFails, queue, FlagsTyped
  <2> QED
    BY <2>1, <2>2, <2>3, <2>4, <2>5
<1>19. ASSUME NEW t \in Threads, EngineOff(t) PROVE IInv'
  <2>1. /\ UNCHANGED <<now, exists, rows, synced, mtime, from, replaced, asked>>
        /\ broken \subseteq broken' /\ UNCHANGED <<active, todo, total, importing>>
    BY <1>19 DEF EngineOff, clock, files, directory, status, queue, prune,
       EngineStopped
  <2>2. "request" \in Nexts /\ pc[t] \in Working /\ FinishLog(t, "request")
    BY <1>19 DEF EngineOff, Nexts, Working, EngineStopped
  <2>3. FilesTyped' /\ ThreadsTyped' /\ PathInv' /\ LossInv' /\ ClosedLogsSynced'
    BY <2>1, <2>2, FinishLogFacts
  <2>4. (now \in Seconds)' /\ PruneTyped' /\ ImportsTyped'
    BY <2>1 DEF PruneTyped, ImportsTyped
  <2>5. FlagsTyped'
    BY <1>19, Zenon DEF EngineOff, queue, FlagsTyped, EngineStopped
  <2> QED
    BY <2>1, <2>2, <2>3, <2>4, <2>5
<1>20. ASSUME NEW t \in Threads, DeviceLost(t) PROVE IInv'
  <2>1. /\ UNCHANGED <<now, exists, rows, synced, mtime, from, broken, replaced, asked>>
        /\ UNCHANGED <<active, todo, total, importing>>
    BY <1>20 DEF DeviceLost, clock, files, directory, status, queue, prune
  <2>2. (now \in Seconds)' /\ PruneTyped' /\ ImportsTyped'
    BY <2>1 DEF PruneTyped, ImportsTyped
  <2>3. FlagsTyped'
    BY <1>20, Zenon DEF DeviceLost, queue, FlagsTyped
  <2>4. FilesTyped' /\ ThreadsTyped' /\ PathInv' /\ LossInv' /\ ClosedLogsSynced'
    <3>1. CASE log[t] = NoLog
      <4>1. UNCHANGED <<status, closing, log, last_sync>>
        BY <1>20, <3>1 DEF DeviceLost
      <4>2. LossInv' /\ ClosedLogsSynced'
        BY <2>1, <4>1, StillFacts
      <4>3. FilesTyped' /\ ThreadsTyped'
        BY <1>20, <2>1, <3>1, <4>1 DEF DeviceLost, Goto, status, FilesTyped,
           ThreadsTyped, Places, Nexts
      <4>4. PathInv'
        BY <1>20, <3>1, <4>1 DEF DeviceLost, Goto, ThreadsTyped, PathInv, Working
      <4> QED
        BY <4>2, <4>3, <4>4
    <3>2. CASE log[t] # NoLog
      <4>1. "again" \in Nexts /\ pc[t] \in Working /\ FinishLog(t, "again")
        BY <1>20, <3>2 DEF DeviceLost, Nexts, Working
      <4> QED
        BY <2>1, <3>2, <4>1, FinishLogFacts
    <3> QED
    BY <3>1, <3>2
  <2> QED
    BY <2>1, <2>2, <2>3, <2>4
<1>21. ASSUME NEW t \in Threads, Sync(t) PROVE IInv'
  <2>1. FilesTyped' /\ ThreadsTyped' /\ PathInv' /\ LossInv' /\ ClosedLogsSynced'
    BY <1>21, SyncFacts
  <2>2. (now \in Seconds)' /\ PruneTyped' /\ ImportsTyped'
    BY <1>21 DEF Sync, clock, prune, PruneTyped, ImportsTyped
  <2>3. FlagsTyped'
    BY <1>21, Zenon DEF Sync, writers, queue, FlagsTyped
  <2> QED
    BY <2>1, <2>2, <2>3
<1>22. ASSUME NEW t \in Threads, RemoveNext(t) PROVE IInv'
  <2>1. FilesTyped' /\ PruneTyped' /\ LossInv' /\ ClosedLogsSynced'
    BY <1>22, RemoveFacts
  <2>2. (now \in Seconds)' /\ ImportsTyped' /\ ThreadsTyped' /\ PathInv'
    BY <1>22 DEF RemoveNext, clock, writers, queue, ending, ThreadsTyped,
       ImportsTyped, PathInv
  <2>3. FlagsTyped'
    BY <1>22, Zenon DEF RemoveNext, writers, queue, FlagsTyped
  <2> QED
    BY <2>1, <2>2, <2>3
<1>23. ASSUME NEW r \in Importers, ImportFinds(r) PROVE IInv'
  <2>1. FreeName \in Imports
    BY <1>23, FreeNameFacts DEF ImportFinds
  <2>2. /\ UNCHANGED <<now, exists, rows, synced, mtime, from, broken, replaced>>
        /\ UNCHANGED <<log, last_sync, closing>>
    BY <1>23 DEF ImportFinds, clock, files, directory, status, writers, ending
  <2>3. LossInv' /\ ClosedLogsSynced'
    BY <2>2, StillFacts
  <2>4. /\ FilesTyped' /\ ThreadsTyped' /\ PathInv'
        /\ (now \in Seconds)' /\ PruneTyped' /\ ImportsTyped'
    BY <1>23, <2>1, <2>2 DEF ImportFinds, queue, ending, prune, status, FilesTyped,
       ThreadsTyped, PathInv, PruneTyped, ImportsTyped
  <2>5. FlagsTyped'
    BY <1>23, Zenon DEF ImportFinds, writers, queue, FlagsTyped
  <2> QED
    BY <2>1, <2>2, <2>3, <2>4, <2>5
<1>24. ASSUME NEW r \in Importers, ImportWrites(r) PROVE IInv'
  <2>1. FilesTyped' /\ ImportsTyped' /\ LossInv' /\ ClosedLogsSynced'
    BY <1>24, ImportFacts
  <2>2. (now \in Seconds)' /\ PruneTyped' /\ ThreadsTyped' /\ PathInv'
    BY <1>24 DEF ImportWrites, clock, writers, queue, ending, prune,
       ThreadsTyped, PruneTyped, PathInv
  <2>3. FlagsTyped'
    BY <1>24, Zenon DEF ImportWrites, writers, queue, FlagsTyped
  <2> QED
    BY <2>1, <2>2, <2>3
<1>25. ASSUME Tick PROVE IInv'
  <2>1. /\ UNCHANGED <<exists, rows, synced, mtime, from, broken, replaced, status>>
        /\ UNCHANGED <<pc, then, log, closing, asked, last_sync, active, todo, total, importing>>
    BY <1>25 DEF Tick, files, directory, status, writers, queue, ending, prune
  <2>2. now \in Nat /\ now' = now + 1 /\ now' \in Seconds
    BY <1>25, BoundAssumption DEF Tick, Seconds
  <2>3. /\ FilesTyped' /\ ThreadsTyped' /\ PathInv' /\ PruneTyped' /\ ImportsTyped'
    BY <2>1 DEF status, FilesTyped, ThreadsTyped, PathInv, PruneTyped, ImportsTyped
  <2>4. FlagsTyped'
    BY <1>25, Zenon DEF Tick, writers, queue, FlagsTyped
  <2>5. \A t \in Threads : last_sync'[t] <= now'
    BY <2>1, <2>2 DEF LossInv, ThreadsTyped
  <2>6. \A m \in Logs : from[m] \in Nat
    BY DEF status, FilesTyped, Names
  <2>7. \A m \in Logs : Recent(m)'
    BY <2>1, <2>2, <2>6 DEF LossInv, Recent
  <2>8. LossInv' /\ ClosedLogsSynced'
    BY <2>1, <2>5, <2>7 DEF LossInv, ClosedLogsSynced, Held
  <2> QED
    BY <2>2, <2>3, <2>4, <2>8
<1>26. ASSUME UNCHANGED vars PROVE IInv'
  <2>1. /\ UNCHANGED <<now, exists, rows, synced, mtime, from, broken, replaced, status>>
        /\ UNCHANGED <<pc, then, log, closing, asked, last_sync, active, todo, total, importing>>
    BY <1>26 DEF vars, clock, files, directory, status, writers, queue, ending, prune
  <2>2. LossInv' /\ ClosedLogsSynced'
    BY <2>1, StillFacts
  <2>3. /\ FilesTyped' /\ ThreadsTyped' /\ PathInv'
        /\ (now \in Seconds)' /\ PruneTyped' /\ ImportsTyped'
    BY <2>1 DEF status, FilesTyped, ThreadsTyped, PathInv, PruneTyped, ImportsTyped
  <2>4. FlagsTyped'
    BY <1>26, Zenon DEF vars, writers, queue, FlagsTyped
  <2> QED
    BY <2>2, <2>3, <2>4
<1> QED
  BY <1>1, <1>2, <1>3, <1>4, <1>5, <1>6, <1>7, <1>8, <1>9, <1>10, <1>11, <1>12,
     <1>13, <1>14, <1>15, <1>16, <1>17, <1>18, <1>19, <1>20, <1>21, <1>22, <1>23,
     <1>24, <1>25, <1>26 DEF Next, ThreadStep

(* Every behaviour of the threads, the requests and the clock keeps to the   *)
(* invariant: the types, where a thread may have a writer, how old a row may *)
(* be before it is synced, and that closed logs are.                         *)
THEOREM Inductive == Spec => []IInv
<1>1. Init => IInv
  BY InitInv
<1>2. IInv /\ [Next]_vars => IInv'
  BY NextInv
<1> QED
  BY <1>1, <1>2, PTL DEF Spec

(* Every variable keeps its type. *)
THEOREM TypeCorrect == Spec => []TypeOK
<1>1. IInv => TypeOK
  BY DEF IInv
<1> QED
  BY <1>1, Inductive, PTL

(* write_row: a power cut loses less than the sync interval of any log, for  *)
(* any number of threads that write to the directory, the same file included. *)
THEOREM LossBoundedHolds == Spec => []LossBounded
<1>1. IInv => LossBounded
  BY DEF IInv, LossInv, Recent, LossBounded
<1> QED
  BY <1>1, Inductive, PTL

(* finish: a log that no thread holds any more is on the disk, unless an     *)
(* error or a restart of logging is on record for it.                        *)
THEOREM ClosedLogsSyncedHolds == Spec => []ClosedLogsSynced
<1>1. IInv => ClosedLogsSynced
  BY DEF IInv
<1> QED
  BY <1>1, Inductive, PTL

-----------------------------------------------------------------------------
(* The status. *)

LEMMA ShowFacts ==
  ASSUME log \in [Threads -> LogNames], NEW t \in Threads, NEW n, Show(t, n),
         log' = [log EXCEPT ![t] = n]
  PROVE  StatusShowsLog'
<1> SUFFICES ASSUME ~clobbered'
             PROVE  /\ \A u \in Threads : log'[u] # NoLog => log'[u] = slog'
                    /\ slog' # NoLog => \E u \in Threads : log'[u] = slog'
  BY Zenon DEF StatusShowsLog
<1>1. \A u \in Threads \ {t} : log[u] = NoLog
  BY Zenon DEF Show
<1>2. log'[t] = n /\ \A u \in Threads \ {t} : log'[u] = log[u]
  OBVIOUS
<1>3. slog' = n
  BY DEF Show
<1> QED
  BY <1>1, <1>2, <1>3

LEMMA StatusNext ==
  ASSUME IInv, StatusShowsLog, [Next]_vars
  PROVE  StatusShowsLog'
<1> USE DEF IInv, TypeOK
<1>0. log \in [Threads -> LogNames]
  BY DEF ThreadsTyped
<1>1. ASSUME UNCHANGED <<status, log>> PROVE StatusShowsLog'
  BY <1>1 DEF StatusShowsLog, status
<1>2. ASSUME NEW t \in Threads, NEW n, StartLog(t, n) PROVE StatusShowsLog'
  BY <1>0, <1>1, <1>2, ShowFacts DEF StartLog
<1>3. ASSUME NEW t \in Threads, log[t] = NoLog, UNCHANGED log
      PROVE  log' = [log EXCEPT ![t] = NoLog]
  BY <1>0, <1>3
<1>4. ASSUME NEW t \in Threads, NEW next, FinishLog(t, next) PROVE StatusShowsLog'
  <2>1. CASE log[t] = NoLog
    <3>1. UNCHANGED log
      BY <1>0, <1>4, <2>1 DEF FinishLog
    <3> QED
      BY <1>1, <1>4, <2>1, <3>1 DEF FinishLog
  <2>2. CASE log[t] # NoLog
    BY <1>0, <1>4, <2>2, ShowFacts DEF FinishLog, ShowStopped
  <2> QED
    BY <2>1, <2>2
<1>5. ASSUME NEW t \in Threads, Connect(t) \/ Leave(t) PROVE StatusShowsLog'
  <2>1. log[t] = NoLog /\ UNCHANGED log /\ Show(t, NoLog)
    BY <1>5 DEF Connect, Leave, PathInv, Working
  <2> QED
    BY <1>0, <1>3, <2>1, ShowFacts
<1>6. ASSUME NEW t \in Threads, StartAsked(t) PROVE StatusShowsLog'
  BY <1>2, <1>6 DEF StartAsked
<1>7. ASSUME NEW t \in Threads, Frame(t) PROVE StatusShowsLog'
  BY <1>1, <1>2, <1>7 DEF Frame
<1>8. ASSUME NEW t \in Threads,
             StopLog(t) \/ Shutdown(t) \/ RowFails(t) \/ EngineOff(t)
      PROVE  StatusShowsLog'
  BY <1>4, <1>8 DEF StopLog, Shutdown, RowFails, EngineOff, EngineStopped
<1>9. ASSUME NEW t \in Threads, DeviceLost(t) PROVE StatusShowsLog'
  BY <1>1, <1>4, <1>9 DEF DeviceLost
<1>10. ASSUME NEW t \in Threads,
              \/ Poll(t) \/ NoFrame(t) \/ Row(t) \/ EngineRuns(t) \/ RequestPoweroff(t)
              \/ Sync(t) \/ ReadActive(t) \/ ListLogs(t) \/ ListFails(t)
              \/ RemoveNext(t) \/ Pruned(t) \/ log_start(t) \/ disconnect(t)
       PROVE  StatusShowsLog'
  BY <1>1, <1>10 DEF Poll, NoFrame, Row, EngineRuns, RequestPoweroff, Sync,
     ReadActive, ListLogs, ListFails, RemoveNext, Pruned, log_start, disconnect,
     writers
<1>11. ASSUME NEW r \in Importers, ImportFinds(r) \/ ImportWrites(r)
       PROVE  StatusShowsLog'
  BY <1>1, <1>11 DEF ImportFinds, ImportWrites, writers
<1>12. ASSUME Tick \/ UNCHANGED vars PROVE StatusShowsLog'
  BY <1>1, <1>12 DEF Tick, vars, writers
<1> QED
  BY <1>5, <1>6, <1>7, <1>8, <1>9, <1>10, <1>11, <1>12 DEF Next, ThreadStep

(* However many threads overlap, Status::log is the log that is written, and *)
(* none when none is, unless it was last written beside an open log.         *)
THEOREM StatusShowsLogHolds == Spec => []StatusShowsLog
<1>1. Init => StatusShowsLog
  BY DEF Init, StatusShowsLog
<1>2. IInv /\ StatusShowsLog /\ [Next]_vars => StatusShowsLog'
  BY StatusNext
<1> QED
  BY <1>1, <1>2, Inductive, PTL DEF Spec

LEMMA RequestFacts ==
  ASSUME IInv, [Next]_vars, ~requested, requested'
  PROVE  \A n \in (exists \cap Logs) \ (broken \cup replaced) :
           \/ ~Held(n) /\ synced[n] = rows[n]
           \/ \E u \in Threads : pc'[u] = pc[u] /\ (log[u] = n \/ closing[u] = n)
<1>1. \E t \in Threads : RequestPoweroff(t)
  <2>1. requested' # requested
    OBVIOUS
  <2>2. ASSUME UNCHANGED requested PROVE FALSE
    BY <2>1, <2>2
  <2>3. ~(\E t \in Threads : Connect(t) \/ log_start(t) \/ disconnect(t)) /\ ~Tick
        /\ ~(\E r \in Importers : ImportFinds(r) \/ ImportWrites(r)) /\ ~UNCHANGED vars
    BY <2>2, Zenon DEF Connect, log_start, disconnect, Tick, ImportFinds,
       ImportWrites, vars
  <2>4. \A t \in Threads : /\ ~StartAsked(t) /\ ~StopLog(t) /\ ~Shutdown(t) /\ ~Poll(t)
                           /\ ~NoFrame(t) /\ ~Frame(t) /\ ~Row(t) /\ ~RowFails(t)
                           /\ ~EngineRuns(t) /\ ~EngineOff(t) /\ ~DeviceLost(t) /\ ~Leave(t)
    BY <2>2, Zenon DEF StartAsked, StopLog, Shutdown, Poll, NoFrame, Frame, Row,
       RowFails, EngineRuns, EngineOff, EngineStopped, DeviceLost, Leave
  <2>5. \A t \in Threads : /\ ~Sync(t) /\ ~ReadActive(t) /\ ~ListLogs(t) /\ ~ListFails(t)
                           /\ ~RemoveNext(t) /\ ~Pruned(t)
    BY <2>2, Zenon DEF Sync, ReadActive, ListLogs, ListFails, RemoveNext, Pruned
  <2> QED
    BY <2>3, <2>4, <2>5, Zenon DEF Next, ThreadStep
<1>2. PICK t \in Threads : RequestPoweroff(t)
  BY <1>1
<1>3. log[t] = NoLog /\ closing[t] = NoLog /\ \A u \in Threads \ {t} : pc'[u] = pc[u]
  BY <1>2 DEF RequestPoweroff, Return, Goto, IInv, PathInv, Working, TypeOK,
     ThreadsTyped
<1>4. ASSUME NEW n \in (exists \cap Logs) \ (broken \cup replaced)
      PROVE  \/ ~Held(n) /\ synced[n] = rows[n]
             \/ \E u \in Threads : pc'[u] = pc[u] /\ (log[u] = n \/ closing[u] = n)
  <2>1. n # NoLog
    BY NameFacts DEF Names
  <2>2. CASE Held(n)
    BY <1>3, <2>1, <2>2 DEF Held
  <2>3. CASE ~Held(n)
    BY <2>3 DEF IInv, ClosedLogsSynced
  <2> QED
    BY <2>2, <2>3
<1> QED
  BY <1>4

(* However many threads overlap, the poweroff is only asked for with every   *)
(* log closed and on the disk, but for those another thread has and those    *)
(* with an error or a restart on record.                                     *)
THEOREM FinishedBeforePoweroffHolds == Spec => FinishedBeforePoweroff
<1>1. IInv /\ [Next]_vars => [~requested /\ requested' =>
        \A n \in (exists \cap Logs) \ (broken \cup replaced) :
          \/ ~Held(n) /\ synced[n] = rows[n]
          \/ \E u \in Threads : pc'[u] = pc[u] /\ (log[u] = n \/ closing[u] = n)]_vars
  BY RequestFacts
<1> QED
  BY <1>1, Inductive, PTL DEF Spec, FinishedBeforePoweroff

-----------------------------------------------------------------------------
(* Retention.                                                                *)

(* E is what prune_logs still accounts for: its running sum, its list.       *)
Covers(t, E) ==
  /\ total[t] = Bytes(E)
  /\ \A f \in todo[t] :
       f.name \in E /\ f.at = mtime[f.name] /\ f.size = Size(f.name)
  /\ \A n \in E : n \in Stuck \/ \E f \in todo[t] : f.name = n
  /\ active[t] \notin E
  /\ exists \ (E \cup {active[t]}) \subseteq Imports
  /\ \A m \in exists \ (E \cup {active[t]}), n \in E : mtime[n] <= mtime[m]

(* While a thread prunes, its active log is the only one that is written.    *)
Pruning(t) == pc[t] \in {"list", "prune"}
Accounted(t) ==
  /\ Pruning(t) => \A u \in Threads : log[u] \in {NoLog, active[t]}
  /\ pc[t] = "prune" => \E E \in SUBSET exists : Covers(t, E)

TimesInv == \A n \in Names : mtime[n] <= now
PruneInv == \A t \in Threads \ disturbed : Accounted(t)

(* No file is from the future. *)
LEMMA TimesNext == IInv /\ TimesInv /\ [Next]_vars => TimesInv'
<1> SUFFICES ASSUME IInv, TimesInv, [Next]_vars PROVE TimesInv'
  OBVIOUS
<1> USE DEF IInv, TypeOK
<1>0. now \in Nat /\ mtime \in [Names -> Nat]
  BY NameFacts DEF FilesTyped
<1>1. ASSUME now' = now, NEW k, mtime' = [mtime EXCEPT ![k] = now] \/ mtime' = [mtime EXCEPT ![k] = 0]
      PROVE  TimesInv'
  BY <1>0, <1>1 DEF TimesInv
<1>2. ASSUME UNCHANGED <<now, mtime>> PROVE TimesInv'
  BY <1>2 DEF TimesInv
<1>3. ASSUME NEW t, NEW n, StartLog(t, n), UNCHANGED now PROVE TimesInv'
  BY <1>1, <1>2, <1>3 DEF StartLog, Create, files, directory
<1>4. ASSUME NEW t \in Threads, StartAsked(t) \/ Frame(t) PROVE TimesInv'
  BY <1>2, <1>3, <1>4 DEF StartAsked, Frame, clock, files, directory
<1>5. ASSUME NEW t \in Threads, Row(t) PROVE TimesInv'
  BY <1>1, <1>2, <1>5 DEF Row, Append, clock, files, directory
<1>6. ASSUME NEW t \in Threads, RemoveNext(t) PROVE TimesInv'
  <2>1. PICK f \in todo[t] : IF f.name \in exists \ Stuck
          THEN mtime' = [mtime EXCEPT ![f.name] = 0] ELSE UNCHANGED mtime
    BY <1>6 DEF RemoveNext, files, directory
  <2> QED
    BY <1>1, <1>2, <1>6, <2>1 DEF RemoveNext, clock
<1>7. ASSUME NEW t \in Threads,
             \/ Connect(t) \/ StopLog(t) \/ Shutdown(t) \/ Poll(t) \/ NoFrame(t)
             \/ RowFails(t) \/ EngineRuns(t) \/ EngineOff(t) \/ RequestPoweroff(t)
             \/ DeviceLost(t) \/ Leave(t) \/ Sync(t) \/ ReadActive(t) \/ ListLogs(t)
             \/ ListFails(t) \/ Pruned(t) \/ log_start(t) \/ disconnect(t)
      PROVE  TimesInv'
  BY <1>2, <1>7 DEF Connect, StopLog, Shutdown, Poll, NoFrame, RowFails, EngineRuns,
     EngineOff, RequestPoweroff, DeviceLost, Leave, Sync, ReadActive, ListLogs,
     ListFails, Pruned, log_start, disconnect, files, directory, clock
<1>8. ASSUME NEW r \in Importers, ImportFinds(r) \/ ImportWrites(r) PROVE TimesInv'
  BY <1>1, <1>2, <1>8 DEF ImportFinds, ImportWrites, clock, files, directory
<1>9. ASSUME Tick PROVE TimesInv'
  BY <1>0, <1>9 DEF Tick, files, directory, TimesInv
<1>10. ASSUME UNCHANGED vars PROVE TimesInv'
  BY <1>2, <1>10 DEF vars, clock, files, directory
<1> QED
  BY <1>4, <1>5, <1>6, <1>7, <1>8, <1>9, <1>10 DEF Next, ThreadStep

(* The accounts of a thread outlive a step of another one: files may appear  *)
(* as imports, grow where they are written, and be closed.                   *)
LEMMA AccountKept ==
  ASSUME IInv, IInv', TimesInv, NEW u \in Threads, Accounted(u), now' = now,
         exists \subseteq exists',
         \A n \in exists' \ exists : n \in Imports /\ mtime'[n] = now,
         \A n \in exists : \/ \E s \in Threads : log[s] = n
                           \/ rows'[n] = rows[n] /\ mtime'[n] = mtime[n],
         \A s \in Threads : log'[s] \in {NoLog, log[s]},
         pc'[u] = pc[u], active'[u] = active[u], todo'[u] = todo[u],
         total'[u] = total[u]
  PROVE  Accounted(u)'
<1> USE DEF IInv, TypeOK
<1>1. Pruning(u)' => \A s \in Threads : log'[s] \in {NoLog, active'[u]}
  BY DEF Accounted, Pruning
<1>2. ASSUME pc'[u] = "prune" PROVE \E E \in SUBSET exists' : Covers(u, E)'
  <2>1. PICK E \in SUBSET exists : Covers(u, E)
    BY <1>2 DEF Accounted
  <2>2. ASSUME NEW n \in E PROVE rows'[n] = rows[n] /\ mtime'[n] = mtime[n]
    <3>1. n # NoLog /\ n # active[u]
      BY <2>1, NameFacts DEF FilesTyped, Covers
    <3>2. \A s \in Threads : log[s] # n
      BY <1>2, <3>1 DEF Accounted, Pruning
    <3> QED
      BY <3>2
  <2>3. Bytes(E)' = Bytes(E)
    <3>1. IsFiniteSet(E) /\ \A x \in E : rows[x] = rows'[x]
      BY <2>2, NamesFinite, FS_Subset DEF FilesTyped
    <3> QED
      BY <3>1, TotalSame, BytesTotal, BytesTotalNext
  <2>4. \A f \in todo'[u] :
          f.name \in E /\ f.at = mtime'[f.name] /\ f.size = Size(f.name)'
    BY <2>1, <2>2 DEF Covers, Size
  <2>5. exists' \ (E \cup {active'[u]}) \subseteq Imports
    BY <2>1 DEF Covers
  <2>6. ASSUME NEW m \in exists' \ (E \cup {active'[u]}), NEW k \in E
        PROVE  mtime'[k] <= mtime'[m]
    <3>1. mtime'[k] = mtime[k] /\ mtime[k] <= now
      BY <2>2 DEF TimesInv, FilesTyped
    <3>2. CASE m \notin exists
      BY <3>1, <3>2
    <3>3. CASE m \in exists
      <4>1. mtime[k] <= mtime[m]
        BY <2>1, <3>3 DEF Covers
      <4>2. m # NoLog /\ m # active[u]
        BY <3>3, NameFacts DEF FilesTyped
      <4>3. \A s \in Threads : log[s] # m
        BY <1>2, <4>2 DEF Accounted, Pruning
      <4>4. mtime'[m] = mtime[m]
        BY <3>3, <4>3
      <4> QED
        BY <3>1, <4>1, <4>4
    <3> QED
      BY <3>2, <3>3
  <2>7. \A n \in E : n \in Stuck \/ \E f \in todo'[u] : f.name = n
    BY <2>1 DEF Covers
  <2>8. total'[u] = Bytes(E)' /\ active'[u] \notin E
    BY <2>1, <2>3 DEF Covers
  <2>9. Covers(u, E)'
    BY <2>4, <2>5, <2>6, <2>7, <2>8, Zenon DEF Covers
  <2> QED
    BY <2>9
<1> QED
  BY <1>1, <1>2, Zenon DEF Accounted

(* A step of one thread that removes and starts no file.                     *)
LEMMA OthersKept ==
  ASSUME IInv, IInv', TimesInv, PruneInv, NEW s \in Threads, now' = now,
         exists' = exists,
         \A n \in exists : log[s] = n \/ (rows'[n] = rows[n] /\ mtime'[n] = mtime[n]),
         \A t \in Threads : log'[t] \in {NoLog, log[t]},
         \A t \in Threads \ {s} : /\ pc'[t] = pc[t] /\ active'[t] = active[t]
                                  /\ todo'[t] = todo[t] /\ total'[t] = total[t],
         disturbed \ {s} \subseteq disturbed'
  PROVE  \A u \in Threads \ {s} : u \notin disturbed' => Accounted(u)'
<1> SUFFICES ASSUME NEW u \in Threads \ {s}, u \notin disturbed' PROVE Accounted(u)'
  OBVIOUS
<1>1. Accounted(u)
  BY DEF PruneInv
<1>2. \A n \in exists : \/ \E t \in Threads : log[t] = n
                        \/ rows'[n] = rows[n] /\ mtime'[n] = mtime[n]
  OBVIOUS
<1>3. pc'[u] = pc[u] /\ active'[u] = active[u] /\ todo'[u] = todo[u] /\ total'[u] = total[u]
  OBVIOUS
<1> QED
  BY <1>1, <1>2, <1>3, AccountKept

(* A file was started, or written over: every thread that prunes knows.      *)
LEMMA AllDisturbed ==
  ASSUME Pruners \subseteq disturbed', \A u \in Threads : Pruning(u)' => Pruning(u)
  PROVE  PruneInv'
<1> SUFFICES ASSUME NEW u \in Threads, u \notin disturbed' PROVE Accounted(u)'
  BY DEF PruneInv
<1>1. ~Pruning(u)'
  BY DEF Pruners, Pruning
<1> QED
  BY <1>1 DEF Accounted, Pruning

(* The listing: it has every file but the active one, as it is now.          *)
LEMMA ListCovers ==
  ASSUME IInv, PruneInv, NEW t \in Threads, ListLogs(t), t \notin disturbed
  PROVE  Accounted(t)'
<1> USE DEF IInv, TypeOK
<1>0. PICK E \in SUBSET exists : E = exists \ {active[t]}
  OBVIOUS
<1>1. /\ todo'[t] = {Entry(n) : n \in E} /\ total'[t] = Bytes(E)
      /\ UNCHANGED <<exists, rows, mtime, active, log>> /\ pc'[t] = "prune" /\ pc[t] = "list"
  BY <1>0 DEF ListLogs, Candidates, PruneTyped, ThreadsTyped, files, directory,
     writers, Goto
<1>2. Bytes(E)' = Bytes(E)
  BY <1>1, BytesTotal, BytesTotalNext
<1>3. \A n \in E : /\ Entry(n).name = n /\ Entry(n).at = mtime[n]
                   /\ Entry(n).size = Size(n)
  BY DEF Entry
<1>4. \A u \in Threads : log[u] \in {NoLog, active[t]}
  BY <1>1 DEF PruneInv, Accounted, Pruning
<1>5. \A f \in todo'[t] :
       f.name \in E /\ f.at = mtime[f.name] /\ f.size = Size(f.name)
  BY <1>1, <1>3
<1>6. \A n \in E : \E f \in todo'[t] : f.name = n
  BY <1>1, <1>3
<1>7. active[t] \notin E /\ E \in SUBSET exists /\ exists = exists \cap (E \cup {active[t]})
  BY <1>0
<1>8. Covers(t, E)'
  BY <1>1, <1>2, <1>5, <1>6, <1>7 DEF Covers, Size
<1>9. E \in SUBSET exists'
  BY <1>1, <1>7
<1> QED
  BY <1>1, <1>4, <1>8, <1>9 DEF Accounted

(* What one round of prune_logs removes: a file of the list that is there,   *)
(* the oldest of them.                                                       *)
LEMMA RemoveStep ==
  ASSUME IInv, NEW t \in Threads, RemoveNext(t), NEW E \in SUBSET exists, Covers(t, E)
  PROVE  \E f \in todo[t] :
           /\ \A g \in todo[t] : f.at <= g.at
           /\ todo'[t] = todo[t] \ {f}
           /\ IF f.name \in Stuck
                THEN UNCHANGED <<exists, rows, mtime, total>>
                ELSE /\ exists' = exists \ {f.name}
                     /\ rows' = [rows EXCEPT ![f.name] = 0]
                     /\ mtime' = [mtime EXCEPT ![f.name] = 0]
                     /\ total'[t] = total[t] - f.size
<1> USE DEF IInv, TypeOK
<1>1. PICK f \in todo[t] :
        /\ \A g \in todo[t] : f.at <= g.at
        /\ todo' = [todo EXCEPT ![t] = @ \ {f}]
        /\ IF f.name \in exists \ Stuck
             THEN /\ exists' = exists \ {f.name}
                  /\ rows' = [rows EXCEPT ![f.name] = 0]
                  /\ mtime' = [mtime EXCEPT ![f.name] = 0]
                  /\ total' = [total EXCEPT ![t] = @ - f.size]
             ELSE UNCHANGED <<exists, rows, mtime, total>>
  BY DEF RemoveNext, Precedes, files, directory
<1>2. f.name \in exists
  BY DEF Covers
<1>3. todo'[t] = todo[t] \ {f}
  BY <1>1 DEF PruneTyped
<1>4. f.name \notin Stuck => total'[t] = total[t] - f.size
  BY <1>1, <1>2 DEF PruneTyped
<1> QED
  BY <1>1, <1>2, <1>3, <1>4

(* A round keeps the accounts. *)
LEMMA RemoveCovers ==
  ASSUME IInv, PruneInv, NEW t \in Threads, RemoveNext(t), t \notin disturbed
  PROVE  Accounted(t)'
<1> USE DEF IInv, TypeOK
<1>1. /\ pc[t] = "prune" /\ UNCHANGED <<pc, log, active>>
      /\ \A u \in Threads : log[u] \in {NoLog, active[t]}
  BY DEF RemoveNext, writers, PruneInv, Accounted, Pruning
<1>2. PICK E \in SUBSET exists : Covers(t, E)
  BY <1>1 DEF PruneInv, Accounted
<1>3. PICK f \in todo[t] :
           /\ \A g \in todo[t] : f.at <= g.at
           /\ todo'[t] = todo[t] \ {f}
           /\ IF f.name \in Stuck
                THEN UNCHANGED <<exists, rows, mtime, total>>
                ELSE /\ exists' = exists \ {f.name}
                     /\ rows' = [rows EXCEPT ![f.name] = 0]
                     /\ mtime' = [mtime EXCEPT ![f.name] = 0]
                     /\ total'[t] = total[t] - f.size
  BY <1>2, RemoveStep
<1> DEFINE x == f.name
<1>4. x \in E /\ x \in Names /\ f.size = Size(x)
  BY <1>2 DEF Covers, FilesTyped
<1>5. \A g \in todo[t] : g.name = x => g = f
  <2>1. ASSUME NEW g \in todo[t], g.name = x PROVE g = f
    <3>1. g.at = f.at /\ g.size = f.size
      BY <1>2, <2>1 DEF Covers
    <3>2. g \in Entries /\ f \in Entries
      BY DEF PruneTyped
    <3> QED
      BY <2>1, <3>1, <3>2 DEF Entries
  <2> QED
    BY <2>1
<1> HIDE DEF x
<1>6. CASE x \in Stuck
  <2>1. UNCHANGED <<exists, rows, mtime, total>>
    BY <1>3, <1>6 DEF x
  <2>2. Bytes(E)' = Bytes(E)
    BY <2>1, BytesTotal, BytesTotalNext
  <2>3. \A n \in E : n \in Stuck \/ \E g \in todo'[t] : g.name = n
    BY <1>2, <1>3, <1>6 DEF Covers, x
  <2>4. \A g \in todo'[t] :
          g.name \in E /\ g.at = mtime'[g.name] /\ g.size = Size(g.name)'
    BY <1>2, <1>3, <2>1 DEF Covers, Size
  <2>5. Covers(t, E)'
    BY <1>1, <1>2, <2>1, <2>2, <2>3, <2>4 DEF Covers
  <2>6. E \in SUBSET exists'
    BY <2>1
  <2> QED
    BY <1>1, <2>5, <2>6, Zenon DEF Accounted
<1>7. CASE x \notin Stuck
  <2> DEFINE D == E \ {x}
  <2>1. /\ exists' = exists \ {x} /\ rows' = [rows EXCEPT ![x] = 0]
        /\ mtime' = [mtime EXCEPT ![x] = 0] /\ total'[t] = total[t] - f.size
    BY <1>3, <1>7 DEF x
  <2>2. \A m \in exists \ {x} : rows'[m] = rows[m] /\ mtime'[m] = mtime[m]
    BY <1>4, <2>1 DEF FilesTyped
  <2>3. total'[t] = Bytes(D)'
    <3>1. E \in SUBSET Names /\ D \in SUBSET Names
      BY DEF FilesTyped
    <3>2. Bytes(E) = Size(x) + Bytes(D) /\ Bytes(D) \in Nat /\ Size(x) \in Nat
      BY <1>4, <3>1, BytesFacts DEF Size, FilesTyped
    <3>3. IsFiniteSet(D) /\ \A y \in D : rows[y] = rows'[y]
      BY <2>2, <3>1, NamesFinite, FS_Subset
    <3>4. Bytes(D)' = Bytes(D)
      BY <3>3, TotalSame, BytesTotal, BytesTotalNext
    <3>5. total[t] = Bytes(E)
      BY <1>2 DEF Covers
    <3> HIDE DEF D
    <3> QED
      BY <1>4, <2>1, <3>2, <3>4, <3>5
  <2>4. \A n \in D : n \in Stuck \/ \E g \in todo'[t] : g.name = n
    BY <1>2, <1>3 DEF Covers, x
  <2>5. \A g \in todo'[t] :
          g.name \in D /\ g.at = mtime'[g.name] /\ g.size = Size(g.name)'
    BY <1>2, <1>3, <1>5, <2>2 DEF Covers, Size
  <2>6. exists' \ (D \cup {active'[t]}) \subseteq Imports /\ active'[t] \notin D
    BY <1>1, <1>2, <2>1 DEF Covers
  <2>7. \A m \in exists' \ (D \cup {active'[t]}), n \in D : mtime'[n] <= mtime'[m]
    BY <1>1, <1>2, <2>1, <2>2 DEF Covers
  <2>8. D \in SUBSET exists'
    BY <2>1
  <2>9. Covers(t, D)'
    BY <2>3, <2>4, <2>5, <2>6, <2>7 DEF Covers
  <2> QED
    BY <1>1, <2>8, <2>9, Zenon DEF Accounted
<1> QED
  BY <1>6, <1>7

(* Nothing prune_logs looks at changes.                                      *)
LEMMA PruneStill ==
  ASSUME PruneInv,
         UNCHANGED <<exists, rows, mtime, disturbed, pc, log, active, todo, total>>
  PROVE  PruneInv'
<1>1. \A S : Bytes(S)' = Bytes(S)
  BY BytesTotal, BytesTotalNext
<1>2. \A t, E : Covers(t, E) => Covers(t, E)'
  BY <1>1, Zenon DEF Covers, Size
<1>3. \A t \in Threads : Accounted(t) => Accounted(t)'
  BY <1>2 DEF Accounted, Pruning
<1> QED
  BY <1>3 DEF PruneInv

(* A step of one thread: the accounts of the others hold, and its own.       *)
LEMMA ThreadKept ==
  ASSUME IInv, IInv', TimesInv, PruneInv, NEW s \in Threads, now' = now,
         exists' = exists,
         \A n \in exists : log[s] = n \/ (rows'[n] = rows[n] /\ mtime'[n] = mtime[n]),
         \A t \in Threads : log'[t] \in {NoLog, log[t]},
         \A t \in Threads \ {s} : /\ pc'[t] = pc[t] /\ active'[t] = active[t]
                                  /\ todo'[t] = todo[t] /\ total'[t] = total[t],
         disturbed \ {s} \subseteq disturbed',
         s \notin disturbed' => Accounted(s)'
  PROVE  PruneInv'
<1>1. \A u \in Threads \ {s} : u \notin disturbed' => Accounted(u)'
  BY OthersKept
<1>2. \A u \in Threads : u \notin disturbed' => Accounted(u)'
  BY <1>1
<1> QED
  BY <1>2 DEF PruneInv

(* A step of a thread that does not prune and leaves the files alone.        *)
LEMMA PruneQuiet ==
  ASSUME IInv, IInv', TimesInv, PruneInv, NEW s \in Threads, now' = now,
         UNCHANGED <<exists, rows, mtime, disturbed, active, todo, total>>,
         \A t \in Threads : log'[t] \in {NoLog, log[t]},
         NEW p \in Places \ {"list", "prune"}, pc' = [pc EXCEPT ![s] = p]
  PROVE  PruneInv'
<1>1. pc'[s] = p /\ \A t \in Threads \ {s} : pc'[t] = pc[t]
  BY DEF IInv, TypeOK, ThreadsTyped
<1>2. Accounted(s)'
  BY <1>1 DEF Accounted, Pruning
<1> QED
  BY <1>1, <1>2, ThreadKept

(* finish_log is such a step.                                                *)
LEMMA PruneFinish ==
  ASSUME IInv, IInv', TimesInv, PruneInv, NEW s \in Threads, now' = now,
         UNCHANGED <<exists, rows, mtime, disturbed, active, todo, total>>,
         NEW next \in Nexts, FinishLog(s, next)
  PROVE  PruneInv'
<1>1. \A t \in Threads : log'[t] \in {NoLog, log[t]}
  BY DEF FinishLog, IInv, TypeOK, ThreadsTyped
<1>2. CASE log[s] = NoLog
  <2>1. (pc' = [pc EXCEPT ![s] = next] /\ next \in Places \ {"list", "prune"}) \/ next = "again"
    BY <1>2 DEF FinishLog, Goto, Nexts, Places, Working
  <2>2. CASE next = "again"
    <3>1. pc' = [pc EXCEPT ![s] = next]
      BY <1>2 DEF FinishLog, Goto
    <3>2. pc'[s] = "again" /\ \A t \in Threads \ {s} : pc'[t] = pc[t]
      BY <2>2, <3>1 DEF IInv, TypeOK, ThreadsTyped
    <3>3. Accounted(s)'
      BY <3>2 DEF Accounted, Pruning
    <3> QED
      BY <1>1, <3>2, <3>3, ThreadKept
  <2> QED
    BY <1>1, <2>1, <2>2, PruneQuiet
<1>3. CASE log[s] # NoLog
  <2>1. pc' = [pc EXCEPT ![s] = "sync"] /\ "sync" \in Places \ {"list", "prune"}
    BY <1>3 DEF FinishLog, Goto, Places
  <2> QED
    BY <1>1, <2>1, PruneQuiet
<1> QED
  BY <1>2, <1>3

(* What follows prune_logs. *)
LEMMA PruneResume ==
  ASSUME IInv, IInv', TimesInv, PruneInv, NEW s \in Threads, now' = now,
         UNCHANGED <<exists, rows, mtime, log>>, Resume(s)
  PROVE  PruneInv'
<1>1. /\ pc'[s] \in Nexts \cup {"active"}
      /\ \A t \in Threads \ {s} : /\ pc'[t] = pc[t] /\ active'[t] = active[t]
                                  /\ todo'[t] = todo[t] /\ total'[t] = total[t]
  BY DEF Resume, Goto, IInv, TypeOK, ThreadsTyped, PruneTyped
<1>2. Accounted(s)'
  BY <1>1 DEF Accounted, Pruning, Nexts
<1>3. disturbed \ {s} \subseteq disturbed'
  BY DEF Resume
<1> QED
  BY <1>1, <1>2, <1>3, ThreadKept

(* An import: a new file, and no older than any other; or every thread that  *)
(* prunes is disturbed.                                                      *)
LEMMA PruneImport ==
  ASSUME IInv, IInv', TimesInv, PruneInv, NEW r \in Importers, ImportWrites(r)
  PROVE  PruneInv'
<1> USE DEF IInv, TypeOK
<1> DEFINE n == importing[r]
<1>1. n \in Imports /\ n \in Names
  BY DEF ImportWrites, ImportsTyped, Names
<1>2. /\ exists' = exists \cup {n} /\ rows' = [rows EXCEPT ![n] = 1]
      /\ mtime' = [mtime EXCEPT ![n] = now]
      /\ disturbed' = disturbed \cup (IF n \in exists THEN Pruners ELSE {})
      /\ UNCHANGED <<now, pc, log, active, todo, total>>
  BY DEF ImportWrites, Disturb, clock, prune, writers
<1> HIDE DEF n
<1>3. CASE n \in exists
  BY <1>2, <1>3, AllDisturbed DEF Pruning
<1>4. CASE n \notin exists
  <2>1. \A m \in exists : rows'[m] = rows[m] /\ mtime'[m] = mtime[m]
    BY <1>1, <1>2, <1>4 DEF FilesTyped
  <2>2. \A m \in exists' \ exists : m \in Imports /\ mtime'[m] = now
    BY <1>1, <1>2 DEF FilesTyped
  <2>3. ASSUME NEW u \in Threads, u \notin disturbed' PROVE Accounted(u)'
    <3>1. Accounted(u)
      BY <1>2, <2>3 DEF PruneInv
    <3>2. exists \subseteq exists' /\ now' = now
          /\ \A s \in Threads : log'[s] \in {NoLog, log[s]}
      BY <1>2
    <3>3. pc'[u] = pc[u] /\ active'[u] = active[u] /\ todo'[u] = todo[u] /\ total'[u] = total[u]
      BY <1>2
    <3>4. \A m \in exists : \/ \E s \in Threads : log[s] = m
                            \/ rows'[m] = rows[m] /\ mtime'[m] = mtime[m]
      BY <2>1
    <3> QED
      BY <2>2, <3>1, <3>2, <3>3, <3>4, AccountKept
  <2> QED
    BY <2>3 DEF PruneInv
<1> QED
  BY <1>3, <1>4

(* start_log: every thread that prunes is disturbed, or nothing happened.    *)
LEMMA PruneStart ==
  ASSUME IInv, IInv', TimesInv, PruneInv, NEW s \in Threads, now' = now,
         NEW n, StartLog(s, n), UNCHANGED <<active, todo, total>>,
         NEW p \in Places \ {"list", "prune"}, pc' = [pc EXCEPT ![s] = p]
  PROVE  PruneInv'
<1>1. CASE Create(n)
  <2>1. Pruners \subseteq disturbed'
    BY <1>1 DEF Create, Disturb
  <2>2. pc'[s] = p /\ \A t \in Threads \ {s} : pc'[t] = pc[t]
    BY DEF IInv, TypeOK, ThreadsTyped
  <2>3. \A u \in Threads : Pruning(u)' => Pruning(u)
    BY <2>2 DEF Pruning
  <2> QED
    BY <2>1, <2>3, AllDisturbed
<1>2. CASE UNCHANGED files /\ UNCHANGED <<status, log, last_sync>>
  BY <1>2, PruneQuiet DEF files, directory
<1> QED
  BY <1>1, <1>2 DEF StartLog

(* One round of the loop: the accounts of the thread are kept, those of the  *)
(* others are disturbed if a file is gone.                                   *)
LEMMA PruneRemove ==
  ASSUME IInv, IInv', TimesInv, PruneInv, NEW s \in Threads, RemoveNext(s)
  PROVE  PruneInv'
<1> USE DEF IInv, TypeOK
<1>1. UNCHANGED <<now, pc, log, active>>
  BY DEF RemoveNext, clock, writers
<1>2. PICK f \in todo[s] :
        /\ todo' = [todo EXCEPT ![s] = @ \ {f}]
        /\ IF f.name \in exists \ Stuck
             THEN Disturb(Pruners \ {s}) /\ total' = [total EXCEPT ![s] = @ - f.size]
             ELSE UNCHANGED <<files, total>>
  BY DEF RemoveNext
<1>3. disturbed \subseteq disturbed'
  BY <1>2 DEF Disturb, files
<1>4. s \notin disturbed' => Accounted(s)'
  BY <1>3, RemoveCovers
<1>5. CASE f.name \in exists \ Stuck
  <2>1. Pruners \ {s} \subseteq disturbed'
    BY <1>2, <1>5 DEF Disturb
  <2>2. ASSUME NEW u \in Threads, u # s, u \notin disturbed' PROVE Accounted(u)'
    <3>1. ~Pruning(u)'
      BY <1>1, <2>1, <2>2 DEF Pruners, Pruning
    <3> QED
      BY <3>1 DEF Accounted, Pruning
  <2> QED
    BY <1>4, <2>2 DEF PruneInv
<1>6. CASE f.name \notin exists \ Stuck
  <2>1. UNCHANGED <<exists, rows, mtime, total>>
    BY <1>2, <1>6 DEF files, directory
  <2>2. \A t \in Threads \ {s} : /\ pc'[t] = pc[t] /\ active'[t] = active[t]
                                 /\ todo'[t] = todo[t] /\ total'[t] = total[t]
    BY <1>1, <1>2, <2>1 DEF PruneTyped
  <2> QED
    BY <1>1, <1>3, <1>4, <2>1, <2>2, ThreadKept
<1> QED
  BY <1>5, <1>6

(* The accounts hold at every step.                                          *)
LEMMA PruneNext ==
  ASSUME IInv, IInv', TimesInv, PruneInv, [Next]_vars
  PROVE  PruneInv'
<1> USE DEF IInv, TypeOK
<1>1. ASSUME UNCHANGED <<exists, rows, mtime, disturbed, pc, log, active, todo, total>>
      PROVE  PruneInv'
  BY <1>1, PruneStill
<1>2. ASSUME NEW t \in Threads, StartAsked(t) PROVE PruneInv'
  <2>1. pc' = [pc EXCEPT ![t] = "loop"] /\ "loop" \in Places \ {"list", "prune"}
    BY <1>2 DEF StartAsked, ThreadsTyped, Places, Working
  <2>2. now' = now /\ UNCHANGED <<active, todo, total>> /\ StartLog(t, asked[t])
    BY <1>2 DEF StartAsked, clock, prune
  <2> QED
    BY <2>1, <2>2, PruneStart
<1>3. ASSUME NEW t \in Threads, Frame(t) PROVE PruneInv'
  <2>1. pc' = [pc EXCEPT ![t] = "row"] /\ "row" \in Places \ {"list", "prune"}
    BY <1>3 DEF Frame, Goto, Places, Working
  <2>2. now' = now /\ UNCHANGED <<active, todo, total>>
    BY <1>3 DEF Frame, clock, prune
  <2>3. CASE StartLog(t, <<"log", now>>)
    BY <2>1, <2>2, <2>3, PruneStart
  <2>4. CASE UNCHANGED <<files, status, log, last_sync>>
    BY <2>1, <2>2, <2>4, PruneQuiet DEF files, directory
  <2> QED
    BY <1>3, <2>3, <2>4 DEF Frame
<1>4. ASSUME NEW t \in Threads, Row(t) PROVE PruneInv'
  <2>1. pc'[t] = "observe" /\ \A u \in Threads \ {t} : pc'[u] = pc[u]
    BY <1>4 DEF Row, Goto, ThreadsTyped
  <2>2. /\ UNCHANGED <<now, exists, log, active, todo, total, disturbed>>
        /\ \A n \in exists : log[t] = n \/ (rows'[n] = rows[n] /\ mtime'[n] = mtime[n])
    BY <1>4 DEF Row, Append, clock, prune, files, directory, FilesTyped
  <2>3. Accounted(t)'
    BY <2>1 DEF Accounted, Pruning
  <2> QED
    BY <2>1, <2>2, <2>3, ThreadKept
<1>5. ASSUME NEW t \in Threads,
             StopLog(t) \/ Shutdown(t) \/ RowFails(t) \/ EngineOff(t)
      PROVE  PruneInv'
  <2>1. UNCHANGED <<now, exists, rows, mtime, disturbed, active, todo, total>>
    BY <1>5 DEF StopLog, Shutdown, RowFails, EngineOff, EngineStopped, clock, files,
       directory, prune
  <2>2. PICK next \in Nexts \cup {"leave"} : FinishLog(t, next)
    BY <1>5 DEF StopLog, Shutdown, RowFails, EngineOff, EngineStopped, Nexts
  <2> QED
    BY <2>1, <2>2, PruneFinish DEF Nexts
<1>6. ASSUME NEW t \in Threads, DeviceLost(t) PROVE PruneInv'
  <2>1. UNCHANGED <<now, exists, rows, mtime, disturbed, active, todo, total>>
    BY <1>6 DEF DeviceLost, clock, files, directory, prune
  <2>2. CASE log[t] = NoLog
    <3>1. /\ pc' = [pc EXCEPT ![t] = "active"] /\ "active" \in Places \ {"list", "prune"}
          /\ UNCHANGED log
      BY <1>6, <2>2 DEF DeviceLost, Goto, Places
    <3> QED
      BY <2>1, <3>1, PruneQuiet
  <2>3. CASE log[t] # NoLog
    BY <1>6, <2>1, <2>3, PruneFinish DEF DeviceLost, Nexts
  <2> QED
    BY <2>2, <2>3
<1>7. ASSUME NEW t \in Threads,
             \/ Connect(t) \/ Poll(t) \/ NoFrame(t) \/ EngineRuns(t)
             \/ RequestPoweroff(t) \/ Leave(t) \/ Sync(t)
      PROVE  PruneInv'
  <2>1. UNCHANGED <<now, exists, rows, mtime, disturbed, active, todo, total, log>>
    BY <1>7 DEF Connect, Poll, NoFrame, EngineRuns, RequestPoweroff, Leave, Sync,
       clock, files, directory, prune, writers
  <2>2. PICK p \in {"loop", "poll", "gone", "active"} : pc' = [pc EXCEPT ![t] = p]
    BY <1>7 DEF Connect, Poll, NoFrame, EngineRuns, RequestPoweroff, Leave, Sync,
       Return, Goto
  <2>3. p \in Places \ {"list", "prune"}
    BY DEF Places, Working
  <2>4. \A u \in Threads : log'[u] \in {NoLog, log[u]}
    BY <2>1
  <2> QED
    BY <2>1, <2>2, <2>3, <2>4, PruneQuiet
<1>8. ASSUME NEW t \in Threads, ListFails(t) \/ Pruned(t) PROVE PruneInv'
  BY <1>8, PruneResume DEF ListFails, Pruned, clock, directory, writers
<1>9. ASSUME NEW t \in Threads, ReadActive(t) PROVE PruneInv'
  <2>1. UNCHANGED <<now, exists, rows, mtime, log>>
    BY <1>9 DEF ReadActive, clock, directory, writers
  <2>2. CASE Limit = 0
    BY <1>9, <2>1, <2>2, PruneResume DEF ReadActive
  <2>3. CASE Limit # 0
    <3>1. /\ active' = [active EXCEPT ![t] = slog] /\ pc' = [pc EXCEPT ![t] = "list"]
          /\ UNCHANGED <<todo, total>>
          /\ disturbed' = IF \A u \in Threads : log[u] \in {NoLog, slog}
                            THEN disturbed ELSE disturbed \cup {t}
      BY <1>9, <2>3 DEF ReadActive, Goto
    <3>2. /\ active'[t] = slog /\ pc'[t] = "list"
          /\ \A u \in Threads \ {t} : pc'[u] = pc[u] /\ active'[u] = active[u]
      BY <3>1 DEF ThreadsTyped, PruneTyped
    <3>3. t \notin disturbed' => Accounted(t)'
      BY <2>1, <3>1, <3>2 DEF Accounted, Pruning
    <3>4. disturbed \subseteq disturbed'
      BY <3>1
    <3> QED
      BY <2>1, <3>1, <3>2, <3>3, <3>4, ThreadKept
  <2> QED
    BY <2>2, <2>3
<1>10. ASSUME NEW t \in Threads, ListLogs(t) PROVE PruneInv'
  <2>1. UNCHANGED <<now, exists, rows, mtime, log, active, disturbed>>
    BY <1>10 DEF ListLogs, clock, files, directory, writers
  <2>2. \A u \in Threads \ {t} : pc'[u] = pc[u] /\ todo'[u] = todo[u] /\ total'[u] = total[u]
    BY <1>10 DEF ListLogs, Goto, ThreadsTyped, PruneTyped
  <2>3. t \notin disturbed' => Accounted(t)'
    BY <1>10, <2>1, ListCovers
  <2> QED
    BY <2>1, <2>2, <2>3, ThreadKept
<1>11. ASSUME NEW t \in Threads, RemoveNext(t) PROVE PruneInv'
  BY <1>11, PruneRemove
<1>12. ASSUME NEW t \in Threads, log_start(t) \/ disconnect(t) PROVE PruneInv'
  BY <1>1, <1>12 DEF log_start, disconnect, files, directory, prune, writers
<1>13. ASSUME NEW r \in Importers, ImportFinds(r) PROVE PruneInv'
  BY <1>1, <1>13 DEF ImportFinds, files, directory, prune, writers
<1>14. ASSUME NEW r \in Importers, ImportWrites(r) PROVE PruneInv'
  BY <1>14, PruneImport
<1>15. ASSUME Tick \/ UNCHANGED vars PROVE PruneInv'
  BY <1>1, <1>15 DEF Tick, vars, files, directory, prune, writers
<1> QED
  BY <1>2, <1>3, <1>4, <1>5, <1>6, <1>7, <1>8, <1>9, <1>10, <1>11, <1>12, <1>13,
     <1>14,
     <1>15 DEF Next, ThreadStep

(* Only prune_logs removes files. *)
LEMMA OnlyPruneRemoves ==
  ASSUME [Next]_vars, exists \ exists' # {}
  PROVE  \E t \in Threads : RemoveNext(t)
<1> SUFFICES ASSUME \A t \in Threads : ~RemoveNext(t) PROVE exists \subseteq exists'
  OBVIOUS
<1>1. ASSUME UNCHANGED exists PROVE exists \subseteq exists'
  BY <1>1
<1>2. ASSUME NEW t, NEW n, StartLog(t, n) PROVE exists \subseteq exists'
  BY <1>2 DEF StartLog, Create, files, directory
<1>3. ASSUME NEW t \in Threads, StartAsked(t) \/ Frame(t) \/ Row(t)
      PROVE  exists \subseteq exists'
  BY <1>2, <1>3 DEF StartAsked, Frame, Row, Append, files, directory
<1>4. ASSUME NEW t \in Threads,
             \/ Connect(t) \/ StopLog(t) \/ Shutdown(t) \/ Poll(t) \/ NoFrame(t)
             \/ RowFails(t) \/ EngineRuns(t) \/ EngineOff(t) \/ RequestPoweroff(t)
             \/ DeviceLost(t) \/ Leave(t) \/ Sync(t) \/ ReadActive(t) \/ ListLogs(t)
             \/ ListFails(t) \/ Pruned(t) \/ log_start(t) \/ disconnect(t)
      PROVE  exists \subseteq exists'
  BY <1>1, <1>4 DEF Connect, StopLog, Shutdown, Poll, NoFrame, RowFails, EngineRuns,
     EngineOff, RequestPoweroff, DeviceLost, Leave, Sync, ReadActive, ListLogs,
     ListFails, Pruned, log_start, disconnect, files, directory
<1>5. ASSUME NEW r \in Importers, ImportFinds(r) \/ ImportWrites(r)
      PROVE  exists \subseteq exists'
  BY <1>5 DEF ImportFinds, ImportWrites, files, directory
<1>6. ASSUME Tick \/ UNCHANGED vars PROVE exists \subseteq exists'
  BY <1>1, <1>6 DEF Tick, vars, files, directory
<1> QED
  BY <1>3, <1>4, <1>5, <1>6 DEF Next, ThreadStep

(* Pruning ends in one way. *)
LEMMA OnlyPrunedEnds ==
  ASSUME IInv, [Next]_vars, NEW t \in Threads,
         pc[t] = "prune", pc'[t] # "prune"
  PROVE  Pruned(t)
<1>1. ASSUME UNCHANGED pc PROVE FALSE
  BY <1>1
<1>2. ~Connect(t) /\ ~log_start(t) /\ ~disconnect(t)
  BY <1>1 DEF Connect, log_start, disconnect
<1>3. /\ ~StartAsked(t) /\ ~StopLog(t) /\ ~Shutdown(t) /\ ~Poll(t) /\ ~NoFrame(t)
      /\ ~Frame(t) /\ ~Row(t) /\ ~RowFails(t) /\ ~EngineRuns(t) /\ ~EngineOff(t)
      /\ ~RequestPoweroff(t) /\ ~DeviceLost(t) /\ ~Leave(t) /\ ~Sync(t)
      /\ ~ReadActive(t) /\ ~ListLogs(t) /\ ~ListFails(t)
  BY DEF StartAsked, StopLog, Shutdown, Poll, NoFrame, Frame, Row, RowFails,
     EngineRuns, EngineOff, RequestPoweroff, DeviceLost, Leave, Sync, ReadActive,
     ListLogs, ListFails
<1>4. ~RemoveNext(t)
  BY <1>1 DEF RemoveNext
<1>5. ~Tick /\ ~UNCHANGED vars /\ \A r \in Importers : ~ImportFinds(r) /\ ~ImportWrites(r)
  BY <1>1 DEF Tick, vars, ImportFinds, ImportWrites
<1>6. PICK u \in Threads : Connect(u) \/ ThreadStep(u) \/ log_start(u) \/ disconnect(u)
  BY <1>5, Zenon DEF Next
<1>7. u = t
  <2> SUFFICES ASSUME u # t PROVE FALSE
    OBVIOUS
  <2>1. \A p : pc' # [pc EXCEPT ![u] = p]
    BY DEF IInv, TypeOK, ThreadsTyped
  <2>2. \A n : ~FinishLog(u, n)
    BY <2>1 DEF FinishLog, Goto
  <2>3. ~Resume(u)
    BY <2>1 DEF Resume, Goto
  <2>4. /\ ~StartAsked(u) /\ ~Poll(u) /\ ~NoFrame(u) /\ ~Frame(u) /\ ~Row(u)
        /\ ~EngineRuns(u) /\ ~RequestPoweroff(u) /\ ~Leave(u) /\ ~Sync(u) /\ ~ListLogs(u)
        /\ ~Connect(u) /\ ~log_start(u) /\ ~disconnect(u) /\ ~RemoveNext(u)
    BY <1>1, <2>1 DEF StartAsked, Poll, NoFrame, Frame, Row, EngineRuns,
       RequestPoweroff, Leave, Return, Sync, ListLogs, Connect, log_start, disconnect,
       RemoveNext, Goto
  <2>5. /\ ~StopLog(u) /\ ~Shutdown(u) /\ ~RowFails(u) /\ ~EngineOff(u)
        /\ ~DeviceLost(u)
    BY <2>1, <2>2 DEF StopLog, Shutdown, RowFails, EngineOff, EngineStopped,
       DeviceLost, Goto
  <2>6. ~ListFails(u) /\ ~Pruned(u) /\ ~ReadActive(u)
    BY <2>1, <2>3 DEF ListFails, Pruned, ReadActive, Goto
  <2> QED
    BY <1>6, <2>4, <2>5, <2>6, Zenon DEF ThreadStep
<1> QED
  BY <1>2, <1>3, <1>4, <1>6, <1>7, Zenon DEF ThreadStep

(* What a step may remove, and where pruning may end. *)
LEMMA RetentionStep ==
  ASSUME IInv, PruneInv, [Next]_vars
  PROVE  /\ \A n \in exists \ exists' : \E t \in Threads :
              /\ pc[t] = "prune" /\ todo'[t] # todo[t]
              /\ t \in disturbed \/ Oldest(t, n)
         /\ \A t \in Threads \ disturbed :
              pc[t] = "prune" /\ pc'[t] # "prune" => Within(t)
<1> USE DEF IInv, TypeOK
<1>0. Limit \in Nat /\ exists \in SUBSET Names /\ mtime \in [Names -> Nat]
  BY LimitAssumption DEF FilesTyped
<1>1. ASSUME NEW n \in exists \ exists'
      PROVE  \E t \in Threads : /\ pc[t] = "prune" /\ todo'[t] # todo[t]
                                /\ t \in disturbed \/ Oldest(t, n)
  <2>1. PICK t \in Threads : RemoveNext(t)
    BY <1>1, OnlyPruneRemoves
  <2>2. pc[t] = "prune" /\ ~(total[t] <= Limit) /\ todo'[t] # todo[t]
    BY <2>1 DEF RemoveNext, Enough, PruneTyped
  <2>3. ASSUME t \notin disturbed PROVE Oldest(t, n)
    <3>1. PICK E \in SUBSET exists : Covers(t, E)
      BY <2>2, <2>3 DEF PruneInv, Accounted
    <3>2. Bytes(Counted(t)) > Limit
      <4>1. E \subseteq Counted(t) /\ Counted(t) \in SUBSET Names
        BY <1>0, <3>1 DEF Counted, Covers
      <4>2. /\ Bytes(E) <= Bytes(Counted(t)) /\ Bytes(E) \in Nat
            /\ Bytes(Counted(t)) \in Nat
        BY <4>1, BytesFacts
      <4>3. ~(Bytes(E) <= Limit)
        BY <2>2, <3>1 DEF Covers
      <4> QED
        BY <1>0, <4>2, <4>3
    <3>3. PICK f \in todo[t] : f.name = n /\ \A g \in todo[t] : f.at <= g.at
      <4>1. PICK f \in todo[t] :
             /\ \A g \in todo[t] : f.at <= g.at
             /\ IF f.name \in Stuck THEN exists' = exists ELSE exists' = exists \ {f.name}
        BY <2>1, <3>1, RemoveStep
      <4> QED
        BY <4>1
    <3>4. n \in E /\ f.at = mtime[n]
      BY <3>1, <3>3 DEF Covers
    <3>5. ASSUME NEW m \in Counted(t), mtime[m] < mtime[n], m \notin Stuck PROVE FALSE
      <4>1. mtime[m] \in Nat /\ mtime[n] \in Nat /\ m \in exists /\ m # active[t]
        BY <1>0 DEF Counted
      <4>2. CASE m \notin E
        <5>1. mtime[n] <= mtime[m]
          BY <3>1, <3>4, <4>1, <4>2 DEF Covers
        <5> QED
          BY <3>5, <4>1, <5>1
      <4>3. CASE m \in E
        <5>1. PICK g \in todo[t] : g.name = m /\ g.at = mtime[m]
          BY <3>1, <3>5, <4>3 DEF Covers
        <5>2. mtime[n] <= mtime[m]
          BY <3>3, <3>4, <5>1
        <5> QED
          BY <3>5, <4>1, <5>2
      <4> QED
        BY <4>2, <4>3
    <3>6. \A u \in Threads : log[u] # n
      <4>1. \A u \in Threads : log[u] \in {NoLog, active[t]}
        BY <2>2, <2>3 DEF PruneInv, Accounted, Pruning
      <4>2. n # NoLog /\ n # active[t]
        BY <1>0, <3>1, <3>4, NameFacts DEF Covers
      <4> QED
        BY <4>1, <4>2
    <3> QED
      BY <3>2, <3>5, <3>6 DEF Oldest
  <2> QED
    BY <2>2, <2>3
<1>2. ASSUME NEW t \in Threads \ disturbed, pc[t] = "prune", pc'[t] # "prune"
      PROVE  Within(t)
  <2> DEFINE kept == Counted(t) \cap Logs
  <2>1. Enough(total[t]) \/ todo[t] = {}
    BY <1>2, OnlyPrunedEnds DEF Pruned
  <2>2. PICK E \in SUBSET exists : Covers(t, E)
    BY <1>2 DEF PruneInv, Accounted
  <2>3. kept \subseteq E
    BY <2>2, NameFacts DEF Covers, Counted
  <2> HIDE DEF kept
  <2>4. CASE todo[t] = {}
    <3>1. kept \subseteq Stuck
      BY <2>2, <2>3, <2>4 DEF Covers
    <3> QED
      BY <3>1 DEF Within, kept
  <2>5. CASE Enough(total[t])
    <3>1. Bytes(E) <= Limit
      BY <2>2, <2>5 DEF Covers, Enough
    <3>2. E \in SUBSET Names /\ kept \in SUBSET E /\ kept \in SUBSET Names
      BY <1>0, <2>3
    <3>3. Bytes(kept) <= Bytes(E) /\ Bytes(E) \in Nat /\ Bytes(kept) \in Nat
      BY <3>2, BytesFacts
    <3>4. Bytes(kept) <= Limit
      BY <1>0, <3>1, <3>3
    <3> QED
      BY <3>4 DEF Within, kept
  <2> QED
    BY <2>1, <2>4, <2>5
<1> QED
  BY <1>1, <1>2

(* However many threads and imports there are, prune_logs removes the oldest *)
(* file that can be removed and that no thread writes, only while the files  *)
(* it counts are over the limit, and ends within it or with nothing left to  *)
(* remove, for any limit and any number of files, unless another thread or   *)
(* an import changed those files, or the status hid an open log from it.     *)
THEOREM RetentionKeptHolds == Spec => RetentionKept
<1> DEFINE Accounts == TimesInv /\ PruneInv
<1>1. Init => Accounts
  BY DEF Init, TimesInv, PruneInv, Accounted, Pruning
<1>2. IInv /\ IInv' /\ Accounts /\ [Next]_vars => Accounts'
  BY TimesNext, PruneNext
<1>3. IInv /\ Accounts /\ [Next]_vars =>
        [/\ \A n \in exists \ exists' : \E t \in Threads :
              /\ pc[t] = "prune" /\ todo'[t] # todo[t]
              /\ t \in disturbed \/ Oldest(t, n)
         /\ \A t \in Threads \ disturbed :
              pc[t] = "prune" /\ pc'[t] # "prune" => Within(t)]_vars
  BY RetentionStep
<1> HIDE DEF Accounts
<1> QED
  BY <1>1, <1>2, <1>3, Inductive, PTL DEF Spec, RetentionKept
=============================================================================
