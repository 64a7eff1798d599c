---------------------------- MODULE FormatProofs ----------------------------
(***************************************************************************)
(* What the program reads and writes as text means what its author meant:  *)
(* the branches of an INI file (Preprocess), the command templates in it   *)
(* (Commands) and the .msq files of a tune (Msq).                          *)
(***************************************************************************)
EXTENDS Preprocess, Commands, Msq, Integers, SequenceTheorems, WellFoundedInduction, TLAPS

(* Preprocess: preprocess, which looks at one line at a time and keeps a    *)
(* stack, finds the lines that the nesting of the whole file selects.       *)

(* A nonempty set of naturals has a least element. *)
LEMMA LeastNat ==
  ASSUME NEW T \in SUBSET Nat, T # {}
  PROVE  \E x \in T : \A y \in T : x <= y
<1>1. IsWellFoundedOn(OpToRel(<, Nat), Nat)
  BY NatLessThanWellFounded
<1>2. PICK x \in T : \A y \in T : ~ (<<y, x>> \in OpToRel(<, Nat))
  BY <1>1, WFMin
<1>3. \A y \in T : ~(y < x)
  BY <1>2 DEF OpToRel
<1> QED
  BY <1>3

-----------------------------------------------------------------------------
(* The recursive functions of the specification, of a file s.                *)

DepthSolves(f, s) ==
  f = [k \in 0 .. MaxLines |->
         IF k = 0 THEN 0
         ELSE IF k > Len(s) THEN 0
         ELSE f[k - 1] + (IF s[k].word = "if" THEN 1 ELSE 0)
                - (IF s[k].word = "endif" THEN 1 ELSE 0)]
Around(D, s, k) ==
  {i \in 1 .. k - 1 : s[i].word = "if" /\ \A j \in i .. k - 1 : D[j] >= D[i]}
Marks(D, s, i, k) ==
  {i} \cup {j \in i + 1 .. k - 1 :
             /\ s[j].word \in {"elif", "else"} /\ D[j] = D[i]
             /\ \A m \in i .. j : D[m] >= D[i]}
Met(s, h, syms) == s[h].word = "else" \/ Holds(syms, s[h])
Chosen(f, D, s, i, k) ==
  LET h == Latest(Marks(D, s, i, k))
  IN /\ Met(s, h, f[h].symbols)
     /\ \A g \in Marks(D, s, i, k) \ {h} : ~Met(s, g, f[g].symbols)
Before(f, s, st, k) ==
  IF k = 1 THEN st
  ELSE LET p == f[k - 1]
       IN CASE p.shown /\ s[k - 1].word = "set"   -> p.symbols \cup {s[k - 1].name}
            [] p.shown /\ s[k - 1].word = "unset" -> p.symbols \ {s[k - 1].name}
            [] OTHER -> p.symbols
SeenSolves(f, D, s, st) ==
  f = [k \in 1 .. MaxLines + 1 |->
         [symbols |-> Before(f, s, st, k),
          shown |-> \A i \in Around(D, s, k) : Chosen(f, D, s, i, k)]]

(* Depth is a solution of its equation, now and after a step. *)
LEMMA DepthIs == Depth = CHOOSE f : DepthSolves(f, src)
  BY DEF Depth, DepthSolves, Word
(* A step extends the solution of the depths. *)
LEMMA DepthIsNext == Depth' = CHOOSE f : DepthSolves(f, src')
  BY DEF Depth, DepthSolves, Word

(* Seen is a solution of its equation, now and after a step. *)
LEMMA SeenIs == Seen = CHOOSE f : SeenSolves(f, Depth, src, start)
  BY DEF Seen, SeenSolves, Word, Blocks, Heads, Around, Marks, Met, Meets, Chosen, Before
(* A step extends the solution of what is seen. *)
LEMMA SeenIsNext == Seen' = CHOOSE f : SeenSolves(f, Depth', src', start')
  BY DEF Seen, SeenSolves, Word, Blocks, Heads, Around, Marks, Met, Meets, Chosen, Before

(* The depth of line k depends on the lines up to k only. *)
DepthBody(f, s, k) ==
  IF k = 0 THEN 0
  ELSE IF k > Len(s) THEN 0
  ELSE f[k - 1] + (IF s[k].word = "if" THEN 1 ELSE 0)
         - (IF s[k].word = "endif" THEN 1 ELSE 0)

(* The equation of the depths has a solution, whatever the file.             *)
LEMMA DepthExists == \A s : \E f : DepthSolves(f, s)
<1> SUFFICES ASSUME NEW s PROVE \E f : DepthSolves(f, s)
  OBVIOUS
<1> DEFINE Level(f, n) == f = [k \in 0 .. n |-> DepthBody(f, s, k)]
           T == {n \in Nat : ~\E f : Level(f, n)}
<1>1. T = {}
  <2> SUFFICES ASSUME T # {} PROVE FALSE
    OBVIOUS
  <2>1. PICK n \in T : \A y \in T : n <= y
    <3>1. T \in SUBSET Nat
      OBVIOUS
    <3> HIDE DEF T
    <3> QED
      BY <3>1, LeastNat
  <2>2. n # 0
    <3> SUFFICES ASSUME n = 0 PROVE FALSE
      OBVIOUS
    <3> DEFINE f == [k \in 0 .. 0 |-> 0]
    <3>1. f = [k \in 0 .. 0 |-> DepthBody(f, s, k)]
      BY DEF DepthBody
    <3> QED
      BY <3>1
  <2>3. PICK f : Level(f, n - 1)
    BY <2>1, <2>2
  <2> DEFINE g == [k \in 0 .. n |-> DepthBody(f, s, k)]
  <2>4. ASSUME NEW k \in 0 .. n - 1 PROVE f[k] = g[k]
    <3>1. k \in 0 .. n
      BY <2>1
    <3>2. f[k] = DepthBody(f, s, k)
      BY <2>3
    <3> QED
      BY <3>1, <3>2
  <2>5. ASSUME NEW k \in 0 .. n PROVE DepthBody(f, s, k) = DepthBody(g, s, k)
    <3>1. CASE k = 0
      BY <3>1 DEF DepthBody
    <3>2. CASE k # 0
      <4>1. k - 1 \in 0 .. n - 1
        BY <2>1, <3>2
      <4>2. f[k - 1] = g[k - 1]
        BY <2>4, <4>1
      <4> HIDE DEF g
      <4> QED
        BY <4>2 DEF DepthBody
    <3> QED
      BY <3>1, <3>2
  <2>6. g = [k \in 0 .. n |-> DepthBody(g, s, k)]
    <3>1. \A k \in 0 .. n : g[k] = DepthBody(g, s, k)
      BY <2>5
    <3>2. g = [k \in 0 .. n |-> g[k]]
      OBVIOUS
    <3> HIDE DEF g
    <3> QED
      BY <3>1, <3>2
  <2>7. Level(g, n)
    BY <2>6
  <2> QED
    BY <2>7
<1>2. PICK f : Level(f, MaxLines)
  BY <1>1, PrepAssumption
<1> QED
  BY <1>2 DEF DepthSolves, DepthBody

(* A solution counts #if against #endif, line by line (the length of stack). *)
LEMMA DepthFacts ==
  ASSUME NEW f, NEW s, DepthSolves(f, s), Len(s) <= MaxLines, Len(s) \in Nat
  PROVE  /\ f[0] = 0
         /\ \A k \in 1 .. Len(s) :
              f[k] = f[k - 1] + (IF s[k].word = "if" THEN 1 ELSE 0)
                       - (IF s[k].word = "endif" THEN 1 ELSE 0)
         /\ \A k \in 0 .. Len(s) : f[k] \in Int
<1>1. f[0] = 0
  BY PrepAssumption DEF DepthSolves
<1>2. ASSUME NEW k \in 1 .. Len(s)
      PROVE  f[k] = f[k - 1] + (IF s[k].word = "if" THEN 1 ELSE 0)
                       - (IF s[k].word = "endif" THEN 1 ELSE 0)
  <2>1. k \in 0 .. MaxLines /\ k # 0 /\ ~(k > Len(s))
    BY PrepAssumption
  <2> QED
    BY <2>1 DEF DepthSolves
<1>3. \A k \in 0 .. Len(s) : f[k] \in Int
  <2> DEFINE T == {k \in Nat : k <= Len(s) /\ f[k] \notin Int}
  <2> SUFFICES ASSUME T # {} PROVE FALSE
    OBVIOUS
  <2>1. PICK k \in T : \A y \in T : k <= y
    <3>1. T \in SUBSET Nat
      OBVIOUS
    <3> HIDE DEF T
    <3> QED
      BY <3>1, LeastNat
  <2>2. k # 0
    BY <1>1
  <2>3. k - 1 \in Nat /\ k - 1 <= Len(s) /\ f[k - 1] \in Int
    BY <2>1, <2>2
  <2>4. k \in 1 .. Len(s)
    BY <2>2
  <2>5. f[k] \in Int
    BY <1>2, <2>3, <2>4
  <2> QED
    BY <2>5
<1> QED
  BY <1>1, <1>2, <1>3

(* t begins as s does, up to line n. *)
Agree(s, t, n) ==
  /\ Len(s) \in Nat /\ Len(t) \in Nat /\ n \in Nat
  /\ n <= Len(s) /\ n <= Len(t) /\ \A k \in 1 .. n : s[k] = t[k]

(* Files that begin alike have the same depths there. *)
LEMMA DepthAgrees ==
  ASSUME NEW f, NEW g, NEW s, NEW t, NEW n, Agree(s, t, n),
         Len(s) <= MaxLines, Len(t) <= MaxLines, DepthSolves(f, s), DepthSolves(g, t)
  PROVE  \A k \in 0 .. n : f[k] = g[k]
<1> USE DEF Agree
<1> DEFINE T == {k \in Nat : k <= n /\ f[k] # g[k]}
<1> SUFFICES ASSUME T # {} PROVE FALSE
  OBVIOUS
<1>1. PICK k \in T : \A y \in T : k <= y
  <2>1. T \in SUBSET Nat
    OBVIOUS
  <2> HIDE DEF T
  <2> QED
    BY <2>1, LeastNat
<1>2. k # 0
  BY DepthFacts
<1>3. f[k - 1] = g[k - 1]
  BY <1>1, <1>2
<1>4. k \in 1 .. Len(s) /\ k \in 1 .. Len(t) /\ s[k] = t[k]
  BY <1>2
<1>5. f[k] = f[k - 1] + (IF s[k].word = "if" THEN 1 ELSE 0)
                      - (IF s[k].word = "endif" THEN 1 ELSE 0)
  BY <1>4, DepthFacts
<1>6. g[k] = g[k - 1] + (IF t[k].word = "if" THEN 1 ELSE 0)
                      - (IF t[k].word = "endif" THEN 1 ELSE 0)
  BY <1>4, DepthFacts
<1>7. f[k] = g[k]
  BY <1>3, <1>4, <1>5, <1>6
<1> QED
  BY <1>7

-----------------------------------------------------------------------------
(* Heads. *)

(* The latest line of a nonempty set of lines. *)
LEMMA LatestFacts ==
  ASSUME NEW k \in Nat, NEW S \in SUBSET (1 .. k), S # {}
  PROVE  Latest(S) \in S /\ \A m \in S : m <= Latest(S)
<1> DEFINE T == {n \in Nat : \A m \in S : m <= n}
<1>1. k \in T
  OBVIOUS
<1>2. PICK n \in T : \A y \in T : n <= y
  <2>1. T \in SUBSET Nat
    OBVIOUS
  <2> HIDE DEF T
  <2> QED
    BY <1>1, <2>1, LeastNat
<1>3. n \in S
  <2> SUFFICES ASSUME n \notin S PROVE FALSE
    OBVIOUS
  <2>1. \A m \in S : m \in Nat /\ m <= n /\ m # n /\ 1 <= m
    OBVIOUS
  <2>2. n - 1 \in Nat
    <3>1. PICK m \in S : TRUE
      OBVIOUS
    <3>2. n \in Nat /\ m \in Nat /\ 1 <= m /\ m <= n
      BY <2>1, <3>1
    <3> QED
      BY <3>2
  <2>3. n - 1 \in T
    BY <2>1, <2>2
  <2> QED
    BY <1>2, <2>2, <2>3
<1>4. \E j \in S : \A m \in S : m <= j
  BY <1>3
<1> QED
  BY <1>4 DEF Latest

(* A block has a head, its #if if no other, and a latest one. *)
LEMMA MarksFacts ==
  ASSUME NEW D, NEW s, NEW k \in Nat, NEW i \in 1 .. k - 1
  PROVE  /\ Marks(D, s, i, k) \in SUBSET (1 .. k - 1)
         /\ i \in Marks(D, s, i, k)
         /\ Latest(Marks(D, s, i, k)) \in Marks(D, s, i, k)
         /\ \A m \in Marks(D, s, i, k) : m <= Latest(Marks(D, s, i, k))
<1>1. Marks(D, s, i, k) \in SUBSET (1 .. k - 1) /\ i \in Marks(D, s, i, k)
  BY DEF Marks
<1>2. k - 1 \in Nat
  OBVIOUS
<1> QED
  BY <1>1, <1>2, LatestFacts

(* Two files, their depths and what is seen of them, the same before line k. *)
SameBefore(f, g, D, E, s, t, k) ==
  /\ k \in Nat \ {0}
  /\ \A j \in 0 .. k - 1 : D[j] = E[j]
  /\ \A j \in 1 .. k - 1 : s[j] = t[j] /\ f[j] = g[j]

(* What is said of line k depends on the lines before it. *)
LEMMA LineAgrees ==
  ASSUME NEW f, NEW g, NEW D, NEW E, NEW s, NEW t, NEW k,
         SameBefore(f, g, D, E, s, t, k)
  PROVE  /\ Around(D, s, k) = Around(E, t, k)
         /\ \A i \in 1 .. k - 1 : Marks(D, s, i, k) = Marks(E, t, i, k)
         /\ \A i \in 1 .. k - 1 : (Chosen(f, D, s, i, k) <=> Chosen(g, E, t, i, k))
<1> USE DEF SameBefore
<1>1. Around(D, s, k) = Around(E, t, k)
  <2>1. ASSUME NEW i \in 1 .. k - 1
        PROVE  (\A j \in i .. k - 1 : D[j] >= D[i]) <=> (\A j \in i .. k - 1 : E[j] >= E[i])
    <3>1. \A j \in i .. k - 1 : j \in 0 .. k - 1
      OBVIOUS
    <3>2. i \in 0 .. k - 1
      OBVIOUS
    <3> QED
      BY <3>1, <3>2
  <2> QED
    BY <2>1 DEF Around
<1>2. ASSUME NEW i \in 1 .. k - 1 PROVE Marks(D, s, i, k) = Marks(E, t, i, k)
  <2>1. ASSUME NEW j \in i + 1 .. k - 1
        PROVE  /\ (\A m \in i .. j : D[m] >= D[i]) <=> (\A m \in i .. j : E[m] >= E[i])
               /\ s[j] = t[j] /\ D[j] = E[j] /\ D[i] = E[i]
    <3>1. \A m \in i .. j : m \in 0 .. k - 1
      OBVIOUS
    <3>2. i \in 0 .. k - 1 /\ j \in 0 .. k - 1 /\ j \in 1 .. k - 1
      OBVIOUS
    <3> QED
      BY <3>1, <3>2
  <2> QED
    BY <2>1 DEF Marks
<1>3. ASSUME NEW i \in 1 .. k - 1
      PROVE  (Chosen(f, D, s, i, k) <=> Chosen(g, E, t, i, k))
  <2> DEFINE M == Marks(D, s, i, k)
  <2>1. M \in SUBSET (1 .. k - 1) /\ Latest(M) \in M /\ M = Marks(E, t, i, k)
    BY <1>2, MarksFacts
  <2>2. \A m \in M : \A x : Met(s, m, f[m].symbols) <=> Met(t, m, g[m].symbols)
    BY <2>1 DEF Met
  <2>3. Chosen(f, D, s, i, k) <=> /\ Met(s, Latest(M), f[Latest(M)].symbols)
                                  /\ \A m \in M \ {Latest(M)} : ~Met(s, m, f[m].symbols)
    BY DEF Chosen
  <2>4. Chosen(g, E, t, i, k) <=> /\ Met(t, Latest(M), g[Latest(M)].symbols)
                                  /\ \A m \in M \ {Latest(M)} : ~Met(t, m, g[m].symbols)
    BY <2>1 DEF Chosen
  <2>5. Chosen(f, D, s, i, k) \in BOOLEAN /\ Chosen(g, E, t, i, k) \in BOOLEAN
    BY DEF Chosen, Met, Holds
  <2> HIDE DEF M
  <2> QED
    BY <2>1, <2>2, <2>3, <2>4, <2>5
<1> QED
  BY <1>1, <1>2, <1>3

(* The symbols before line k depend on the lines before it. *)
LEMMA SymbolsAgree ==
  ASSUME NEW f, NEW g, NEW D, NEW E, NEW s, NEW t, NEW st, NEW k,
         SameBefore(f, g, D, E, s, t, k)
  PROVE  Before(f, s, st, k) = Before(g, t, st, k)
<1> USE DEF SameBefore
<1>1. CASE k = 1
  BY <1>1 DEF Before
<1>2. CASE k # 1
    <2>1. k - 1 \in 1 .. k - 1
      BY <1>2
    <2>2. f[k - 1] = g[k - 1] /\ s[k - 1] = t[k - 1]
      BY <2>1
    <2> QED
      BY <2>2 DEF Before
<1> QED
    BY <1>1, <1>2

LineOf(f, D, s, st, k) ==
  [symbols |-> Before(f, s, st, k),
   shown |-> \A i \in Around(D, s, k) : Chosen(f, D, s, i, k)]

(* All that is said of line k depends on the lines before it. *)
LEMMA LineSame ==
  ASSUME NEW f, NEW g, NEW D, NEW E, NEW s, NEW t, NEW st, NEW k,
         SameBefore(f, g, D, E, s, t, k)
  PROVE  LineOf(f, D, s, st, k) = LineOf(g, E, t, st, k)
<1>1. /\ Around(D, s, k) = Around(E, t, k)
      /\ \A i \in 1 .. k - 1 : Marks(D, s, i, k) = Marks(E, t, i, k)
      /\ \A i \in 1 .. k - 1 : (Chosen(f, D, s, i, k) <=> Chosen(g, E, t, i, k))
  BY LineAgrees
<1>4. Before(f, s, st, k) = Before(g, t, st, k)
  BY SymbolsAgree
<1>2. Around(D, s, k) \subseteq 1 .. k - 1
  BY DEF Around
<1>3. (\A i \in Around(D, s, k) : Chosen(f, D, s, i, k))
        = (\A i \in Around(E, t, k) : Chosen(g, E, t, i, k))
  BY <1>1, <1>2
<1> QED
  BY <1>3, <1>4 DEF LineOf

(* The equation of what is seen has a solution, whatever the file.           *)
LEMMA SeenExists == \A D, s, st : \E f : SeenSolves(f, D, s, st)
<1> SUFFICES ASSUME NEW D, NEW s, NEW st PROVE \E f : SeenSolves(f, D, s, st)
  OBVIOUS
<1> DEFINE Level(f, n) == f = [k \in 1 .. n |-> LineOf(f, D, s, st, k)]
           T == {n \in Nat : ~\E f : Level(f, n)}
<1>1. T = {}
  <2> SUFFICES ASSUME T # {} PROVE FALSE
    OBVIOUS
  <2>1. PICK n \in T : \A y \in T : n <= y
    <3>1. T \in SUBSET Nat
      OBVIOUS
    <3> HIDE DEF T
    <3> QED
      BY <3>1, LeastNat
  <2>2. n # 0
    <3> SUFFICES ASSUME n = 0 PROVE FALSE
      OBVIOUS
    <3> DEFINE f == [k \in 1 .. 0 |-> 0]
    <3>1. f = [k \in 1 .. 0 |-> LineOf(f, D, s, st, k)]
      OBVIOUS
    <3> QED
      BY <3>1
  <2>3. PICK f : Level(f, n - 1)
    BY <2>1, <2>2
  <2> DEFINE g == [k \in 1 .. n |-> LineOf(f, D, s, st, k)]
  <2>4. ASSUME NEW k \in 1 .. n - 1 PROVE f[k] = g[k]
    <3>1. k \in 1 .. n
      BY <2>1
    <3>2. f[k] = LineOf(f, D, s, st, k)
      BY <2>3
    <3> QED
      BY <3>1, <3>2
  <2>5. ASSUME NEW k \in 1 .. n PROVE LineOf(f, D, s, st, k) = LineOf(g, D, s, st, k)
    <3>1. k \in Nat \ {0}
      OBVIOUS
    <3>2. \A j \in 1 .. k - 1 : j \in 1 .. n - 1
      BY <2>1
    <3>3. \A j \in 1 .. k - 1 : f[j] = g[j]
      BY <2>4, <3>2
    <3> HIDE DEF g
    <3> QED
      BY <3>1, <3>3, LineSame DEF SameBefore
  <2>6. g = [k \in 1 .. n |-> LineOf(g, D, s, st, k)]
    <3>1. \A k \in 1 .. n : g[k] = LineOf(g, D, s, st, k)
      BY <2>5
    <3>2. g = [k \in 1 .. n |-> g[k]]
      OBVIOUS
    <3> HIDE DEF g
    <3> QED
      BY <3>1, <3>2
  <2>7. Level(g, n)
    BY <2>6
  <2> QED
    BY <2>7
<1>2. MaxLines + 1 \in Nat
  BY PrepAssumption
<1>3. PICK f : Level(f, MaxLines + 1)
  BY <1>1, <1>2
<1> QED
  BY <1>3 DEF SeenSolves, LineOf

(* What a solution says of one line. *)
LEMMA SeenAt ==
  ASSUME NEW f, NEW D, NEW s, NEW st, SeenSolves(f, D, s, st), NEW k \in 1 .. MaxLines + 1
  PROVE  /\ f[k] = LineOf(f, D, s, st, k)
         /\ f[k].symbols = Before(f, s, st, k)
         /\ f[k].shown = \A i \in Around(D, s, k) : Chosen(f, D, s, i, k)
<1>1. f[k] = LineOf(f, D, s, st, k)
  BY DEF SeenSolves, LineOf
<1> QED
  BY <1>1 DEF LineOf

(* What is seen up to the next line is the same in a longer file. *)
LEMMA SeenAgrees ==
  ASSUME NEW f, NEW g, NEW D, NEW E, NEW s, NEW t, NEW st, NEW n, Agree(s, t, n),
         n <= MaxLines, \A j \in 0 .. n : D[j] = E[j],
         SeenSolves(f, D, s, st), SeenSolves(g, E, t, st)
  PROVE  \A k \in 1 .. n + 1 : f[k] = g[k]
<1> USE PrepAssumption DEF Agree
<1> DEFINE T == {k \in Nat : 1 <= k /\ k <= n + 1 /\ f[k] # g[k]}
<1> SUFFICES ASSUME T # {} PROVE FALSE
  OBVIOUS
<1>1. PICK k \in T : \A y \in T : k <= y
  <2>1. T \in SUBSET Nat
    OBVIOUS
  <2> HIDE DEF T
  <2> QED
    BY <2>1, LeastNat
<1>2. k \in 1 .. MaxLines + 1 /\ k \in Nat \ {0} /\ n \in Nat /\ k <= n + 1
  OBVIOUS
<1>3. \A j \in 1 .. k - 1 : f[j] = g[j]
  BY <1>1, <1>2
<1>4. \A j \in 1 .. k - 1 : s[j] = t[j] /\ f[j] = g[j]
  BY <1>2, <1>3
<1>5. \A j \in 0 .. k - 1 : D[j] = E[j]
  <2>1. \A j \in 0 .. k - 1 : j \in 0 .. n
    BY <1>2
  <2> QED
    BY <2>1
<1>6. LineOf(f, D, s, st, k) = LineOf(g, E, t, st, k)
  <2>1. SameBefore(f, g, D, E, s, t, k)
    BY <1>2, <1>4, <1>5 DEF SameBefore
  <2> QED
    BY <2>1, LineSame
<1>7. f[k] = g[k]
  <2>1. f[k] = LineOf(f, D, s, st, k)
    BY <1>2 DEF SeenSolves, LineOf
  <2>2. g[k] = LineOf(g, E, t, st, k)
    BY <1>2 DEF SeenSolves, LineOf
  <2> QED
    BY <1>6, <2>1, <2>2
<1> QED
  BY <1>7

(* The two functions of the state satisfy their equations. *)
LEMMA Unfolds ==
  /\ DepthSolves(Depth, src) /\ SeenSolves(Seen, Depth, src, start)
  /\ DepthSolves(Depth', src') /\ SeenSolves(Seen', Depth', src', start')
<1>1. DepthSolves(CHOOSE f : DepthSolves(f, src), src)
  BY DepthExists
<1>2. DepthSolves(CHOOSE f : DepthSolves(f, src'), src')
  BY DepthExists
<1>3. SeenSolves(CHOOSE f : SeenSolves(f, Depth, src, start), Depth, src, start)
  BY SeenExists
<1>4. SeenSolves(CHOOSE f : SeenSolves(f, Depth', src', start'), Depth', src', start')
  BY SeenExists
<1> QED
  BY <1>1, <1>2, <1>3, <1>4, DepthIs, DepthIsNext, SeenIs, SeenIsNext

Frames == [active : BOOLEAN, taken : BOOLEAN, parent_active : BOOLEAN]

(* t is s with one line l more: what stays, and the depth of the new line.   *)
Grown(s, t, l, D, E, f, g) ==
  LET n == Len(s)
  IN /\ n \in Nat /\ Len(t) = n + 1 /\ t[n + 1] = l
     /\ \A k \in 1 .. n : t[k] = s[k]
     /\ \A k \in 0 .. n : E[k] = D[k] /\ D[k] \in Int
     /\ E[n + 1] = D[n] + (IF l.word = "if" THEN 1 ELSE 0)
                     - (IF l.word = "endif" THEN 1 ELSE 0)
     /\ E[n + 1] \in Int
     /\ \A k \in 1 .. n + 1 : g[k] = f[k]

(* One more line keeps the depths and what is seen of the lines before.      *)
LEMMA GrownFacts ==
  ASSUME NEW X, NEW s \in Seq(X), NEW l \in X, Len(s) < MaxLines, NEW D, NEW E, NEW f, NEW g,
         NEW st, DepthSolves(D, s), DepthSolves(E, Append(s, l)),
         SeenSolves(f, D, s, st), SeenSolves(g, E, Append(s, l), st)
  PROVE  Grown(s, Append(s, l), l, D, E, f, g)
<1> DEFINE t == Append(s, l)
           n == Len(s)
<1>1. n \in Nat /\ Len(t) = n + 1 /\ t[n + 1] = l /\ \A k \in 1 .. n : t[k] = s[k]
  BY AppendProperties, LenProperties
<1> HIDE DEF t
<1>2. Agree(s, t, n) /\ n <= MaxLines /\ Len(t) <= MaxLines
  BY <1>1, PrepAssumption DEF Agree
<1>3. DepthSolves(E, t) /\ SeenSolves(g, E, t, st)
  BY DEF t
<1>4. \A k \in 0 .. n : D[k] = E[k]
  BY <1>2, <1>3, DepthAgrees
<1>5. \A k \in 0 .. n : D[k] \in Int
  BY <1>1, <1>2, DepthFacts
<1>6. E[n + 1] = E[(n + 1) - 1] + (IF t[n + 1].word = "if" THEN 1 ELSE 0)
                     - (IF t[n + 1].word = "endif" THEN 1 ELSE 0)
      /\ E[n + 1] \in Int
  <2>1. n + 1 \in 1 .. Len(t) /\ n + 1 \in 0 .. Len(t) /\ Len(t) \in Nat
    BY <1>1
  <2> QED
    BY <1>2, <1>3, <2>1, DepthFacts
<1>7. \A k \in 1 .. n + 1 : f[k] = g[k]
  BY <1>2, <1>3, <1>4, SeenAgrees
<1>8. E[n + 1] = D[n] + (IF l.word = "if" THEN 1 ELSE 0)
                     - (IF l.word = "endif" THEN 1 ELSE 0)
  <2>1. (n + 1) - 1 = n /\ n \in 0 .. n
    BY <1>1
  <2> QED
    BY <1>1, <1>4, <1>6, <2>1
<1>9. Grown(s, t, l, D, E, f, g)
  BY <1>1, <1>4, <1>5, <1>6, <1>7, <1>8 DEF Grown
<1> QED
  BY <1>9 DEF t

(* The blocks around the next line, and their heads. *)
LEMMA AroundGrows ==
  ASSUME NEW s, NEW t, NEW l, NEW D, NEW E, NEW f, NEW g, Grown(s, t, l, D, E, f, g)
  PROVE  Around(E, t, Len(s) + 2) =
           {i \in Around(D, s, Len(s) + 1) : E[Len(s) + 1] >= D[i]}
             \cup (IF l.word = "if" THEN {Len(s) + 1} ELSE {})
<1> USE DEF Grown
<1> DEFINE n == Len(s)
<1>0. n \in Nat /\ n + 2 - 1 = n + 1 /\ n + 1 - 1 = n
  OBVIOUS
<1> HIDE DEF n
<1>1. ASSUME NEW i \in 1 .. n
      PROVE  i \in Around(E, t, n + 2) <=> i \in Around(D, s, n + 1) /\ E[n + 1] >= D[i]
  <2>1. i \in 1 .. n + 1 /\ t[i] = s[i] /\ E[i] = D[i]
    BY <1>0, <1>1 DEF n
  <2>2. (\A j \in i .. n + 1 : E[j] >= E[i]) <=> (\A j \in i .. n : D[j] >= D[i]) /\ E[n + 1] >= D[i]
    <3>1. \A j \in i .. n : j \in 0 .. n /\ j \in i .. n + 1 /\ E[j] = D[j]
      BY <1>0 DEF n
    <3>2. n + 1 \in i .. n + 1 /\ \A j \in i .. n + 1 : j = n + 1 \/ j \in i .. n
      BY <1>0
    <3> QED
      BY <2>1, <3>1, <3>2
  <2> QED
    BY <1>0, <2>1, <2>2 DEF Around
<1>2. n + 1 \in Around(E, t, n + 2) <=> l.word = "if"
  <2>1. n + 1 \in 1 .. n + 1 /\ t[n + 1] = l
    BY <1>0 DEF n
  <2>2. \A j \in n + 1 .. n + 1 : E[j] >= E[n + 1]
    <3>1. E[n + 1] \in Int
      BY DEF n
    <3>2. \A j \in n + 1 .. n + 1 : j = n + 1
      BY <1>0
    <3> QED
      BY <3>1, <3>2
  <2> QED
    BY <1>0, <2>1, <2>2 DEF Around
<1>3. Around(E, t, n + 2) \subseteq 1 .. n + 1 /\ Around(D, s, n + 1) \subseteq 1 .. n
  BY <1>0 DEF Around
<1>4. \A i : i \in 1 .. n + 1 <=> i \in 1 .. n \/ i = n + 1
  BY <1>0
<1>5. \A i : i \in Around(E, t, n + 2) <=>
           \/ i \in Around(D, s, n + 1) /\ E[n + 1] >= D[i]
           \/ l.word = "if" /\ i = n + 1
  <2>1. n + 1 \notin 1 .. n
    BY <1>0
  <2> QED
    BY <1>1, <1>2, <1>3, <1>4, <2>1, Zenon
<1>6. Around(E, t, n + 2) = {i \in Around(D, s, n + 1) : E[n + 1] >= D[i]}
             \cup (IF l.word = "if" THEN {n + 1} ELSE {})
  BY <1>5
<1> QED
  BY <1>6 DEF n

(* The heads of a block, after one more line: it is one of them, or none.    *)
LEMMA MarksGrow ==
  ASSUME NEW s, NEW t, NEW l, NEW D, NEW E, NEW f, NEW g, Grown(s, t, l, D, E, f, g),
         NEW i \in Around(D, s, Len(s) + 1)
  PROVE  Marks(E, t, i, Len(s) + 2) =
           Marks(D, s, i, Len(s) + 1)
             \cup (IF l.word \in {"elif", "else"} /\ E[Len(s) + 1] = D[i]
                   THEN {Len(s) + 1} ELSE {})
<1> USE DEF Grown
<1> DEFINE n == Len(s)
<1>0. n \in Nat /\ n + 2 - 1 = n + 1 /\ n + 1 - 1 = n
  OBVIOUS
<1> HIDE DEF n
<1>1. i \in 1 .. n /\ \A j \in i .. n : D[j] >= D[i]
  BY <1>0 DEF Around, n
<1>2. E[i] = D[i] /\ D[i] \in Int /\ E[n + 1] \in Int /\ i \in Nat
  BY <1>0, <1>1 DEF n
<1>3. ASSUME NEW j \in i + 1 .. n
      PROVE  j \in Marks(E, t, i, n + 2) <=> j \in Marks(D, s, i, n + 1)
  <2>1. j \in i + 1 .. n + 1 /\ j \in 1 .. n /\ j \in 0 .. n /\ j # i
    BY <1>0, <1>1
  <2>2. t[j] = s[j] /\ E[j] = D[j]
    BY <2>1 DEF n
  <2>3. \A m \in i .. j : E[m] = D[m]
    <3>1. \A m \in i .. j : m \in 0 .. n
      BY <1>0, <1>1, <2>1
    <3> QED
      BY <3>1 DEF n
  <2> QED
    BY <1>0, <1>2, <2>1, <2>2, <2>3 DEF Marks
<1>4. n + 1 \in Marks(E, t, i, n + 2) <=> l.word \in {"elif", "else"} /\ E[n + 1] = D[i]
  <2>1. n + 1 \in i + 1 .. n + 1 /\ n + 1 # i /\ t[n + 1] = l
    BY <1>0, <1>1 DEF n
  <2>2. ASSUME E[n + 1] = D[i], NEW m \in i .. n + 1 PROVE E[m] >= E[i]
    <3>1. CASE m = n + 1
      BY <1>2, <2>2, <3>1
    <3>2. CASE m # n + 1
      <4>1. m \in i .. n /\ m \in 0 .. n
        BY <1>0, <1>1, <3>2
      <4>2. E[m] = D[m] /\ D[m] >= D[i]
        BY <1>1, <4>1 DEF n
      <4> QED
        BY <1>2, <4>2
    <3> QED
      BY <3>1, <3>2
  <2> QED
    BY <1>0, <1>2, <2>1, <2>2 DEF Marks
<1>5. /\ \A j \in Marks(E, t, i, n + 2) : j = i \/ j \in i + 1 .. n \/ j = n + 1
      /\ \A j \in Marks(D, s, i, n + 1) : j = i \/ j \in i + 1 .. n
      /\ i \in Marks(E, t, i, n + 2) /\ i \in Marks(D, s, i, n + 1)
  BY <1>0, <1>1 DEF Marks
<1>6. Marks(E, t, i, n + 2) =
        Marks(D, s, i, n + 1)
           \cup (IF l.word \in {"elif", "else"} /\ E[n + 1] = D[i] THEN {n + 1} ELSE {})
  BY <1>3, <1>4, <1>5
<1> QED
  BY <1>6 DEF n

(* A block whose heads stay keeps its choice; with a new head, that one is   *)
(* taken if none before was.                                                 *)
LEMMA ChosenGrows ==
  ASSUME NEW s, NEW t, NEW l, NEW D, NEW E, NEW f, NEW g, Grown(s, t, l, D, E, f, g),
         NEW i \in Around(D, s, Len(s) + 1)
  PROVE  LET n == Len(s)
             M == Marks(D, s, i, n + 1)
             N == Marks(E, t, i, n + 2)
         IN /\ N = M => /\ Chosen(g, E, t, i, n + 2) <=> Chosen(f, D, s, i, n + 1)
                        /\ (\E m \in N : Met(t, m, g[m].symbols))
                             <=> (\E m \in M : Met(s, m, f[m].symbols))
            /\ N = M \cup {n + 1} =>
                 /\ Chosen(g, E, t, i, n + 2) <=>
                      Met(t, n + 1, f[n + 1].symbols) /\ ~\E m \in M : Met(s, m, f[m].symbols)
                 /\ (\E m \in N : Met(t, m, g[m].symbols))
                      <=> \/ Met(t, n + 1, f[n + 1].symbols)
                          \/ \E m \in M : Met(s, m, f[m].symbols)
<1> DEFINE n == Len(s)
           M == Marks(D, s, i, n + 1)
           N == Marks(E, t, i, n + 2)
<1>0. n \in Nat /\ i \in 1 .. n /\ n + 1 \in Nat /\ n + 2 \in Nat
      /\ i \in 1 .. (n + 1) - 1 /\ i \in 1 .. (n + 2) - 1
  BY DEF Grown, Around
<1>1. M \in SUBSET (1 .. (n + 1) - 1) /\ N \in SUBSET (1 .. (n + 2) - 1)
      /\ Latest(N) \in N /\ \A m \in N : m <= Latest(N)
  BY <1>0, MarksFacts
<1>2. ASSUME NEW m \in M PROVE /\ Met(t, m, g[m].symbols) <=> Met(s, m, f[m].symbols)
                               /\ m \in 1 .. n /\ m # n + 1
  <2>1. m \in 1 .. n /\ m \in 1 .. n + 1 /\ m # n + 1
    BY <1>0, <1>1
  <2>2. t[m] = s[m] /\ g[m] = f[m]
    BY <2>1 DEF Grown
  <2> QED
    BY <2>1, <2>2 DEF Met
<1>3. g[n + 1] = f[n + 1]
  BY <1>0 DEF Grown
<1>4. Chosen(g, E, t, i, n + 2) <=> /\ Met(t, Latest(N), g[Latest(N)].symbols)
                                    /\ \A m \in N \ {Latest(N)} : ~Met(t, m, g[m].symbols)
  BY DEF Chosen
<1>5. Chosen(f, D, s, i, n + 1) <=> /\ Met(s, Latest(M), f[Latest(M)].symbols)
                                    /\ \A m \in M \ {Latest(M)} : ~Met(s, m, f[m].symbols)
  BY DEF Chosen
<1> HIDE DEF M, N
<1>6. ASSUME N = M
      PROVE  /\ Chosen(g, E, t, i, n + 2) <=> Chosen(f, D, s, i, n + 1)
             /\ (\E m \in N : Met(t, m, g[m].symbols)) <=> (\E m \in M : Met(s, m, f[m].symbols))
  <2>1. Latest(N) = Latest(M) /\ Latest(M) \in M
    BY <1>1, <1>6
  <2> QED
    BY <1>2, <1>4, <1>5, <1>6, <2>1, Zenon
<1>7. ASSUME N = M \cup {n + 1}
      PROVE  /\ Chosen(g, E, t, i, n + 2) <=>
                      Met(t, n + 1, f[n + 1].symbols) /\ ~\E m \in M : Met(s, m, f[m].symbols)
             /\ (\E m \in N : Met(t, m, g[m].symbols))
                      <=> \/ Met(t, n + 1, f[n + 1].symbols)
                          \/ \E m \in M : Met(s, m, f[m].symbols)
  <2>1. Latest(N) = n + 1
    <3>1. n + 1 <= Latest(N) /\ (Latest(N) \in M \/ Latest(N) = n + 1)
      BY <1>1, <1>7
    <3>2. Latest(N) \notin M
      BY <1>0, <1>2, <3>1
    <3> QED
      BY <3>1, <3>2
  <2>2. N \ {Latest(N)} = M
    BY <1>2, <1>7, <2>1
  <2>3. Chosen(g, E, t, i, n + 2) <=>
           Met(t, n + 1, f[n + 1].symbols) /\ \A m \in M : ~Met(t, m, g[m].symbols)
    BY <1>3, <1>4, <2>1, <2>2
  <2>4. (\E m \in N : Met(t, m, g[m].symbols))
                      <=> \/ Met(t, n + 1, f[n + 1].symbols)
                          \/ \E m \in M : Met(t, m, g[m].symbols)
    BY <1>3, <1>7
  <2> QED
    BY <1>2, <2>3, <2>4
<1> QED
  BY <1>6, <1>7 DEF M, N

(* The stack against the file: b is where the block of each frame begins.    *)
Nest(b, f, D, s, stk) ==
  LET k == Len(s) + 1
  IN /\ b \in [1 .. Len(stk) -> 1 .. Len(s)]
     /\ D[Len(s)] = Len(stk)
     /\ Around(D, s, k) = {b[d] : d \in 1 .. Len(stk)}
     /\ \A d \in 1 .. Len(stk) :
          /\ D[b[d]] = d
          /\ stk[d].parent_active <=> \A e \in 1 .. d - 1 : stk[e].active
          /\ stk[d].active <=> stk[d].parent_active /\ Chosen(f, D, s, b[d], k)
          /\ stk[d].parent_active =>
               (stk[d].taken <=> \E m \in Marks(D, s, b[d], k) : Met(s, m, f[m].symbols))

(* Every frame is active where the file says the next line is shown. *)
LEMMA ShownActive ==
  ASSUME NEW b, NEW f, NEW D, NEW s, NEW stk \in Seq(Frames), NEW st,
         Nest(b, f, D, s, stk), SeenSolves(f, D, s, st), Len(s) \in Nat, Len(s) <= MaxLines
  PROVE  f[Len(s) + 1].shown <=> \A d \in 1 .. Len(stk) : stk[d].active
<1> DEFINE k == Len(s) + 1
<1>1. f[k].shown = \A i \in Around(D, s, k) : Chosen(f, D, s, i, k)
  <2>1. k \in 1 .. MaxLines + 1
    BY PrepAssumption
  <2> HIDE DEF k
  <2> QED
    BY <2>1, SeenAt
<1>2. f[k].shown <=> \A d \in 1 .. Len(stk) : Chosen(f, D, s, b[d], k)
  BY <1>1 DEF Nest
<1>3. \A d \in 1 .. Len(stk) : stk[d].active => Chosen(f, D, s, b[d], k)
  BY DEF Nest
<1>4. ASSUME \A d \in 1 .. Len(stk) : Chosen(f, D, s, b[d], k)
      PROVE  \A d \in 1 .. Len(stk) : stk[d].active
  <2> DEFINE T == {d \in Nat : d \in 1 .. Len(stk) /\ ~stk[d].active}
  <2> SUFFICES ASSUME T # {} PROVE FALSE
    OBVIOUS
  <2>1. PICK d \in T : \A y \in T : d <= y
    <3>1. T \in SUBSET Nat
      OBVIOUS
    <3> HIDE DEF T
    <3> QED
      BY <3>1, LeastNat
  <2>2. Len(stk) \in Nat /\ d \in 1 .. Len(stk)
    BY LenProperties
  <2>3. \A e \in 1 .. d - 1 : stk[e].active
    <3>1. \A e \in 1 .. d - 1 : e \in Nat /\ e \in 1 .. Len(stk) /\ ~(d <= e)
      BY <2>2
    <3> QED
      BY <2>1, <3>1
  <2>4. stk[d].active
    BY <1>4, <2>2, <2>3 DEF Nest
  <2> QED
    BY <2>4
<1> QED
  BY <1>2, <1>3, <1>4

(* The blocks around the next line are those of the frames. *)
LEMMA NestAround ==
  ASSUME NEW b, NEW f, NEW D, NEW s, NEW stk \in Seq(Frames), Nest(b, f, D, s, stk),
         NEW d \in 1 .. Len(stk)
  PROVE  b[d] \in Around(D, s, Len(s) + 1) /\ b[d] \in 1 .. Len(s) /\ D[b[d]] = d
  BY DEF Nest

(* A line that is no head of a block leaves its heads alone. *)
LEMMA MarksKept ==
  ASSUME NEW s, NEW t, NEW l, NEW D, NEW E, NEW f, NEW g, Grown(s, t, l, D, E, f, g),
         NEW i \in Around(D, s, Len(s) + 1),
         l.word \notin {"elif", "else"} \/ E[Len(s) + 1] # D[i]
  PROVE  Marks(E, t, i, Len(s) + 2) = Marks(D, s, i, Len(s) + 1)
<1>1. Marks(E, t, i, Len(s) + 2) =
        Marks(D, s, i, Len(s) + 1)
          \cup (IF l.word \in {"elif", "else"} /\ E[Len(s) + 1] = D[i]
                THEN {Len(s) + 1} ELSE {})
  BY MarksGrow
<1>2. ~(l.word \in {"elif", "else"} /\ E[Len(s) + 1] = D[i])
  OBVIOUS
<1> QED
  BY <1>1, <1>2

(* Any other line leaves the blocks as they are. *)
LEMMA NestKept ==
  ASSUME NEW s, NEW t, NEW l, NEW D, NEW E, NEW f, NEW g, Grown(s, t, l, D, E, f, g),
         NEW b, NEW stk \in Seq(Frames), Nest(b, f, D, s, stk),
         l.word \notin {"if", "elif", "else", "endif"}
  PROVE  Nest(b, g, E, t, stk)
<1> DEFINE n == Len(s)
<1>0. n \in Nat /\ Len(t) = n + 1 /\ Len(t) + 1 = n + 2 /\ Len(stk) \in Nat
  BY LenProperties DEF Grown
<1>1. E[n + 1] = Len(stk) /\ D[n] = Len(stk)
  BY <1>0 DEF Grown, Nest
<1>2. Around(E, t, n + 2) = Around(D, s, n + 1)
  <2>1. Around(E, t, n + 2) = {i \in Around(D, s, n + 1) : E[n + 1] >= D[i]}
    BY AroundGrows
  <2>2. \A i \in Around(D, s, n + 1) : E[n + 1] >= D[i]
    BY <1>0, <1>1 DEF Nest
  <2> QED
    BY <2>1, <2>2
<1>3. b \in [1 .. Len(stk) -> 1 .. Len(t)]
  BY <1>0 DEF Nest
<1>4. ASSUME NEW d \in 1 .. Len(stk)
      PROVE  /\ E[b[d]] = d
             /\ stk[d].parent_active <=> \A e \in 1 .. d - 1 : stk[e].active
             /\ stk[d].active <=> stk[d].parent_active /\ Chosen(g, E, t, b[d], n + 2)
             /\ stk[d].parent_active =>
                  (stk[d].taken <=> \E m \in Marks(E, t, b[d], n + 2) : Met(t, m, g[m].symbols))
  <2>1. b[d] \in Around(D, s, n + 1) /\ b[d] \in 1 .. n /\ D[b[d]] = d
    BY NestAround
  <2>2. Marks(E, t, b[d], n + 2) = Marks(D, s, b[d], n + 1)
    <3>1. l.word \notin {"elif", "else"}
      OBVIOUS
    <3> QED
      BY <2>1, <3>1, MarksKept
  <2>3. /\ Chosen(g, E, t, b[d], n + 2) <=> Chosen(f, D, s, b[d], n + 1)
        /\ (\E m \in Marks(E, t, b[d], n + 2) : Met(t, m, g[m].symbols))
             <=> (\E m \in Marks(D, s, b[d], n + 1) : Met(s, m, f[m].symbols))
    BY <2>1, <2>2, ChosenGrows
  <2>4. E[b[d]] = D[b[d]]
    <3>1. b[d] \in 0 .. n
      BY <1>0, <2>1
    <3> QED
      BY <3>1 DEF Grown
  <2> QED
    BY <2>1, <2>3, <2>4 DEF Nest
<1> QED
  BY <1>0, <1>1, <1>2, <1>3, <1>4 DEF Nest

(* #if: a block more. *)
LEMMA NestIf ==
  ASSUME NEW s, NEW t, NEW l, NEW D, NEW E, NEW f, NEW g, Grown(s, t, l, D, E, f, g),
         NEW b, NEW stk \in Seq(Frames), Nest(b, f, D, s, stk), l.word = "if",
         NEW fr \in Frames,
         fr.parent_active <=> \A d \in 1 .. Len(stk) : stk[d].active,
         fr.active <=> fr.parent_active /\ Holds(f[Len(s) + 1].symbols, l),
         fr.taken <=> fr.active
  PROVE  \E c : Nest(c, g, E, t, Append(stk, fr))
<1> DEFINE n == Len(s)
           N == Len(stk)
           u == Append(stk, fr)
           c == [d \in 1 .. N + 1 |-> IF d = N + 1 THEN n + 1 ELSE b[d]]
<1>0. n \in Nat /\ Len(t) = n + 1 /\ Len(t) + 1 = n + 2 /\ N \in Nat
  BY LenProperties DEF Grown
<1>1. Len(u) = N + 1 /\ u[N + 1] = fr /\ \A d \in 1 .. N : u[d] = stk[d]
  BY AppendProperties
<1>2. E[n + 1] = N + 1 /\ D[n] = N
  BY <1>0 DEF Grown, Nest
<1>3. c \in [1 .. N + 1 -> 1 .. n + 1]
  BY <1>0 DEF Nest
<1>4. c[N + 1] = n + 1 /\ \A d \in 1 .. N : c[d] = b[d]
  BY <1>0
<1> HIDE DEF c, u
<1>5. Around(E, t, n + 2) = {c[d] : d \in 1 .. N + 1}
  <2>1. Around(E, t, n + 2) = {i \in Around(D, s, n + 1) : E[n + 1] >= D[i]} \cup {n + 1}
    BY AroundGrows
  <2>2. \A i \in Around(D, s, n + 1) : E[n + 1] >= D[i]
    BY <1>0, <1>2 DEF Nest
  <2>3. Around(D, s, n + 1) = {b[d] : d \in 1 .. N}
    BY DEF Nest
  <2>4. \A d : d \in 1 .. N + 1 <=> d \in 1 .. N \/ d = N + 1
    BY <1>0
  <2> QED
    BY <1>4, <2>1, <2>2, <2>3, <2>4
<1>6. ASSUME NEW d \in 1 .. N
      PROVE  /\ E[c[d]] = d
             /\ u[d].parent_active <=> \A e \in 1 .. d - 1 : u[e].active
             /\ u[d].active <=> u[d].parent_active /\ Chosen(g, E, t, c[d], n + 2)
             /\ u[d].parent_active =>
                  (u[d].taken <=> \E m \in Marks(E, t, c[d], n + 2) : Met(t, m, g[m].symbols))
  <2>1. b[d] \in Around(D, s, n + 1) /\ b[d] \in 1 .. n /\ D[b[d]] = d
    BY NestAround
  <2>2. Marks(E, t, b[d], n + 2) = Marks(D, s, b[d], n + 1)
    <3>1. l.word \notin {"elif", "else"}
      OBVIOUS
    <3> QED
      BY <2>1, <3>1, MarksKept
  <2>3. /\ Chosen(g, E, t, b[d], n + 2) <=> Chosen(f, D, s, b[d], n + 1)
        /\ (\E m \in Marks(E, t, b[d], n + 2) : Met(t, m, g[m].symbols))
             <=> (\E m \in Marks(D, s, b[d], n + 1) : Met(s, m, f[m].symbols))
    BY <2>1, <2>2, ChosenGrows
  <2>4. E[b[d]] = D[b[d]]
    <3>1. b[d] \in 0 .. n
      BY <1>0, <2>1
    <3> QED
      BY <3>1 DEF Grown
  <2>5. c[d] = b[d] /\ u[d] = stk[d] /\ \A e \in 1 .. d - 1 : u[e] = stk[e]
    BY <1>0, <1>1, <1>4
  <2> QED
    BY <2>1, <2>3, <2>4, <2>5 DEF Nest
<1>7. /\ E[c[N + 1]] = N + 1
      /\ u[N + 1].parent_active <=> \A e \in 1 .. N + 1 - 1 : u[e].active
      /\ u[N + 1].active <=> u[N + 1].parent_active /\ Chosen(g, E, t, c[N + 1], n + 2)
      /\ u[N + 1].parent_active =>
           (u[N + 1].taken <=> \E m \in Marks(E, t, c[N + 1], n + 2) : Met(t, m, g[m].symbols))
  <2>1. Marks(E, t, n + 1, n + 2) = {n + 1}
    BY <1>0 DEF Marks
  <2>2. Latest({n + 1}) = n + 1
    BY <1>0 DEF Latest
  <2>3. Met(t, n + 1, g[n + 1].symbols) <=> Holds(f[n + 1].symbols, l)
    BY <1>0 DEF Grown, Met
  <2>4. Chosen(g, E, t, n + 1, n + 2) <=> Holds(f[n + 1].symbols, l)
    BY <2>1, <2>2, <2>3 DEF Chosen
  <2>5. (\E m \in Marks(E, t, n + 1, n + 2) : Met(t, m, g[m].symbols))
          <=> Holds(f[n + 1].symbols, l)
    BY <2>1, <2>3
  <2>6. N + 1 - 1 = N
    BY <1>0
  <2>7. u[N + 1].parent_active <=> \A e \in 1 .. N : u[e].active
    BY <1>1
  <2> QED
    BY <1>1, <1>2, <1>4, <2>4, <2>5, <2>6, <2>7
<1>8. \A d : d \in 1 .. N + 1 <=> d \in 1 .. N \/ d = N + 1
  BY <1>0
<1>9. Nest(c, g, E, t, u)
  <2>1. \A d \in 1 .. N + 1 :
          /\ E[c[d]] = d
          /\ u[d].parent_active <=> \A e \in 1 .. d - 1 : u[e].active
          /\ u[d].active <=> u[d].parent_active /\ Chosen(g, E, t, c[d], n + 2)
          /\ u[d].parent_active =>
               (u[d].taken <=> \E m \in Marks(E, t, c[d], n + 2) : Met(t, m, g[m].symbols))
    <3> TAKE d \in 1 .. N + 1
    <3>1. CASE d = N + 1
      BY <1>7, <3>1
    <3>2. CASE d # N + 1
      BY <1>6, <1>8, <3>2
    <3> QED
      BY <3>1, <3>2
  <2> QED
    BY <1>0, <1>1, <1>2, <1>3, <1>5, <2>1 DEF Nest
<1> QED
  BY <1>9 DEF u

(* #elif and #else: the innermost block has a new head. *)
LEMMA NestElse ==
  ASSUME NEW s, NEW t, NEW l, NEW D, NEW E, NEW f, NEW g, Grown(s, t, l, D, E, f, g),
         NEW b, NEW stk \in Seq(Frames), Nest(b, f, D, s, stk), l.word \in {"elif", "else"},
         Len(stk) # 0, NEW fr \in Frames,
         fr.parent_active <=> stk[Len(stk)].parent_active,
         fr.active <=> /\ fr.parent_active /\ ~stk[Len(stk)].taken
                       /\ Met(t, Len(s) + 1, f[Len(s) + 1].symbols),
         fr.parent_active =>
           (fr.taken <=> stk[Len(stk)].taken \/ Met(t, Len(s) + 1, f[Len(s) + 1].symbols))
  PROVE  Nest(b, g, E, t, [stk EXCEPT ![Len(stk)] = fr])
<1> DEFINE n == Len(s)
           N == Len(stk)
           u == [stk EXCEPT ![N] = fr]
<1>0. n \in Nat /\ Len(t) = n + 1 /\ Len(t) + 1 = n + 2 /\ N \in Nat /\ N \in 1 .. N
  BY LenProperties DEF Grown
<1>1. u \in Seq(Frames) /\ Len(u) = N /\ u[N] = fr /\ \A d \in 1 .. N - 1 : u[d] = stk[d]
  BY <1>0, ExceptSeq
<1>2. E[n + 1] = N /\ D[n] = N
  BY <1>0 DEF Grown, Nest
<1>3. b \in [1 .. N -> 1 .. n + 1]
  BY <1>0 DEF Nest
<1> HIDE DEF u
<1>5. Around(E, t, n + 2) = {b[d] : d \in 1 .. N}
  <2>1. Around(E, t, n + 2) = {i \in Around(D, s, n + 1) : E[n + 1] >= D[i]}
    BY AroundGrows
  <2>3. Around(D, s, n + 1) = {b[d] : d \in 1 .. N}
    BY DEF Nest
  <2>2. ASSUME NEW i \in Around(D, s, n + 1) PROVE E[n + 1] >= D[i]
    <3>1. PICK d \in 1 .. N : i = b[d]
      BY <2>3
    <3>2. D[b[d]] = d
      BY <3>1 DEF Nest
    <3> QED
      BY <1>0, <1>2, <3>1, <3>2
  <2> QED
    BY <2>1, <2>2, <2>3
<1>6. ASSUME NEW d \in 1 .. N - 1
      PROVE  /\ E[b[d]] = d
             /\ u[d].parent_active <=> \A e \in 1 .. d - 1 : u[e].active
             /\ u[d].active <=> u[d].parent_active /\ Chosen(g, E, t, b[d], n + 2)
             /\ u[d].parent_active =>
                  (u[d].taken <=> \E m \in Marks(E, t, b[d], n + 2) : Met(t, m, g[m].symbols))
  <2>0. d \in 1 .. N /\ d # N
    BY <1>0
  <2>1. b[d] \in Around(D, s, n + 1) /\ b[d] \in 1 .. n /\ D[b[d]] = d
    BY <2>0, NestAround
  <2>2. Marks(E, t, b[d], n + 2) = Marks(D, s, b[d], n + 1)
    BY <1>2, <2>0, <2>1, MarksKept
  <2>3. /\ Chosen(g, E, t, b[d], n + 2) <=> Chosen(f, D, s, b[d], n + 1)
        /\ (\E m \in Marks(E, t, b[d], n + 2) : Met(t, m, g[m].symbols))
             <=> (\E m \in Marks(D, s, b[d], n + 1) : Met(s, m, f[m].symbols))
    BY <2>1, <2>2, ChosenGrows
  <2>4. E[b[d]] = D[b[d]]
    <3>1. b[d] \in 0 .. n
      BY <1>0, <2>1
    <3> QED
      BY <3>1 DEF Grown
  <2>5. u[d] = stk[d] /\ \A e \in 1 .. d - 1 : u[e] = stk[e]
    BY <1>0, <1>1
  <2> QED
    BY <2>0, <2>1, <2>3, <2>4, <2>5 DEF Nest
<1>7. /\ E[b[N]] = N
      /\ u[N].parent_active <=> \A e \in 1 .. N - 1 : u[e].active
      /\ u[N].active <=> u[N].parent_active /\ Chosen(g, E, t, b[N], n + 2)
      /\ u[N].parent_active =>
           (u[N].taken <=> \E m \in Marks(E, t, b[N], n + 2) : Met(t, m, g[m].symbols))
  <2>1. b[N] \in Around(D, s, n + 1) /\ b[N] \in 1 .. n /\ D[b[N]] = N
    BY <1>0, NestAround
  <2>2. Marks(E, t, b[N], n + 2) = Marks(D, s, b[N], n + 1) \cup {n + 1}
    BY <1>2, <2>1, MarksGrow
  <2>3. /\ Chosen(g, E, t, b[N], n + 2) <=>
             /\ Met(t, n + 1, f[n + 1].symbols)
             /\ ~\E m \in Marks(D, s, b[N], n + 1) : Met(s, m, f[m].symbols)
        /\ (\E m \in Marks(E, t, b[N], n + 2) : Met(t, m, g[m].symbols))
             <=> \/ Met(t, n + 1, f[n + 1].symbols)
                 \/ \E m \in Marks(D, s, b[N], n + 1) : Met(s, m, f[m].symbols)
    BY <2>1, <2>2, ChosenGrows
  <2>4. E[b[N]] = D[b[N]]
    <3>1. b[N] \in 0 .. n
      BY <1>0, <2>1
    <3> QED
      BY <3>1 DEF Grown
  <2>5. /\ stk[N].parent_active <=> \A e \in 1 .. N - 1 : stk[e].active
        /\ stk[N].parent_active => (stk[N].taken <=>
             \E m \in Marks(D, s, b[N], n + 1) : Met(s, m, f[m].symbols))
    BY <1>0 DEF Nest
  <2>6. u[N].parent_active <=> \A e \in 1 .. N - 1 : u[e].active
    BY <1>1, <2>5
  <2> QED
    BY <1>1, <2>1, <2>3, <2>4, <2>5, <2>6
<1>8. \A d : d \in 1 .. N <=> d \in 1 .. N - 1 \/ d = N
  BY <1>0
<1>9. Nest(b, g, E, t, u)
  <2>1. \A d \in 1 .. N :
          /\ E[b[d]] = d
          /\ u[d].parent_active <=> \A e \in 1 .. d - 1 : u[e].active
          /\ u[d].active <=> u[d].parent_active /\ Chosen(g, E, t, b[d], n + 2)
          /\ u[d].parent_active =>
               (u[d].taken <=> \E m \in Marks(E, t, b[d], n + 2) : Met(t, m, g[m].symbols))
    <3> TAKE d \in 1 .. N
    <3>1. CASE d = N
      BY <1>7, <3>1
    <3>2. CASE d # N
      BY <1>6, <1>8, <3>2
    <3> QED
      BY <3>1, <3>2
  <2> QED
    BY <1>0, <1>1, <1>2, <1>3, <1>5, <2>1 DEF Nest
<1> QED
  BY <1>9 DEF u

(* #endif: the innermost block is over. *)
LEMMA NestEndif ==
  ASSUME NEW s, NEW t, NEW l, NEW D, NEW E, NEW f, NEW g, Grown(s, t, l, D, E, f, g),
         NEW b, NEW stk \in Seq(Frames), Nest(b, f, D, s, stk), l.word = "endif",
         Len(stk) # 0
  PROVE  \E c : Nest(c, g, E, t, Front(stk))
<1> DEFINE n == Len(s)
           N == Len(stk)
           u == Front(stk)
           c == [d \in 1 .. N - 1 |-> b[d]]
<1>0. n \in Nat /\ Len(t) = n + 1 /\ Len(t) + 1 = n + 2 /\ N \in Nat /\ N - 1 \in Nat
  BY LenProperties DEF Grown
<1>1. Len(u) = N - 1 /\ \A d \in 1 .. N - 1 : u[d] = stk[d]
  <2>1. \A i \in 1 .. N - 1 : stk[i] \in Frames
    BY <1>0, ElementOfSeq
  <2>2. u = SubSeq(stk, 1, N - 1) /\ 1 \in Int /\ N - 1 \in Int
    BY <1>0 DEF Front
  <2> HIDE DEF u
  <2>3. /\ Len(u) = IF 1 <= N - 1 THEN N - 1 - 1 + 1 ELSE 0
        /\ \A i \in 1 .. N - 1 - 1 + 1 : u[i] = stk[1 + i - 1]
    BY <2>1, <2>2, SubSeqProperties
  <2>4. Len(u) = N - 1
    <3>1. (IF 1 <= N - 1 THEN N - 1 - 1 + 1 ELSE 0) = N - 1
      <4> HIDE DEF N
      <4> QED
        BY <1>0
    <3> QED
      BY <2>3, <3>1
  <2>5. ASSUME NEW d \in 1 .. N - 1 PROVE u[d] = stk[d]
    <3>1. d \in 1 .. N - 1 - 1 + 1 /\ 1 + d - 1 = d
      BY <1>0
    <3> QED
      BY <2>3, <3>1
  <2> QED
    BY <2>4, <2>5
<1>2. E[n + 1] = N - 1 /\ D[n] = N
  BY <1>0 DEF Grown, Nest
<1>3. c \in [1 .. N - 1 -> 1 .. n + 1]
  BY <1>0 DEF Nest
<1>4. \A d \in 1 .. N - 1 : c[d] = b[d]
  OBVIOUS
<1> HIDE DEF c, u
<1>5. Around(E, t, n + 2) = {c[d] : d \in 1 .. N - 1}
  <2>1. Around(E, t, n + 2) = {i \in Around(D, s, n + 1) : E[n + 1] >= D[i]}
    BY AroundGrows
  <2>2. \A d \in 1 .. N : D[b[d]] = d
    BY DEF Nest
  <2>3. Around(D, s, n + 1) = {b[d] : d \in 1 .. N}
    BY DEF Nest
  <2>4. \A d : d \in 1 .. N - 1 <=> d \in 1 .. N /\ E[n + 1] >= d
    BY <1>0, <1>2
  <2>5. \A i : i \in Around(E, t, n + 2) <=> \E d \in 1 .. N : i = b[d] /\ E[n + 1] >= d
    BY <2>1, <2>2, <2>3
  <2>6. \A i : i \in Around(E, t, n + 2) <=> \E d \in 1 .. N - 1 : i = c[d]
    BY <1>4, <2>4, <2>5
  <2> QED
    BY <2>6
<1>6. ASSUME NEW d \in 1 .. N - 1
      PROVE  /\ E[c[d]] = d
             /\ u[d].parent_active <=> \A e \in 1 .. d - 1 : u[e].active
             /\ u[d].active <=> u[d].parent_active /\ Chosen(g, E, t, c[d], n + 2)
             /\ u[d].parent_active =>
                  (u[d].taken <=> \E m \in Marks(E, t, c[d], n + 2) : Met(t, m, g[m].symbols))
  <2>0. d \in 1 .. N
    BY <1>0
  <2>1. b[d] \in Around(D, s, n + 1) /\ b[d] \in 1 .. n /\ D[b[d]] = d
    BY <2>0, NestAround
  <2>2. Marks(E, t, b[d], n + 2) = Marks(D, s, b[d], n + 1)
    <3>1. l.word \notin {"elif", "else"}
      OBVIOUS
    <3> QED
      BY <2>1, <3>1, MarksKept
  <2>3. /\ Chosen(g, E, t, b[d], n + 2) <=> Chosen(f, D, s, b[d], n + 1)
        /\ (\E m \in Marks(E, t, b[d], n + 2) : Met(t, m, g[m].symbols))
             <=> (\E m \in Marks(D, s, b[d], n + 1) : Met(s, m, f[m].symbols))
    BY <2>1, <2>2, ChosenGrows
  <2>4. E[b[d]] = D[b[d]]
    <3>1. b[d] \in 0 .. n
      BY <1>0, <2>1
    <3> QED
      BY <3>1 DEF Grown
  <2>5. c[d] = b[d] /\ u[d] = stk[d] /\ \A e \in 1 .. d - 1 : u[e] = stk[e]
    BY <1>0, <1>1, <1>4
  <2> QED
    BY <2>0, <2>1, <2>3, <2>4, <2>5 DEF Nest
<1>9. Nest(c, g, E, t, u)
  BY <1>0, <1>1, <1>2, <1>3, <1>5, <1>6 DEF Nest
<1> QED
  BY <1>9 DEF u

(* The inductive invariant: types, and while nothing failed the stack and    *)
(* the symbols are what the lines so far say, and so are the survivors.      *)
PrepInv ==
  /\ src \in Seq(SrcLines) /\ Len(src) <= MaxLines /\ stack \in Seq(Frames)
  /\ (\E X : out \in Seq(X))
  /\ state # "failed" =>
       /\ \E b : Nest(b, Seen, Depth, src, stack)
       /\ symbols = Seen[Len(src) + 1].symbols
       /\ SurvivorsAsNested

(* preprocess begins with no block and no survivor. *)
LEMMA PrepInitInv == PrepInit => PrepInv
<1> SUFFICES ASSUME PrepInit PROVE PrepInv
  OBVIOUS
<1>1. src = <<>> /\ stack = <<>> /\ out = <<>> /\ symbols = start
  BY DEF PrepInit
<1>2. Len(src) = 0 /\ Len(stack) = 0 /\ Len(src) + 1 = 1
  BY <1>1
<1>3. DepthSolves(Depth, src) /\ SeenSolves(Seen, Depth, src, start)
  BY Unfolds
<1>4. Depth[0] = 0
  BY PrepAssumption, <1>2, <1>3, DepthFacts
<1>5. Nest(<<>>, Seen, Depth, src, stack)
  <2>1. <<>> \in [1 .. 0 -> 1 .. 0] /\ Around(Depth, src, 1) = {}
    BY DEF Around
  <2> QED
    BY <1>2, <1>4, <2>1 DEF Nest
<1>6. symbols = Seen[1].symbols
  <2> DEFINE k == 1
  <2>1. k \in 1 .. MaxLines + 1
    BY PrepAssumption
  <2>2. Before(Seen, src, start, k) = start
    BY DEF Before
  <2> HIDE DEF k
  <2>3. Seen[k].symbols = Before(Seen, src, start, k)
    BY <1>3, <2>1, SeenAt
  <2> QED
    BY <1>1, <2>2, <2>3 DEF k
<1>7. SurvivorsAsNested
  BY <1>1 DEF SurvivorsAsNested
<1>8. src \in Seq(SrcLines) /\ Len(src) <= MaxLines /\ stack \in Seq(Frames)
      /\ (\E X : out \in Seq(X))
  <2>1. out \in Seq({})
    BY <1>1
  <2> QED
    BY <1>1, <1>2, <2>1, PrepAssumption
<1> QED
  BY <1>2, <1>5, <1>6, <1>7, <1>8 DEF PrepInv

(* What a line that is read brings, with what is shown and known before it.  *)
LEMMA ReadFacts ==
  ASSUME PrepInv, state # "failed", NEW l \in SrcLines, Read(l), UNCHANGED start
  PROVE  /\ Grown(src, src', l, Depth, Depth', Seen, Seen')
         /\ src' \in Seq(SrcLines) /\ Len(src') <= MaxLines /\ Len(src') = Len(src) + 1
         /\ Len(src) \in Nat
         /\ Seen[Len(src) + 1].shown <=> Active
         /\ symbols = Seen[Len(src) + 1].symbols
         /\ Seen'[Len(src') + 1].symbols =
              IF Active /\ l.word = "set" THEN symbols \cup {l.name}
              ELSE IF Active /\ l.word = "unset" THEN symbols \ {l.name} ELSE symbols
<1>0. src \in Seq(SrcLines) /\ Len(src) < MaxLines /\ src' = Append(src, l) /\ Len(src) \in Nat
  BY LenProperties DEF PrepInv, Read
<1>1. /\ DepthSolves(Depth, src) /\ SeenSolves(Seen, Depth, src, start)
      /\ DepthSolves(Depth', src') /\ SeenSolves(Seen', Depth', src', start)
  BY Unfolds
<1>2. Grown(src, src', l, Depth, Depth', Seen, Seen')
  BY <1>0, <1>1, GrownFacts
<1>3. src' \in Seq(SrcLines) /\ Len(src') = Len(src) + 1 /\ Len(src') <= MaxLines
  BY <1>0, AppendProperties, PrepAssumption
<1>4. PICK b : Nest(b, Seen, Depth, src, stack)
  BY DEF PrepInv
<1>5. Seen[Len(src) + 1].shown <=> Active
  <2>1. stack \in Seq(Frames) /\ DOMAIN stack = 1 .. Len(stack) /\ Len(src) <= MaxLines
    BY <1>0, LenProperties DEF PrepInv
  <2>2. Seen[Len(src) + 1].shown <=> \A d \in 1 .. Len(stack) : stack[d].active
    BY <1>0, <1>1, <1>4, <2>1, ShownActive
  <2> QED
    BY <2>1, <2>2 DEF Active
<1>6. symbols = Seen[Len(src) + 1].symbols
  BY DEF PrepInv
<1>7. Seen'[Len(src') + 1].symbols =
        IF Active /\ l.word = "set" THEN symbols \cup {l.name}
        ELSE IF Active /\ l.word = "unset" THEN symbols \ {l.name} ELSE symbols
  <2> DEFINE k == Len(src') + 1
             n == Len(src)
  <2>1. k \in 1 .. MaxLines + 1 /\ k # 1 /\ k - 1 = n + 1
    BY <1>0, <1>3, PrepAssumption
  <2>2. src'[n + 1] = l /\ Seen'[n + 1] = Seen[n + 1]
    BY <1>0, <1>2 DEF Grown
  <2> HIDE DEF k, n
  <2>3. Seen'[k].symbols = Before(Seen', src', start, k)
    BY <1>1, <2>1, SeenAt
  <2>4. Before(Seen', src', start, k) =
          CASE Seen[n + 1].shown /\ l.word = "set"   -> Seen[n + 1].symbols \cup {l.name}
            [] Seen[n + 1].shown /\ l.word = "unset" -> Seen[n + 1].symbols \ {l.name}
            [] OTHER -> Seen[n + 1].symbols
    BY <2>1, <2>2 DEF Before
  <2>5. (Seen[n + 1].shown <=> Active) /\ symbols = Seen[n + 1].symbols
    BY <1>5, <1>6 DEF n
  <2>6. CASE Active /\ l.word = "set"
    BY <2>3, <2>4, <2>5, <2>6 DEF k
  <2>7. CASE Active /\ l.word = "unset"
    BY <2>3, <2>4, <2>5, <2>7 DEF k
  <2>8. CASE ~(Active /\ l.word = "set") /\ ~(Active /\ l.word = "unset")
    BY <2>3, <2>4, <2>5, <2>8 DEF k
  <2> QED
    BY <2>6, <2>7, <2>8
<1> QED
  BY <1>0, <1>2, <1>3, <1>5, <1>6, <1>7

(* The survivors, after a line that is none of them. *)
LEMMA SurvivorsStay ==
  ASSUME PrepInv, state # "failed", NEW l \in SrcLines, Read(l), UNCHANGED <<start, out>>,
         l.word # "text" \/ ~Active
  PROVE  SurvivorsAsNested'
<1>0. /\ Grown(src, src', l, Depth, Depth', Seen, Seen')
      /\ src' \in Seq(SrcLines) /\ Len(src') = Len(src) + 1 /\ Len(src) \in Nat
      /\ Seen[Len(src) + 1].shown <=> Active
  BY ReadFacts
<1>1. DOMAIN src = 1 .. Len(src) /\ DOMAIN src' = 1 .. Len(src) + 1
  BY <1>0, LenProperties DEF PrepInv
<1>2. \A k \in 1 .. Len(src) : src'[k] = src[k] /\ Seen'[k] = Seen[k]
  BY <1>0 DEF Grown
<1>3. src'[Len(src) + 1] = l /\ Seen'[Len(src) + 1] = Seen[Len(src) + 1]
  BY <1>0 DEF Grown
<1>4. \A k : k \in 1 .. Len(src) + 1 <=> k \in 1 .. Len(src) \/ k = Len(src) + 1
  BY <1>0
<1>5. {k \in DOMAIN src' : src'[k].word = "text" /\ Seen'[k].shown}
        = {k \in DOMAIN src : src[k].word = "text" /\ Seen[k].shown}
  <2>1. \A k : k \in DOMAIN src' /\ src'[k].word = "text" /\ Seen'[k].shown
             <=> k \in DOMAIN src /\ src[k].word = "text" /\ Seen[k].shown
    BY <1>0, <1>1, <1>2, <1>3, <1>4
  <2> QED
    BY <2>1
<1>6. {out[i].num : i \in DOMAIN out} = {k \in DOMAIN src : Word(k) = "text" /\ Seen[k].shown}
  BY DEF PrepInv, SurvivorsAsNested
<1> QED
  BY <1>5, <1>6 DEF SurvivorsAsNested, Word

(* The survivors, after one more. *)
LEMMA SurvivorsGrow ==
  ASSUME PrepInv, state # "failed", NEW l \in SrcLines, Read(l), UNCHANGED start,
         l.word = "text", Active, NEW x, x.num = Len(src) + 1, out' = Append(out, x)
  PROVE  SurvivorsAsNested'
<1>0. /\ Grown(src, src', l, Depth, Depth', Seen, Seen')
      /\ src' \in Seq(SrcLines) /\ Len(src') = Len(src) + 1 /\ Len(src) \in Nat
      /\ Seen[Len(src) + 1].shown <=> Active
  BY ReadFacts
<1>1. DOMAIN src = 1 .. Len(src) /\ DOMAIN src' = 1 .. Len(src) + 1
  BY <1>0, LenProperties DEF PrepInv
<1>2. \A k \in 1 .. Len(src) : src'[k] = src[k] /\ Seen'[k] = Seen[k]
  BY <1>0 DEF Grown
<1>3. src'[Len(src) + 1] = l /\ Seen'[Len(src) + 1] = Seen[Len(src) + 1]
  BY <1>0 DEF Grown
<1>4. \A k : k \in 1 .. Len(src) + 1 <=> k \in 1 .. Len(src) \/ k = Len(src) + 1
  BY <1>0
<1>5. {k \in DOMAIN src' : src'[k].word = "text" /\ Seen'[k].shown}
        = {k \in DOMAIN src : src[k].word = "text" /\ Seen[k].shown} \cup {Len(src) + 1}
  <2>1. \A k : k \in DOMAIN src' /\ src'[k].word = "text" /\ Seen'[k].shown
             <=> \/ k \in DOMAIN src /\ src[k].word = "text" /\ Seen[k].shown
                 \/ k = Len(src) + 1
    BY <1>0, <1>1, <1>2, <1>3, <1>4
  <2> QED
    BY <2>1
<1>6. {out[i].num : i \in DOMAIN out} = {k \in DOMAIN src : Word(k) = "text" /\ Seen[k].shown}
  BY DEF PrepInv, SurvivorsAsNested
<1>7. {out'[i].num : i \in DOMAIN out'} = {out[i].num : i \in DOMAIN out} \cup {x.num}
  <2>1. PICK X : out \in Seq(X)
    BY DEF PrepInv
  <2>2. out \in Seq(X \cup {x}) /\ x \in X \cup {x}
    BY <2>1, SeqMonotonic
  <2>3. /\ out' \in Seq(X \cup {x}) /\ Len(out') = Len(out) + 1 /\ Len(out) \in Nat
        /\ out'[Len(out) + 1] = x /\ \A i \in 1 .. Len(out) : out'[i] = out[i]
    BY <2>2, AppendProperties, LenProperties
  <2>4. DOMAIN out = 1 .. Len(out) /\ DOMAIN out' = 1 .. Len(out) + 1
    BY <2>2, <2>3, LenProperties
  <2>5. \A i : i \in 1 .. Len(out) + 1 <=> i \in 1 .. Len(out) \/ i = Len(out) + 1
    BY <2>3
  <2>6. \A v : (\E i \in 1 .. Len(out) + 1 : v = out'[i].num)
                <=> (\E i \in 1 .. Len(out) : v = out[i].num) \/ v = x.num
    BY <2>3, <2>5
  <2> QED
    BY <2>4, <2>6
<1> QED
  BY <1>5, <1>6, <1>7 DEF SurvivorsAsNested, Word

(* The top of the stack (stack.last). *)
LEMMA TopFacts ==
  ASSUME stack \in Seq(Frames)
  PROVE  /\ Len(stack) \in Nat
         /\ stack # <<>> <=> Len(stack) # 0
         /\ stack # <<>> => Top \in Frames /\ Top = stack[Len(stack)]
<1>1. Len(stack) \in Nat /\ (stack = <<>> <=> Len(stack) = 0)
  BY LenProperties, EmptySeq
<1>2. ASSUME stack # <<>> PROVE Top \in Frames
  <2>1. Len(stack) \in 1 .. Len(stack)
    BY <1>1, <1>2
  <2> QED
    BY <2>1, ElementOfSeq DEF Top
<1> QED
  BY <1>1, <1>2 DEF Top

(* A step that fails asks nothing more. *)
LEMMA FailStep ==
  ASSUME PrepInv, NEW l \in SrcLines, Read(l), Fail
  PROVE  PrepInv'
<1>1. src' \in Seq(SrcLines) /\ Len(src') <= MaxLines
  <2>1. src \in Seq(SrcLines) /\ Len(src) < MaxLines /\ src' = Append(src, l) /\ Len(src) \in Nat
    BY LenProperties DEF PrepInv, Read
  <2> QED
    BY <2>1, AppendProperties, PrepAssumption
<1> QED
  BY <1>1 DEF Fail, PrepInv

(* A step that reads a line and does not fail. *)
LEMMA ReadStep ==
  ASSUME PrepInv, state # "failed", NEW l \in SrcLines, Read(l), UNCHANGED start,
         stack' \in Seq(Frames), \E X : out' \in Seq(X),
         \E c : Nest(c, Seen', Depth', src', stack'),
         symbols' = IF Active /\ l.word = "set" THEN symbols \cup {l.name}
                    ELSE IF Active /\ l.word = "unset" THEN symbols \ {l.name} ELSE symbols,
         SurvivorsAsNested'
  PROVE  PrepInv'
<1>1. src' \in Seq(SrcLines) /\ Len(src') <= MaxLines
  BY ReadFacts
<1>2. symbols' = Seen'[Len(src') + 1].symbols
  BY ReadFacts
<1>3. \E b : Nest(b, Seen', Depth', src', stack')
  OBVIOUS
<1> QED
  BY <1>1, <1>2, <1>3 DEF PrepInv

(* Every kind of line keeps the invariant, one step for each arm of preprocess. *)
LEMMA PrepNextInv == PrepInv /\ [PrepNext]_prepVars => PrepInv'
<1> SUFFICES ASSUME PrepInv, [PrepNext]_prepVars PROVE PrepInv'
  OBVIOUS
<1>0. stack \in Seq(Frames) /\ \E X : out \in Seq(X)
  BY DEF PrepInv
<1>s. Len(stack) \in Nat /\ DOMAIN stack = 1 .. Len(stack)
  BY <1>0, LenProperties
<1>n. ASSUME state # "failed" PROVE \E b : Nest(b, Seen, Depth, src, stack)
  BY <1>n DEF PrepInv
<1>g. ASSUME state # "failed", NEW l \in SrcLines, Read(l), UNCHANGED start
      PROVE  /\ Grown(src, src', l, Depth, Depth', Seen, Seen')
             /\ symbols = Seen[Len(src) + 1].symbols /\ Len(src) \in Nat
             /\ src'[Len(src) + 1] = l
  <2>1. Grown(src, src', l, Depth, Depth', Seen, Seen') /\ Len(src) \in Nat
        /\ symbols = Seen[Len(src) + 1].symbols
    BY <1>g, ReadFacts
  <2> QED
    BY <2>1 DEF Grown
<1>1. ASSUME If PROVE PrepInv'
  <2>1. PICK l \in SrcLines :
          /\ l.word = "if" /\ Read(l)
          /\ stack' = Append(stack, [active |-> Active /\ Holds(symbols, l),
                                     taken |-> Active /\ Holds(symbols, l),
                                     parent_active |-> Active])
    BY <1>1 DEF If
  <2>2. state # "failed" /\ UNCHANGED <<symbols, out, start>>
    BY <1>1, <2>1 DEF If, Read
  <2> DEFINE fr == [active |-> Active /\ Holds(symbols, l),
                    taken |-> Active /\ Holds(symbols, l), parent_active |-> Active]
  <2>3. fr \in Frames
    <3>1. Active \in BOOLEAN /\ (Active /\ Holds(symbols, l)) \in BOOLEAN
      BY DEF Active, Holds
    <3> QED
      BY <3>1 DEF Frames
  <2>4. /\ fr.parent_active <=> \A d \in 1 .. Len(stack) : stack[d].active
        /\ fr.active <=> fr.parent_active /\ Holds(symbols, l)
        /\ fr.taken <=> fr.active
    BY <1>s DEF Active
  <2>5. stack' = Append(stack, fr)
    BY <2>1
  <2> HIDE DEF fr
  <2>6. PICK b : Nest(b, Seen, Depth, src, stack)
    BY <1>n, <2>2
  <2>7. /\ Grown(src, src', l, Depth, Depth', Seen, Seen')
        /\ symbols = Seen[Len(src) + 1].symbols
    BY <1>g, <2>1, <2>2
  <2>8. \E c : Nest(c, Seen', Depth', src', stack')
    <3>1. fr.active <=> fr.parent_active /\ Holds(Seen[Len(src) + 1].symbols, l)
      BY <2>4, <2>7
    <3> QED
      BY <1>0, <2>1, <2>3, <2>4, <2>5, <2>6, <2>7, <3>1, NestIf
  <2>9. stack' \in Seq(Frames)
    BY <1>0, <2>3, <2>5, AppendProperties
  <2>10. SurvivorsAsNested'
    BY <2>1, <2>2, SurvivorsStay
  <2> QED
    BY <1>0, <2>1, <2>2, <2>8, <2>9, <2>10, ReadStep
<1>2. ASSUME NEW l \in SrcLines, l.word \in {"elif", "else"}, Read(l), stack # <<>>,
             state # "failed", UNCHANGED <<symbols, out, start>>, NEW fr \in Frames,
             stack' = [stack EXCEPT ![Len(stack)] = fr],
             fr.parent_active <=> Top.parent_active,
             fr.active <=> /\ fr.parent_active /\ ~Top.taken
                           /\ l.word = "else" \/ Holds(symbols, l),
             fr.parent_active => (fr.taken <=> Top.taken \/ l.word = "else" \/ Holds(symbols, l))
      PROVE  PrepInv'
  <2>1. PICK b : Nest(b, Seen, Depth, src, stack)
    BY <1>n, <1>2
  <2>2. /\ Grown(src, src', l, Depth, Depth', Seen, Seen')
        /\ symbols = Seen[Len(src) + 1].symbols /\ src'[Len(src) + 1] = l
    BY <1>g, <1>2
  <2>3. Met(src', Len(src) + 1, Seen[Len(src) + 1].symbols)
          <=> l.word = "else" \/ Holds(symbols, l)
    BY <2>2 DEF Met
  <2>4. Len(stack) # 0 /\ Top = stack[Len(stack)]
    BY <1>0, <1>2, TopFacts
  <2>5. Nest(b, Seen', Depth', src', stack')
    <3>1. /\ fr.parent_active <=> stack[Len(stack)].parent_active
          /\ fr.active <=> /\ fr.parent_active /\ ~stack[Len(stack)].taken
                           /\ Met(src', Len(src) + 1, Seen[Len(src) + 1].symbols)
          /\ fr.parent_active =>
               (fr.taken <=> \/ stack[Len(stack)].taken
                             \/ Met(src', Len(src) + 1, Seen[Len(src) + 1].symbols))
      BY <1>2, <2>3, <2>4
    <3>2. Nest(b, Seen', Depth', src', [stack EXCEPT ![Len(stack)] = fr])
      BY <1>0, <1>2, <2>1, <2>2, <2>4, <3>1, NestElse
    <3> QED
      BY <1>2, <3>2
  <2>6. stack' \in Seq(Frames)
    <3>1. Len(stack) \in 1 .. Len(stack)
      BY <1>s, <2>4
    <3> QED
      BY <1>0, <1>2, <3>1, ExceptSeq
  <2>7. SurvivorsAsNested'
    BY <1>2, SurvivorsStay
  <2> QED
    BY <1>0, <1>2, <2>5, <2>6, <2>7, ReadStep
<1>3. ASSUME Elif PROVE PrepInv'
  <2>1. PICK l \in SrcLines :
          /\ l.word = "elif" /\ Read(l)
          /\ IF stack = <<>> THEN Fail
             ELSE /\ stack' = [stack EXCEPT ![Len(stack)] =
                       [Top EXCEPT !.active = ~Top.taken /\ Top.parent_active /\ Holds(symbols, l),
                                   !.taken = @ \/ (~Top.taken /\ Top.parent_active /\ Holds(symbols, l))]]
                  /\ UNCHANGED <<symbols, defines, out, state, start>>
    BY <1>3 DEF Elif, SetTop
  <2>2. CASE stack = <<>>
    BY <2>1, <2>2, FailStep
  <2>3. CASE stack # <<>>
    <3> DEFINE a == ~Top.taken /\ Top.parent_active /\ Holds(symbols, l)
               fr == [Top EXCEPT !.active = a, !.taken = @ \/ a]
    <3>1. Top \in Frames /\ a \in BOOLEAN
      BY <1>0, <2>3, TopFacts
    <3>2. /\ fr \in Frames /\ fr.parent_active = Top.parent_active
          /\ fr.active = a /\ fr.taken = (Top.taken \/ a)
      <4> HIDE DEF a
      <4> QED
        BY <3>1 DEF Frames
    <3>3. stack' = [stack EXCEPT ![Len(stack)] = fr] /\ UNCHANGED <<symbols, out, start>>
      BY <2>1, <2>3
    <3> HIDE DEF fr
    <3>4. state # "failed"
      BY <2>1 DEF Read
    <3>5. /\ fr.parent_active <=> Top.parent_active
          /\ fr.active <=> /\ fr.parent_active /\ ~Top.taken
                           /\ l.word = "else" \/ Holds(symbols, l)
          /\ fr.parent_active => (fr.taken <=> Top.taken \/ l.word = "else" \/ Holds(symbols, l))
      BY <2>1, <3>2
    <3> QED
      BY <1>2, <2>1, <2>3, <3>2, <3>3, <3>4, <3>5
  <2> QED
    BY <2>2, <2>3
<1>4. ASSUME Else PROVE PrepInv'
  <2>1. PICK l \in SrcLines :
          /\ l.word = "else" /\ Read(l)
          /\ IF stack = <<>> THEN Fail
             ELSE /\ stack' = [stack EXCEPT ![Len(stack)] =
                       [Top EXCEPT !.active = Top.parent_active /\ ~Top.taken, !.taken = TRUE]]
                  /\ UNCHANGED <<symbols, defines, out, state, start>>
    BY <1>4 DEF Else, SetTop
  <2>2. CASE stack = <<>>
    BY <2>1, <2>2, FailStep
  <2>3. CASE stack # <<>>
    <3> DEFINE a == Top.parent_active /\ ~Top.taken
               fr == [Top EXCEPT !.active = a, !.taken = TRUE]
    <3>1. Top \in Frames /\ a \in BOOLEAN
      BY <1>0, <2>3, TopFacts
    <3>2. /\ fr \in Frames /\ fr.parent_active = Top.parent_active
          /\ fr.active = a /\ fr.taken = TRUE
      <4> HIDE DEF a
      <4> QED
        BY <3>1 DEF Frames
    <3>3. stack' = [stack EXCEPT ![Len(stack)] = fr] /\ UNCHANGED <<symbols, out, start>>
      BY <2>1, <2>3
    <3> HIDE DEF fr
    <3>4. state # "failed"
      BY <2>1 DEF Read
    <3>5. /\ fr.parent_active <=> Top.parent_active
          /\ fr.active <=> /\ fr.parent_active /\ ~Top.taken
                           /\ l.word = "else" \/ Holds(symbols, l)
          /\ fr.parent_active => (fr.taken <=> Top.taken \/ l.word = "else" \/ Holds(symbols, l))
      BY <2>1, <3>2
    <3> QED
      BY <1>2, <2>1, <2>3, <3>2, <3>3, <3>4, <3>5
  <2> QED
    BY <2>2, <2>3
<1>5. ASSUME Endif PROVE PrepInv'
  <2>1. PICK l \in SrcLines :
          /\ l.word = "endif" /\ Read(l)
          /\ IF stack = <<>> THEN Fail
             ELSE stack' = Front(stack) /\ UNCHANGED <<symbols, defines, out, state, start>>
    BY <1>5 DEF Endif
  <2>2. CASE stack = <<>>
    BY <2>1, <2>2, FailStep
  <2>3. CASE stack # <<>>
    <3>1. state # "failed" /\ UNCHANGED <<symbols, out, start>> /\ Len(stack) # 0
      BY <1>0, <2>1, <2>3, TopFacts DEF Read
    <3>2. PICK b : Nest(b, Seen, Depth, src, stack)
      BY <1>n, <3>1
    <3>3. Grown(src, src', l, Depth, Depth', Seen, Seen')
      BY <1>g, <2>1, <3>1
    <3>4. \E c : Nest(c, Seen', Depth', src', Front(stack))
      BY <1>0, <2>1, <3>1, <3>2, <3>3, NestEndif
    <3>5. stack' \in Seq(Frames) /\ stack' = Front(stack)
      <4>1. \A i \in 1 .. Len(stack) - 1 : stack[i] \in Frames
        BY <1>0, <1>s, ElementOfSeq
      <4>2. SubSeq(stack, 1, Len(stack) - 1) \in Seq(Frames)
        BY <1>s, <4>1, SubSeqProperties
      <4> QED
        BY <2>1, <2>3, <4>2 DEF Front
    <3>6. SurvivorsAsNested'
      BY <2>1, <3>1, SurvivorsStay
    <3> QED
      BY <1>0, <2>1, <3>1, <3>4, <3>5, <3>6, ReadStep
  <2> QED
    BY <2>2, <2>3
<1>6. ASSUME NEW l \in SrcLines, Read(l), l.word \in {"set", "unset", "define", "text"},
             UNCHANGED <<stack, start>>, \E X : out' \in Seq(X), SurvivorsAsNested',
             symbols' = IF Active /\ l.word = "set" THEN symbols \cup {l.name}
                        ELSE IF Active /\ l.word = "unset" THEN symbols \ {l.name} ELSE symbols
      PROVE  PrepInv'
  <2>1. state # "failed"
    BY <1>6 DEF Read
  <2>2. PICK b : Nest(b, Seen, Depth, src, stack)
    BY <1>n, <2>1
  <2>3. Grown(src, src', l, Depth, Depth', Seen, Seen')
    BY <1>g, <1>6, <2>1
  <2>4. l.word \notin {"if", "elif", "else", "endif"}
    BY <1>6
  <2>5. Nest(b, Seen', Depth', src', stack)
    BY <1>0, <2>2, <2>3, <2>4, NestKept
  <2>6. stack' = stack /\ start' = start
    BY <1>6
  <2>7. \E c : Nest(c, Seen', Depth', src', stack')
    BY <2>5, <2>6
  <2> QED
    BY <1>0, <1>6, <2>1, <2>6, <2>7, ReadStep
<1>7. ASSUME SetSymbol PROVE PrepInv'
  <2>1. PICK l \in SrcLines :
          /\ l.word \in {"set", "unset"} /\ Read(l)
          /\ symbols' = IF ~Active THEN symbols
                        ELSE IF l.word = "set" THEN symbols \cup {l.name} ELSE symbols \ {l.name}
    BY <1>7 DEF SetSymbol
  <2>2. UNCHANGED <<stack, out, start>> /\ state # "failed"
    BY <1>7, <2>1 DEF SetSymbol, Read
  <2>3. SurvivorsAsNested'
    BY <2>1, <2>2, SurvivorsStay
  <2>4. symbols' = IF Active /\ l.word = "set" THEN symbols \cup {l.name}
                   ELSE IF Active /\ l.word = "unset" THEN symbols \ {l.name} ELSE symbols
    BY <2>1
  <2> QED
    BY <1>0, <1>6, <2>1, <2>2, <2>3, <2>4
<1>8. ASSUME Define PROVE PrepInv'
  <2>1. PICK l \in SrcLines :
          /\ l.word = "define" /\ Read(l)
          /\ IF Active /\ Expand(l.text, defines) = Undefined THEN Fail
             ELSE UNCHANGED <<symbols, stack, out, state, start>>
    BY <1>8 DEF Define
  <2>2. CASE Fail
    BY <2>1, <2>2, FailStep
  <2>3. CASE UNCHANGED <<symbols, stack, out, state, start>>
    <3>1. state # "failed"
      BY <2>1 DEF Read
    <3>2. SurvivorsAsNested'
      BY <2>1, <2>3, <3>1, SurvivorsStay
    <3> QED
      BY <1>0, <1>6, <2>1, <2>3, <3>2
  <2> QED
    BY <2>1, <2>2, <2>3
<1>9. ASSUME Text PROVE PrepInv'
  <2>1. PICK l \in SrcLines :
          /\ l.word = "text" /\ Read(l)
          /\ IF Active /\ Expand(l.text, defines) = Undefined THEN Fail
             ELSE /\ out' = IF Active THEN Append(out, [num |-> Len(src) + 1,
                                                        text |-> Expand(l.text, defines)])
                            ELSE out
                  /\ UNCHANGED <<symbols, defines, stack, state, start>>
    BY <1>9 DEF Text
  <2>0. state # "failed"
    BY <2>1 DEF Read
  <2>2. CASE Fail
    BY <2>1, <2>2, FailStep
  <2>3. CASE ~Fail
    <3> DEFINE x == [num |-> Len(src) + 1, text |-> Expand(l.text, defines)]
    <3>1. out' = (IF Active THEN Append(out, x) ELSE out) /\ x.num = Len(src) + 1
          /\ UNCHANGED <<symbols, stack, state, start>>
      BY <2>1, <2>3
    <3> HIDE DEF x
    <3>2. SurvivorsAsNested' /\ \E X : out' \in Seq(X)
      <4>1. CASE Active
        <5>1. out' = Append(out, x)
          BY <3>1, <4>1
        <5>2. PICK X : out \in Seq(X)
          BY <1>0
        <5>3. out \in Seq(X \cup {x})
          BY <5>2, SeqMonotonic
        <5>4. out' \in Seq(X \cup {x})
          BY <5>1, <5>3, AppendProperties
        <5>5. SurvivorsAsNested'
          BY <2>0, <2>1, <3>1, <4>1, <5>1, SurvivorsGrow
        <5> QED
          BY <5>4, <5>5
      <4>2. CASE ~Active
        <5>1. out' = out
          BY <3>1, <4>2
        <5>2. SurvivorsAsNested'
          BY <2>0, <2>1, <3>1, <4>2, <5>1, SurvivorsStay
        <5> QED
          BY <1>0, <5>1, <5>2
      <4> QED
        BY <4>1, <4>2
    <3> QED
      BY <1>6, <2>1, <3>1, <3>2
  <2> QED
    BY <2>2, <2>3
<1>10. ASSUME EndOfFile \/ UNCHANGED prepVars PROVE PrepInv'
  <2>1. UNCHANGED <<src, symbols, stack, out, start>> /\ (state' # "failed" => state # "failed")
    BY <1>10 DEF EndOfFile, prepVars
  <2>2. Depth' = Depth
    BY <2>1, DepthIs, DepthIsNext
  <2>3. Seen' = Seen
    BY <2>1, <2>2, SeenIs, SeenIsNext
  <2> QED
    BY <2>1, <2>2, <2>3 DEF PrepInv, SurvivorsAsNested, Word
<1> QED
  BY <1>1, <1>3, <1>4, <1>5, <1>7, <1>8, <1>9, <1>10 DEF PrepNext

(* preprocess keeps exactly the lines whose branch, in every block around    *)
(* them, is the first whose condition held, whatever the file, its nesting   *)
(* and the symbols it sets and unsets on the way.                            *)
THEOREM SurvivorsAsNestedHolds ==
  PrepInit /\ [][PrepNext]_prepVars => []SurvivorsAsNested
<1>1. PrepInit => PrepInv
  BY PrepInitInv
<1>2. PrepInv /\ [PrepNext]_prepVars => PrepInv'
  BY PrepNextInv
<1>3. PrepInv => SurvivorsAsNested
  BY DEF PrepInv, SurvivorsAsNested
<1> QED
  BY <1>1, <1>2, <1>3, PTL

-----------------------------------------------------------------------------
(* Commands: a template of any number of pieces is sent as it was written.  *)

-----------------------------------------------------------------------------
(* Commands: the texts of the pieces, one after the other.                 *)

JoinBody(f, ss, i) == IF i = 1 THEN ss[i] ELSE f[i - 1] \o ss[i]
JoinSolves(f, ss) == f = [i \in 1 .. Len(ss) |-> JoinBody(f, ss, i)]

(* FlattenSeq is the last value of a solution of its equation. *)
LEMMA JoinIs ==
  ASSUME NEW ss, Len(ss) # 0
  PROVE  FlattenSeq(ss) = (CHOOSE f : JoinSolves(f, ss))[Len(ss)]
BY DEF FlattenSeq, JoinSolves, JoinBody

(* Its equation has a solution. *)
LEMMA JoinExists ==
  ASSUME NEW ss, Len(ss) \in Nat
  PROVE  \E f : JoinSolves(f, ss)
<1> DEFINE Level(f, n) == f = [i \in 1 .. n |-> JoinBody(f, ss, i)]
           T == {n \in Nat : ~\E f : Level(f, n)}
<1>1. T = {}
  <2> SUFFICES ASSUME T # {} PROVE FALSE
    OBVIOUS
  <2>1. PICK n \in T : \A y \in T : n <= y
    <3>1. T \in SUBSET Nat
      OBVIOUS
    <3> HIDE DEF T
    <3> QED
      BY <3>1, LeastNat
  <2>2. n # 0
    <3> SUFFICES ASSUME n = 0 PROVE FALSE
      OBVIOUS
    <3> DEFINE f == [i \in 1 .. 0 |-> 0]
    <3>1. f = [i \in 1 .. 0 |-> JoinBody(f, ss, i)]
      OBVIOUS
    <3> QED
      BY <3>1
  <2>3. PICK f : Level(f, n - 1)
    BY <2>1, <2>2
  <2> DEFINE g == [i \in 1 .. n |-> JoinBody(f, ss, i)]
  <2>4. ASSUME NEW i \in 1 .. n - 1 PROVE f[i] = g[i]
    <3>1. i \in 1 .. n
      BY <2>1
    <3>2. f[i] = JoinBody(f, ss, i)
      BY <2>3
    <3> QED
      BY <3>1, <3>2
  <2>5. ASSUME NEW i \in 1 .. n PROVE JoinBody(f, ss, i) = JoinBody(g, ss, i)
    <3>1. CASE i = 1
      BY <3>1 DEF JoinBody
    <3>2. CASE i # 1
      <4>1. i - 1 \in 1 .. n - 1
        BY <2>1, <3>2
      <4>2. f[i - 1] = g[i - 1]
        BY <2>4, <4>1
      <4> HIDE DEF g
      <4> QED
        BY <4>2 DEF JoinBody
    <3> QED
      BY <3>1, <3>2
  <2>6. g = [i \in 1 .. n |-> JoinBody(g, ss, i)]
    <3>1. \A i \in 1 .. n : g[i] = JoinBody(g, ss, i)
      BY <2>5
    <3>2. g = [i \in 1 .. n |-> g[i]]
      OBVIOUS
    <3> HIDE DEF g
    <3> QED
      BY <3>1, <3>2
  <2>7. Level(g, n)
    BY <2>6
  <2> QED
    BY <2>7
<1>2. PICK f : Level(f, Len(ss))
  BY <1>1
<1> QED
  BY <1>2 DEF JoinSolves

(* off[k] characters come before text k + 1. *)
Joined(t, off, ss) ==
  /\ off[0] = 0
  /\ \A k \in 0 .. Len(ss) : off[k] \in Nat
  /\ \A k \in 1 .. Len(ss) : off[k] = off[k - 1] + Len(ss[k])
  /\ Len(t) = off[Len(ss)]
  /\ \A k \in 1 .. Len(ss) : \A j \in 1 .. Len(ss[k]) : t[off[k - 1] + j] = ss[k][j]

(* The first m texts, joined. *)
JoinedUpTo(f, off, ss, X, m) ==
  /\ f[m] \in Seq(X) /\ off[m] = Len(f[m]) /\ off[m] = off[m - 1] + Len(ss[m])
  /\ \A k \in 1 .. m : \A j \in 1 .. Len(ss[k]) :
       off[k - 1] + j <= off[m] /\ f[m][off[k - 1] + j] = ss[k][j]

(* One more text: the texts before it keep their places. *)
Longer(f, off, ss, X, m, a, b, w) ==
  /\ m \in Nat /\ m > 1 /\ JoinedUpTo(f, off, ss, X, m - 1) /\ a \in Nat /\ b \in Nat
  /\ off[m - 1] = a /\ off[m] = a + b /\ Len(ss[m]) = b
  /\ f[m] = w /\ w \in Seq(X) /\ Len(w) = a + b
  /\ \A i \in 1 .. a : w[i] = f[m - 1][i]
  /\ \A i \in 1 .. b : w[a + i] = ss[m][i]
  /\ \A k \in 0 .. m - 1 : off[k] \in Nat
  /\ \A k \in 1 .. m : Len(ss[k]) \in Nat

LEMMA JoinLonger ==
  \A f, off, ss, X, m, a, b, w : Longer(f, off, ss, X, m, a, b, w) => JoinedUpTo(f, off, ss, X, m)
<1> SUFFICES ASSUME NEW f, NEW off, NEW ss, NEW X, NEW m, NEW a, NEW b, NEW w,
                    Longer(f, off, ss, X, m, a, b, w)
             PROVE  JoinedUpTo(f, off, ss, X, m)
  OBVIOUS
<1>0. /\ m \in Nat /\ m > 1 /\ JoinedUpTo(f, off, ss, X, m - 1) /\ a \in Nat /\ b \in Nat
      /\ off[m - 1] = a /\ off[m] = a + b /\ Len(ss[m]) = b
      /\ f[m] = w /\ w \in Seq(X) /\ Len(w) = a + b
      /\ \A i \in 1 .. a : w[i] = f[m - 1][i]
      /\ \A i \in 1 .. b : w[a + i] = ss[m][i]
      /\ \A k \in 0 .. m - 1 : off[k] \in Nat
      /\ \A k \in 1 .. m : Len(ss[k]) \in Nat
  BY DEF Longer
<1>1. ASSUME NEW k \in 1 .. m, NEW j \in 1 .. Len(ss[k])
      PROVE  off[k - 1] + j <= off[m] /\ w[off[k - 1] + j] = ss[k][j]
  <2>0. off[k - 1] \in Nat /\ j \in Nat /\ 1 <= j
    BY <1>0, <1>1
  <2>1. CASE k = m
    <3>1. off[k - 1] = a /\ ss[k] = ss[m] /\ j \in 1 .. b
      BY <1>0, <2>1
    <3>2. w[a + j] = ss[m][j]
      BY <1>0, <3>1
    <3> QED
      BY <1>0, <3>1, <3>2
  <2>2. CASE k # m
    <3>1. k \in 1 .. m - 1
      BY <1>0, <2>2
    <3>2. off[k - 1] + j <= a /\ f[m - 1][off[k - 1] + j] = ss[k][j]
      BY <1>0, <3>1 DEF JoinedUpTo
    <3>3. off[k - 1] + j \in 1 .. a
      BY <1>0, <2>0, <3>2
    <3>4. w[off[k - 1] + j] = f[m - 1][off[k - 1] + j]
      BY <1>0, <3>3
    <3>5. off[k - 1] + j <= a + b
      BY <1>0, <2>0, <3>2
    <3> QED
      BY <1>0, <3>2, <3>4, <3>5
  <2> QED
    BY <2>1, <2>2
<1> QED
  BY <1>0, <1>1 DEF JoinedUpTo

(* The joined texts up to the m-th, from those before it. *)
LEMMA JoinStep ==
  ASSUME NEW f, NEW off, NEW ss, NEW X, NEW m \in Nat, m > 1,
         JoinedUpTo(f, off, ss, X, m - 1), f[m] = f[m - 1] \o ss[m], ss[m] \in Seq(X),
         off[m] = Len(f[m]), \A k \in 0 .. m - 1 : off[k] \in Nat,
         \A k \in 1 .. m : Len(ss[k]) \in Nat
  PROVE  JoinedUpTo(f, off, ss, X, m)
<1> DEFINE u == f[m - 1]
           v == ss[m]
           w == f[m]
<1>1. u \in Seq(X) /\ v \in Seq(X) /\ off[m - 1] = Len(u) /\ w = u \o v /\ off[m] = Len(w)
  BY DEF JoinedUpTo
<1> HIDE DEF u, v, w
<1>2. w \in Seq(X) /\ Len(w) = Len(u) + Len(v) /\ Len(u) \in Nat /\ Len(v) \in Nat
  BY <1>1, ConcatProperties, LenProperties
<1>3. \A i \in 1 .. Len(u) + Len(v) : w[i] = IF i <= Len(u) THEN u[i] ELSE v[i - Len(u)]
  BY <1>1, ConcatProperties
<1>4. \A i \in 1 .. Len(u) : w[i] = u[i]
  BY <1>2, <1>3
<1>5. ASSUME NEW i \in 1 .. Len(v) PROVE w[Len(u) + i] = v[i]
  <2> DEFINE n == Len(u) + i
  <2>1. n \in 1 .. Len(u) + Len(v) /\ ~(n <= Len(u)) /\ n - Len(u) = i
    BY <1>2
  <2> HIDE DEF n
  <2>2. w[n] = v[n - Len(u)]
    BY <1>3, <2>1
  <2>3. w[n] = v[i]
    BY <2>1, <2>2
  <2> QED
    BY <2>3 DEF n
<1>6. u = f[m - 1] /\ v = ss[m] /\ w = f[m]
  BY DEF u, v, w
<1>7. off[m] = Len(u) + Len(v)
  BY <1>1, <1>2
<1> DEFINE a == Len(u)
           b == Len(v)
<1>8. /\ a \in Nat /\ b \in Nat /\ off[m - 1] = a /\ off[m] = a + b /\ Len(ss[m]) = b /\ f[m] = w
      /\ w \in Seq(X) /\ Len(w) = a + b /\ (\A i \in 1 .. a : w[i] = f[m - 1][i])
      /\ \A i \in 1 .. b : w[a + i] = ss[m][i]
  BY <1>1, <1>2, <1>4, <1>5, <1>6, <1>7
<1> HIDE DEF a, b
<1>9. Longer(f, off, ss, X, m, a, b, w)
  BY <1>8 DEF Longer
<1> QED
  BY <1>9, JoinLonger

(* Every text stands in the joined text, at the sum of the lengths before it. *)
LEMMA JoinedTo ==
  ASSUME NEW X, NEW ss, NEW n \in Nat \ {0}, Len(ss) = n, \A k \in 1 .. n : ss[k] \in Seq(X)
  PROVE  FlattenSeq(ss) \in Seq(X) /\ \E off : Joined(FlattenSeq(ss), off, ss)
<1>0. \A k \in 1 .. n : Len(ss[k]) \in Nat
  BY LenProperties
<1> DEFINE f == CHOOSE f : JoinSolves(f, ss)
<1>1. JoinSolves(f, ss)
  BY JoinExists
<1>2. FlattenSeq(ss) = f[n]
  BY JoinIs
<1> HIDE DEF f
<1>3. \A k \in 1 .. n : f[k] = JoinBody(f, ss, k)
  BY <1>1 DEF JoinSolves
<1>4. f[1] = ss[1] /\ \A k \in 2 .. n : f[k] = f[k - 1] \o ss[k]
  <2>1. f[1] = ss[1]
    BY <1>3 DEF JoinBody
  <2>2. ASSUME NEW k \in 2 .. n PROVE f[k] = f[k - 1] \o ss[k]
    <3>1. k \in 1 .. n /\ k # 1
      OBVIOUS
    <3>2. f[k] = JoinBody(f, ss, k)
      BY <1>3, <3>1
    <3> QED
      BY <3>1, <3>2, Zenon DEF JoinBody
  <2> QED
    BY <2>1, <2>2
<1> DEFINE off == [k \in 0 .. n |-> IF k = 0 THEN 0 ELSE Len(f[k])]
           T == {m \in Nat : m \in 1 .. n /\ ~JoinedUpTo(f, off, ss, X, m)}
<1>5. off[0] = 0 /\ \A k \in 1 .. n : off[k] = Len(f[k])
  OBVIOUS
<1> HIDE DEF off
<1>6. T = {}
  <2> SUFFICES ASSUME T # {} PROVE FALSE
    OBVIOUS
  <2>1. PICK m \in T : \A y \in T : m <= y
    <3>1. T \in SUBSET Nat
      OBVIOUS
    <3> HIDE DEF T
    <3> QED
      BY <3>1, LeastNat
  <2>2. m \in 1 .. n /\ m \in Nat /\ ~JoinedUpTo(f, off, ss, X, m)
    OBVIOUS
  <2>3. \A k \in 1 .. m - 1 : JoinedUpTo(f, off, ss, X, k)
    BY <2>1
  <2>4. \A k \in 0 .. m - 1 : off[k] \in Nat
    <3>1. \A k \in 1 .. m - 1 : f[k] \in Seq(X) /\ off[k] = Len(f[k])
      BY <2>3 DEF JoinedUpTo
    <3>2. \A k \in 1 .. m - 1 : off[k] \in Nat
      BY <3>1, LenProperties
    <3> QED
      BY <1>5, <3>2
  <2> HIDE DEF T
  <2>5. CASE m = 1
    <3>1. f[1] \in Seq(X) /\ off[1] = Len(ss[1]) /\ Len(ss[1]) \in Nat
      BY <1>0, <1>4, <1>5
    <3> QED
      BY <1>4, <1>5, <2>2, <2>5, <3>1 DEF JoinedUpTo
  <2>6. CASE m # 1
    <3>1. m > 1 /\ m - 1 \in 1 .. m - 1 /\ m \in 2 .. n
      BY <2>2, <2>6
    <3>2. JoinedUpTo(f, off, ss, X, m - 1)
      BY <2>3, <3>1
    <3>3. f[m] = f[m - 1] \o ss[m] /\ off[m] = Len(f[m]) /\ ss[m] \in Seq(X)
      BY <1>4, <1>5, <2>2, <3>1
    <3>4. \A k \in 1 .. m : Len(ss[k]) \in Nat
      BY <1>0, <2>2
    <3> QED
      BY <2>2, <2>4, <3>1, <3>2, <3>3, <3>4, JoinStep
  <2> QED
    BY <2>5, <2>6
<1>7. \A m \in 1 .. n : JoinedUpTo(f, off, ss, X, m)
  BY <1>6
<1>8. \A m \in 1 .. n : f[m] \in Seq(X) /\ off[m] = Len(f[m]) /\ off[m] = off[m - 1] + Len(ss[m])
  BY <1>7 DEF JoinedUpTo
<1>9. \A k \in 0 .. n : off[k] \in Nat
  <2>1. \A k \in 1 .. n : off[k] \in Nat
    BY <1>8, LenProperties
  <2> QED
    BY <1>5, <2>1
<1>10. \A k \in 1 .. n : \A j \in 1 .. Len(ss[k]) : f[n][off[k - 1] + j] = ss[k][j]
  BY <1>7 DEF JoinedUpTo
<1>11. Joined(FlattenSeq(ss), off, ss)
  BY <1>2, <1>5, <1>8, <1>9, <1>10 DEF Joined
<1> QED
  BY <1>2, <1>8, <1>11

(* The end of a name is the first character that cannot belong to it. *)
Ends(t, i, j) ==
  /\ j \in i .. Len(t) + 1
  /\ \A k \in i .. j - 1 : t[k] \in NameChars
  /\ j = Len(t) + 1 \/ t[j] \notin NameChars

(* NameEnd is the one place where a name ends. *)
LEMMA NameEndFacts ==
  ASSUME NEW t, Len(t) \in Nat, NEW i \in 1 .. Len(t) + 1
  PROVE  Ends(t, i, NameEnd(t, i)) /\ \A j : Ends(t, i, j) => j = NameEnd(t, i)
<1> DEFINE T == {j \in Nat : j \in i .. Len(t) + 1 /\ (j = Len(t) + 1 \/ t[j] \notin NameChars)}
<1>1. PICK j \in T : \A y \in T : j <= y
  <2>1. T \in SUBSET Nat /\ Len(t) + 1 \in T
    OBVIOUS
  <2> HIDE DEF T
  <2> QED
    BY <2>1, LeastNat
<1>2. ASSUME NEW k \in i .. j - 1 PROVE t[k] \in NameChars
  <2>1. k \in Nat /\ k \in i .. Len(t) + 1 /\ k # Len(t) + 1 /\ ~(j <= k)
    OBVIOUS
  <2>2. k \notin T
    BY <1>1, <2>1
  <2> QED
    BY <2>1, <2>2
<1>3. Ends(t, i, j)
  BY <1>2 DEF Ends
<1>4. Ends(t, i, NameEnd(t, i))
  BY <1>3 DEF NameEnd, Ends
<1>5. ASSUME NEW a, NEW b, Ends(t, i, a), Ends(t, i, b), a < b PROVE FALSE
  <2>1. a \in i .. b - 1 /\ a # Len(t) + 1
    BY <1>5 DEF Ends
  <2> QED
    BY <1>5, <2>1 DEF Ends
<1>6. \A a, b : Ends(t, i, a) /\ Ends(t, i, b) => a = b
  <2> SUFFICES ASSUME NEW a, NEW b, Ends(t, i, a), Ends(t, i, b) PROVE a = b
    OBVIOUS
  <2>1. a \in Int /\ b \in Int
    BY DEF Ends
  <2>2. ~(a < b) /\ ~(b < a)
    BY <1>5
  <2> QED
    BY <2>1, <2>2
<1> QED
  BY <1>4, <1>6

(* What parse finds at character i, from what it finds behind it. *)
ParseBody(f, t, i) ==
  CASE i > Len(t) -> <<>>
    [] i <= Len(t) /\ t[i] = "\\" ->
         IF i = Len(t) THEN Bad
         ELSE CASE t[i + 1] = "x" ->
                     IF i + 3 > Len(t) THEN Bad
                     ELSE IF {t[i + 2], t[i + 3]} \subseteq DOMAIN Hex
                     THEN Then(<<"literal", 16 * Hex[t[i + 2]] + Hex[t[i + 3]]>>, f[i + 4])
                     ELSE Bad
                [] t[i + 1] = "$" ->
                     Then(<<"var", SubSeq(t, i + 2, NameEnd(t, i + 2) - 1)>>, f[NameEnd(t, i + 2)])
                [] OTHER -> Then(<<"literal", ByteOf(t[i + 1])>>, f[i + 2])
    [] i <= Len(t) /\ t[i] = "%" ->
         LET s == Spec2(t, i)
         IN CASE Len(s) >= 1 /\ s[1] = "v" -> Then(<<"value">>, f[AfterValue(i)])
              [] s = <<"2", "i">> -> Then(<<"page_id">>, f[i + 3])
              [] s = <<"2", "o">> -> Then(<<"offset">>, f[i + 3])
              [] s = <<"2", "c">> -> Then(<<"count">>, f[i + 3])
              [] OTHER -> Bad
    [] OTHER -> Then(<<"literal", ByteOf(t[i])>>, f[i + 1])
ParseSolves(f, t) == f = [i \in 1 .. Len(t) + 4 |-> ParseBody(f, t, i)]

(* parse_template is the first value of a solution of its equation. *)
LEMMA ParseIs ==
  \A t : parse_template(t) = (CHOOSE f : ParseSolves(f, t))[1]
BY DEF parse_template, ParseSolves, ParseBody

SameAfter(f, g, t, i) == \A j \in i + 1 .. Len(t) + 4 : f[j] = g[j]

(* What parse finds at a place depends on the places after it only. *)
LEMMA ParseLater ==
  ASSUME NEW f, NEW g, NEW t, Len(t) \in Nat, NEW i \in 1 .. Len(t) + 4, SameAfter(f, g, t, i)
  PROVE  ParseBody(f, t, i) = ParseBody(g, t, i)
<1>0. \A j \in i + 1 .. Len(t) + 4 : f[j] = g[j]
  BY DEF SameAfter
<1>1. CASE i > Len(t)
  BY <1>1 DEF ParseBody
<1>2. CASE i <= Len(t)
  <2>1. f[i + 1] = g[i + 1] /\ f[i + 2] = g[i + 2] /\ f[i + 3] = g[i + 3] /\ f[i + 4] = g[i + 4]
    BY <1>0, <1>2
  <2>2. f[AfterValue(i)] = g[AfterValue(i)]
    BY <2>1 DEF AfterValue
  <2>3. i # Len(t) => f[NameEnd(t, i + 2)] = g[NameEnd(t, i + 2)]
    <3> SUFFICES ASSUME i # Len(t) PROVE f[NameEnd(t, i + 2)] = g[NameEnd(t, i + 2)]
      OBVIOUS
    <3>1. i + 2 \in 1 .. Len(t) + 1
      BY <1>2
    <3>2. NameEnd(t, i + 2) \in i + 2 .. Len(t) + 1
      BY <3>1, NameEndFacts DEF Ends
    <3>3. NameEnd(t, i + 2) \in i + 1 .. Len(t) + 4
      BY <3>2
    <3> QED
      BY <1>0, <3>3
  <2> QED
    BY <2>1, <2>2, <2>3, Zenon DEF ParseBody
<1> QED
  BY <1>1, <1>2

(* Its equation has a solution, found from the back. *)
LEMMA ParseExists ==
  ASSUME NEW t, Len(t) \in Nat
  PROVE  \E f : ParseSolves(f, t)
<1> DEFINE N == Len(t) + 4
           Level(f, n) == f = [i \in N - n + 1 .. N |-> ParseBody(f, t, i)]
           T == {n \in Nat : n <= N /\ ~\E f : Level(f, n)}
<1>0. N \in Nat /\ N = Len(t) + 4
  OBVIOUS
<1> HIDE DEF N
<1>1. T = {}
  <2> SUFFICES ASSUME T # {} PROVE FALSE
    OBVIOUS
  <2>1. PICK n \in T : \A y \in T : n <= y
    <3>1. T \in SUBSET Nat
      OBVIOUS
    <3> HIDE DEF T
    <3> QED
      BY <3>1, LeastNat
  <2>n. n \in Nat /\ n <= N
    OBVIOUS
  <2>2. n # 0
    <3> SUFFICES ASSUME n = 0 PROVE FALSE
      OBVIOUS
    <3> DEFINE f == [i \in N + 1 .. N |-> 0]
    <3>1. f = [i \in N - 0 + 1 .. N |-> ParseBody(f, t, i)]
      BY <1>0
    <3> QED
      BY <3>1
  <2>3. PICK f : Level(f, n - 1)
    <3>1. n - 1 \in Nat /\ n - 1 <= N /\ ~(n <= n - 1)
      BY <1>0, <2>n, <2>2
    <3>2. n - 1 \notin T
      BY <2>1, <3>1, Zenon
    <3> QED
      BY <3>1, <3>2
  <2> DEFINE g == [i \in N - n + 1 .. N |-> ParseBody(f, t, i)]
  <2>4. ASSUME NEW i \in N - n + 2 .. N PROVE f[i] = g[i]
    <3>1. i \in N - n + 1 .. N /\ i \in N - (n - 1) + 1 .. N
      BY <1>0, <2>n
    <3>2. f[i] = ParseBody(f, t, i)
      BY <2>3, <3>1
    <3> QED
      BY <3>1, <3>2
  <2>5. ASSUME NEW i \in N - n + 1 .. N PROVE ParseBody(f, t, i) = ParseBody(g, t, i)
    <3>1. i \in 1 .. Len(t) + 4
      BY <1>0, <2>n
    <3>2. \A j \in i + 1 .. Len(t) + 4 : j \in N - n + 2 .. N
      BY <1>0, <2>n
    <3>3. \A j \in i + 1 .. Len(t) + 4 : f[j] = g[j]
      BY <2>4, <3>2
    <3> HIDE DEF g
    <3>4. SameAfter(f, g, t, i)
      BY <3>3 DEF SameAfter
    <3> QED
      BY <3>1, <3>4, ParseLater
  <2>6. g = [i \in N - n + 1 .. N |-> ParseBody(g, t, i)]
    <3>1. \A i \in N - n + 1 .. N : g[i] = ParseBody(g, t, i)
      BY <2>5
    <3>2. g = [i \in N - n + 1 .. N |-> g[i]]
      OBVIOUS
    <3> HIDE DEF g
    <3> QED
      BY <3>1, <3>2
  <2>7. Level(g, n)
    BY <2>6
  <2> QED
    BY <2>7
<1>2. PICK f : Level(f, N)
  BY <1>0, <1>1
<1>3. f = [i \in 1 .. Len(t) + 4 |-> ParseBody(f, t, i)]
  <2>1. N - N + 1 .. N = 1 .. Len(t) + 4
    BY <1>0
  <2> QED
    BY <1>2, <2>1
<1> QED
  BY <1>3 DEF ParseSolves

-----------------------------------------------------------------------------
(* Pieces. *)
PartOf(p) ==
  IF p.text[1] = "\\" /\ p.text[2] = "$" THEN <<"var", CanIdName>>
  ELSE IF p.text = <<"%", "2", "i">> THEN <<"page_id">>
  ELSE IF p.text = <<"%", "2", "o">> THEN <<"offset">>
  ELSE IF p.text = <<"%", "2", "c">> THEN <<"count">>
  ELSE IF p.text = <<"%", "v">> THEN <<"value">>
  ELSE <<"literal", p.bytes[1]>>

ALetter(p) == \E c \in DOMAIN Letters : p = Piece(<<c>>, <<Letters[c]>>)
AHex(p) == \E h, l \in DOMAIN Hex : p = Piece(<<"\\", "x", h, l>>, <<16 * Hex[h] + Hex[l]>>)
AName(p) == p = Piece(<<"\\", "$">> \o CanIdName, <<Given.can_id>>)
AnArg(p) ==
  \/ p = Piece(<<"%", "2", "i">>, Arg("page_id")) \/ p = Piece(<<"%", "2", "o">>, Arg("offset"))
  \/ p = Piece(<<"%", "2", "c">>, Arg("count")) \/ p = Piece(<<"%", "v">>, Arg("value"))

(* A piece is a letter, a hex escape, a CAN name or an argument. *)
LEMMA PieceKinds ==
  ASSUME NEW p \in PieceSet
  PROVE  ALetter(p) \/ AHex(p) \/ AName(p) \/ AnArg(p)
<1> DEFINE L == {Piece(<<c>>, <<Letters[c]>>) : c \in DOMAIN Letters}
           H == {Piece(<<"\\", "x", d[1], d[2]>>, <<16 * Hex[d[1]] + Hex[d[2]]>>) :
                   d \in (DOMAIN Hex) \X (DOMAIN Hex)}
           A == {Piece(<<"\\", "$">> \o CanIdName, <<Given.can_id>>),
                 Piece(<<"%", "2", "i">>, Arg("page_id")), Piece(<<"%", "2", "o">>, Arg("offset")),
                 Piece(<<"%", "2", "c">>, Arg("count")), Piece(<<"%", "v">>, Arg("value"))}
<1>1. PieceSet = L \cup H \cup A
  BY Zenon DEF PieceSet
<1>2. p \in L => ALetter(p)
  BY Zenon DEF ALetter
<1>3. p \in H => AHex(p)
  <2> SUFFICES ASSUME p \in H PROVE AHex(p)
    OBVIOUS
  <2>1. PICK d \in (DOMAIN Hex) \X (DOMAIN Hex) :
          p = Piece(<<"\\", "x", d[1], d[2]>>, <<16 * Hex[d[1]] + Hex[d[2]]>>)
    OBVIOUS
  <2>2. d[1] \in DOMAIN Hex /\ d[2] \in DOMAIN Hex
    OBVIOUS
  <2> QED
    BY <2>1, <2>2, Zenon DEF AHex
<1>4. p \in A => AName(p) \/ AnArg(p)
  BY Zenon DEF AName, AnArg
<1> HIDE DEF L, H, A
<1> QED
  BY <1>1, <1>2, <1>3, <1>4

(* parse finds piece p at character i of t. *)
Stands(t, i, p) ==
  /\ i \in Nat \ {0} /\ i + Len(p.text) - 1 <= Len(t)
  /\ \A j \in 1 .. Len(p.text) : t[i + j - 1] = p.text[j]

(* The parser at a letter. *)
LEMMA ParseLetter ==
  ASSUME NEW f, NEW t, Len(t) \in Nat, NEW p, ALetter(p), NEW i, Stands(t, i, p)
  PROVE  ParseBody(f, t, i) = Then(PartOf(p), f[i + 1]) /\ Len(p.text) = 1
<1>1. PICK c \in DOMAIN Letters : p = Piece(<<c>>, <<Letters[c]>>)
  BY DEF ALetter
<1>2. p.text = <<c>> /\ p.bytes = <<Letters[c]>>
  BY <1>1 DEF Piece
<1>3. c # "\\" /\ c # "%"
  BY CommandAssumption
<1>4. i <= Len(t) /\ ~(i > Len(t)) /\ t[i] = c
  BY <1>2 DEF Stands
<1>5. PartOf(p) = <<"literal", Letters[c]>>
  BY <1>2, <1>3 DEF PartOf
<1>6. ByteOf(c) = Letters[c]
  BY DEF ByteOf
<1>7. ParseBody(f, t, i) = Then(<<"literal", ByteOf(c)>>, f[i + 1])
  BY <1>3, <1>4, Zenon DEF ParseBody
<1> QED
  BY <1>2, <1>5, <1>6, <1>7

(* The parser at a hex escape. *)
LEMMA ParseHex ==
  ASSUME NEW f, NEW t, Len(t) \in Nat, NEW p, AHex(p), NEW i, Stands(t, i, p)
  PROVE  ParseBody(f, t, i) = Then(PartOf(p), f[i + 4]) /\ Len(p.text) = 4
<1>1. PICK h, l \in DOMAIN Hex : p = Piece(<<"\\", "x", h, l>>, <<16 * Hex[h] + Hex[l]>>)
  BY DEF AHex
<1>2. p.text = <<"\\", "x", h, l>> /\ p.bytes = <<16 * Hex[h] + Hex[l]>>
  BY <1>1 DEF Piece
<1>3. /\ i <= Len(t) /\ ~(i > Len(t)) /\ i # Len(t) /\ ~(i + 3 > Len(t))
      /\ t[i] = "\\" /\ t[i + 1] = "x" /\ t[i + 2] = h /\ t[i + 3] = l
  <2>1. i + 3 <= Len(t) /\ i \in Nat
    BY <1>2 DEF Stands
  <2>2. t[i + 1 - 1] = "\\" /\ t[i + 2 - 1] = "x" /\ t[i + 3 - 1] = h /\ t[i + 4 - 1] = l
    BY <1>2 DEF Stands
  <2>3. i + 1 - 1 = i /\ i + 2 - 1 = i + 1 /\ i + 3 - 1 = i + 2 /\ i + 4 - 1 = i + 3
    BY <2>1
  <2> QED
    BY <2>1, <2>2, <2>3
<1>4. PartOf(p) = <<"literal", 16 * Hex[h] + Hex[l]>>
  BY <1>2 DEF PartOf
<1>5. {t[i + 2], t[i + 3]} \subseteq DOMAIN Hex
  BY <1>3
<1>6. ParseBody(f, t, i) = Then(<<"literal", 16 * Hex[t[i + 2]] + Hex[t[i + 3]]>>, f[i + 4])
  BY <1>3, <1>5, Zenon DEF ParseBody
<1> QED
  BY <1>2, <1>3, <1>4, <1>6

(* The text of a CAN name. *)
LEMMA NameText ==
  ASSUME NEW p, AName(p)
  PROVE  /\ Len(CanIdName) \in Nat /\ CanIdName \in Seq(NameChars)
         /\ p.text \in Seq(NameChars \cup {"\\", "$"})
         /\ Len(p.text) = 2 + Len(CanIdName) /\ p.text[1] = "\\" /\ p.text[2] = "$"
         /\ \A j \in 1 .. Len(CanIdName) : p.text[2 + j] = CanIdName[j]
         /\ p.bytes = <<Given.can_id>>
<1> DEFINE Y == NameChars \cup {"\\", "$"}
           u == <<"\\", "$">>
<1>1. CanIdName \in Seq(NameChars) /\ Len(CanIdName) \in Nat
  BY CommandAssumption, LenProperties
<1>2. CanIdName \in Seq(Y)
  BY <1>1, SeqMonotonic
<1>3. u \in Seq(Y) /\ Len(u) = 2 /\ u[1] = "\\" /\ u[2] = "$"
  OBVIOUS
<1>4. p.text = u \o CanIdName /\ p.bytes = <<Given.can_id>>
  BY DEF AName, Piece
<1> HIDE DEF Y, u
<1>5. /\ u \o CanIdName \in Seq(Y) /\ Len(u \o CanIdName) = Len(u) + Len(CanIdName)
      /\ \A i \in 1 .. Len(u) + Len(CanIdName) : (u \o CanIdName)[i] =
           IF i <= Len(u) THEN u[i] ELSE CanIdName[i - Len(u)]
  BY <1>2, <1>3, ConcatProperties
<1> DEFINE w == p.text
           n == Len(CanIdName)
<1>6. /\ w \in Seq(Y) /\ Len(w) = 2 + n
      /\ \A i \in 1 .. 2 + n : w[i] = IF i <= 2 THEN u[i] ELSE CanIdName[i - 2]
  BY <1>3, <1>4, <1>5
<1>7. n \in Nat
  BY <1>1
<1> HIDE DEF w, n
<1>8. w[1] = "\\" /\ w[2] = "$"
  BY <1>3, <1>6, <1>7
<1>9. ASSUME NEW j \in 1 .. n PROVE w[2 + j] = CanIdName[j]
  <2>1. 2 + j \in 1 .. 2 + n /\ ~(2 + j <= 2) /\ 2 + j - 2 = j
    BY <1>7
  <2>2. w[2 + j] = CanIdName[2 + j - 2]
    BY <1>6, <2>1
  <2> QED
    BY <2>1, <2>2
<1> QED
  BY <1>1, <1>4, <1>6, <1>8, <1>9 DEF w, n, Y

(* The parser at a CAN name that ends where its author ended it. *)
LEMMA ParseName ==
  ASSUME NEW f, NEW t, Len(t) \in Nat, NEW p, AName(p), NEW i, Stands(t, i, p),
         i + Len(p.text) = Len(t) + 1 \/ t[i + Len(p.text)] \notin NameChars
  PROVE  ParseBody(f, t, i) = Then(PartOf(p), f[i + Len(p.text)])
<1> DEFINE n == Len(CanIdName)
           e == i + 2 + n
           name == SubSeq(t, i + 2, e - 1)
<1>1. /\ n \in Nat /\ CanIdName \in Seq(NameChars)
      /\ Len(p.text) = 2 + n /\ p.text[1] = "\\" /\ p.text[2] = "$"
      /\ \A j \in 1 .. n : p.text[2 + j] = CanIdName[j]
  BY NameText
<1>2. i \in Nat \ {0} /\ i + 2 + n - 1 <= Len(t)
  BY <1>1 DEF Stands
<1>3. \A j \in 1 .. 2 + n : t[i + j - 1] = p.text[j]
  BY <1>1 DEF Stands
<1>4. \A j \in 1 .. n : CanIdName[j] \in NameChars /\ n = Len(CanIdName)
  BY <1>1, ElementOfSeq
<1> HIDE DEF n
<1>5. t[i] = "\\" /\ t[i + 1] = "$"
  <2>1. t[i + 1 - 1] = p.text[1] /\ t[i + 2 - 1] = p.text[2]
    BY <1>1, <1>3
  <2>2. i + 1 - 1 = i /\ i + 2 - 1 = i + 1
    BY <1>2
  <2> QED
    BY <1>1, <2>1, <2>2
<1>6. ASSUME NEW j \in 1 .. n PROVE t[i + 1 + j] = CanIdName[j]
  <2>1. 2 + j \in 1 .. 2 + n /\ i + (2 + j) - 1 = i + 1 + j
    BY <1>1, <1>2
  <2>2. t[i + (2 + j) - 1] = p.text[2 + j]
    BY <1>3, <2>1
  <2> QED
    BY <1>1, <2>1, <2>2
<1>7. e \in i + 2 .. Len(t) + 1 /\ e = i + 2 + n /\ i + 2 \in 1 .. Len(t) + 1
  BY <1>1, <1>2
<1>8. e = Len(t) + 1 \/ t[e] \notin NameChars
  <2>1. i + Len(p.text) = e
    BY <1>1, <1>2, <1>7
  <2> HIDE DEF e
  <2> QED
    BY <2>1
<1> HIDE DEF e
<1>9. ASSUME NEW k \in i + 2 .. e - 1
      PROVE  k - i - 1 \in 1 .. n /\ t[k] = CanIdName[k - i - 1] /\ t[k] \in NameChars
  <2>1. k - i - 1 \in 1 .. n /\ i + 1 + (k - i - 1) = k
    BY <1>1, <1>2, <1>7
  <2> QED
    BY <1>4, <1>6, <2>1
<1>10. Ends(t, i + 2, e)
  BY <1>7, <1>8, <1>9 DEF Ends
<1>11. NameEnd(t, i + 2) = e
  BY <1>7, <1>10, NameEndFacts
<1>12. name = CanIdName
  <2>1. /\ name \in Seq(NameChars)
        /\ Len(name) = IF i + 2 <= e - 1 THEN e - 1 - (i + 2) + 1 ELSE 0
        /\ \A j \in 1 .. e - 1 - (i + 2) + 1 : name[j] = t[i + 2 + j - 1]
    BY <1>2, <1>7, <1>9, SubSeqProperties
  <2> HIDE DEF name
  <2>0. e \in Int /\ i \in Int /\ n \in Nat /\ e = i + 2 + n
    BY <1>1, <1>2, <1>7
  <2>a. e - 1 - (i + 2) + 1 = n /\ (i + 2 <= e - 1 <=> n >= 1)
    BY <2>0
  <2>2. Len(name) = n /\ e - 1 - (i + 2) + 1 = n
    BY <2>0, <2>1, <2>a
  <2>3. ASSUME NEW j \in 1 .. n PROVE name[j] = CanIdName[j]
    <3>1. i + 2 + j - 1 = i + 1 + j
      BY <1>2
    <3> QED
      BY <1>6, <2>1, <2>2, <3>1
  <2>4. Len(name) = Len(CanIdName)
    BY <2>2 DEF n
  <2>5. \A j \in 1 .. Len(name) : name[j] = CanIdName[j]
    BY <2>2, <2>3
  <2> QED
    BY <1>1, <2>1, <2>4, <2>5, SeqEqual
<1>13. i <= Len(t) /\ ~(i > Len(t)) /\ i # Len(t)
  BY <1>1, <1>2
<1>14. ParseBody(f, t, i) = Then(<<"var", name>>, f[e])
  <2>1. "$" # "x"
    OBVIOUS
  <2>2. ParseBody(f, t, i)
          = Then(<<"var", SubSeq(t, i + 2, NameEnd(t, i + 2) - 1)>>, f[NameEnd(t, i + 2)])
    BY <1>5, <1>13, <2>1, Zenon DEF ParseBody
  <2> QED
    BY <1>11, <2>2
<1>15. PartOf(p) = <<"var", CanIdName>>
  BY <1>1 DEF PartOf
<1>16. i + Len(p.text) = e
  BY <1>1, <1>2, <1>7
<1> QED
  BY <1>12, <1>14, <1>15, <1>16

(* The parser at an argument. *)
LEMMA ParseArg ==
  ASSUME NEW f, NEW t, Len(t) \in Nat, NEW p, AnArg(p), NEW i, Stands(t, i, p)
  PROVE  ParseBody(f, t, i) = Then(PartOf(p), f[i + Len(p.text)])
<1>0. i \in Nat \ {0} /\ i + Len(p.text) - 1 <= Len(t)
      /\ \A j \in 1 .. Len(p.text) : t[i + j - 1] = p.text[j]
  BY DEF Stands
<1>1. ASSUME NEW a, NEW part, p.text = <<"%", "2", a>>,
             <<a, part>> \in {<<"i", "page_id">>, <<"o", "offset">>, <<"c", "count">>}
      PROVE  ParseBody(f, t, i) = Then(PartOf(p), f[i + Len(p.text)])
  <2>1. i + 2 <= Len(t) /\ Len(p.text) = 3
    BY <1>0, <1>1
  <2>2. t[i] = "%" /\ t[i + 1] = "2" /\ t[i + 2] = a
    <3>1. t[i + 1 - 1] = "%" /\ t[i + 2 - 1] = "2" /\ t[i + 3 - 1] = a
      BY <1>0, <1>1
    <3>2. i + 1 - 1 = i /\ i + 2 - 1 = i + 1 /\ i + 3 - 1 = i + 2
      BY <1>0
    <3> QED
      BY <3>1, <3>2
  <2>3. Spec2(t, i) = <<"2", a>>
    BY <2>1, <2>2 DEF Spec2
  <2> DEFINE s == Spec2(t, i)
  <2>4. s[1] # "v"
    BY <2>3
  <2>5. i <= Len(t) /\ ~(i > Len(t)) /\ "%" # "\\"
    BY <1>0, <2>1
  <2>6. ParseBody(f, t, i) = CASE s = <<"2", "i">> -> Then(<<"page_id">>, f[i + 3])
              [] s = <<"2", "o">> -> Then(<<"offset">>, f[i + 3])
              [] s = <<"2", "c">> -> Then(<<"count">>, f[i + 3])
              [] OTHER -> Bad
    BY <2>2, <2>4, <2>5 DEF ParseBody
  <2>7. CASE a = "i"
    <3>1. s = <<"2", "i">> /\ p.text = <<"%", "2", "i">>
      BY <1>1, <2>3, <2>7
    <3>2. PartOf(p) = <<"page_id">>
      BY <3>1 DEF PartOf
    <3> QED
      BY <2>1, <2>6, <3>1, <3>2
  <2>8. CASE a = "o"
    <3>1. s = <<"2", "o">> /\ p.text = <<"%", "2", "o">>
      BY <1>1, <2>3, <2>8
    <3>2. PartOf(p) = <<"offset">>
      BY <3>1 DEF PartOf
    <3> QED
      BY <2>1, <2>6, <3>1, <3>2
  <2>9. CASE a = "c"
    <3>1. s = <<"2", "c">> /\ p.text = <<"%", "2", "c">>
      BY <1>1, <2>3, <2>9
    <3>2. PartOf(p) = <<"count">>
      BY <3>1 DEF PartOf
    <3> QED
      BY <2>1, <2>6, <3>1, <3>2
  <2> QED
    BY <1>1, <2>7, <2>8, <2>9
<1>2. ASSUME p.text = <<"%", "v">>
      PROVE  ParseBody(f, t, i) = Then(PartOf(p), f[i + Len(p.text)])
  <2>1. i + 1 <= Len(t) /\ Len(p.text) = 2
    BY <1>0, <1>2
  <2>2. t[i] = "%" /\ t[i + 1] = "v"
    <3>1. t[i + 1 - 1] = "%" /\ t[i + 2 - 1] = "v"
      BY <1>0, <1>2
    <3>2. i + 1 - 1 = i /\ i + 2 - 1 = i + 1
      BY <1>0
    <3> QED
      BY <3>1, <3>2
  <2> DEFINE s == Spec2(t, i)
  <2>3. Len(s) >= 1 /\ s[1] = "v"
    <3>1. CASE i + 2 <= Len(t)
      BY <2>2, <3>1 DEF Spec2
    <3>2. CASE ~(i + 2 <= Len(t))
      <4>1. Len(t) = i + 1 /\ i + 1 \in Int
        BY <1>0, <2>1, <3>2
      <4>2. s = SubSeq(t, i + 1, i + 1)
        BY <3>2, <4>1 DEF Spec2
      <4> HIDE DEF s
      <4> DEFINE m == i + 1
      <4>3. m \in Int /\ s = SubSeq(t, m, m) /\ t[m] = "v"
        BY <2>2, <4>1, <4>2
      <4> HIDE DEF m
      <4>4. /\ Len(SubSeq(t, m, m)) = (IF m <= m THEN m - m + 1 ELSE 0)
            /\ \A j \in 1 .. m - m + 1 : SubSeq(t, m, m)[j] = t[m + j - 1]
        <5>1. \A j \in m .. m : t[j] \in {"v"}
          BY <4>3
        <5> QED
          BY <4>3, <5>1, SubSeqProperties
      <4>5. m - m + 1 = 1 /\ m + 1 - 1 = m
        BY <4>3
      <4>6. Len(s) = 1
        BY <4>3, <4>4, <4>5
      <4>7. s[1] = t[m + 1 - 1]
        BY <4>3, <4>4, <4>5
      <4> QED
        BY <4>3, <4>5, <4>6, <4>7
    <3> QED
      BY <3>1, <3>2
  <2>4. i <= Len(t) /\ ~(i > Len(t)) /\ "%" # "\\"
    BY <1>0, <2>1
  <2>5. ParseBody(f, t, i) = Then(<<"value">>, f[AfterValue(i)])
    BY <2>2, <2>3, <2>4 DEF ParseBody
  <2>6. PartOf(p) = <<"value">>
    BY <1>2 DEF PartOf
  <2> QED
    BY <2>1, <2>5, <2>6 DEF AfterValue
<1>3. \/ p.text = <<"%", "2", "i">> \/ p.text = <<"%", "2", "o">>
      \/ p.text = <<"%", "2", "c">> \/ p.text = <<"%", "v">>
  BY DEF AnArg, Piece
<1> QED
  BY <1>1, <1>2, <1>3

Chars == DOMAIN Letters \cup DOMAIN Hex \cup NameChars
           \cup {"\\", "$", "x", "%", "2", "i", "o", "c", "v"}

(* The text of a piece is not empty. *)
LEMMA PieceText ==
  ASSUME NEW p \in PieceSet
  PROVE  p.text \in Seq(Chars) /\ Len(p.text) \in Nat \ {0}
<1>1. CASE ALetter(p)
  <2>1. PICK c \in DOMAIN Letters : p = Piece(<<c>>, <<Letters[c]>>)
    BY <1>1 DEF ALetter
  <2>2. p.text = <<c>> /\ c \in Chars
    BY <2>1 DEF Piece, Chars
  <2> QED
    BY <2>2
<1>2. CASE AHex(p)
  <2>1. PICK h, l \in DOMAIN Hex : p = Piece(<<"\\", "x", h, l>>, <<16 * Hex[h] + Hex[l]>>)
    BY <1>2 DEF AHex
  <2>2. p.text = <<"\\", "x", h, l>> /\ {"\\", "x", h, l} \subseteq Chars
    BY <2>1 DEF Piece, Chars
  <2> QED
    BY <2>2
<1>3. CASE AName(p)
  <2>1. p.text \in Seq(NameChars \cup {"\\", "$"}) /\ Len(p.text) \in Nat \ {0}
    BY <1>3, NameText
  <2>2. NameChars \cup {"\\", "$"} \subseteq Chars
    BY DEF Chars
  <2> QED
    BY <2>1, <2>2, SeqMonotonic
<1>4. CASE AnArg(p)
  <2>1. \/ p.text = <<"%", "2", "i">> \/ p.text = <<"%", "2", "o">>
        \/ p.text = <<"%", "2", "c">> \/ p.text = <<"%", "v">>
    BY <1>4 DEF AnArg, Piece
  <2>2. {"%", "2", "i", "o", "c", "v"} \subseteq Chars
    BY DEF Chars
  <2>3. "%" \in Chars /\ "2" \in Chars /\ "i" \in Chars /\ "o" \in Chars /\ "c" \in Chars /\ "v" \in Chars
    BY <2>2
  <2>4. CASE p.text = <<"%", "2", "i">>
    BY <2>3, <2>4
  <2>5. CASE p.text = <<"%", "2", "o">>
    BY <2>3, <2>5
  <2>6. CASE p.text = <<"%", "2", "c">>
    BY <2>3, <2>6
  <2>7. CASE p.text = <<"%", "v">>
    BY <2>3, <2>7
  <2> QED
    BY <2>1, <2>4, <2>5, <2>6, <2>7
<1> QED
  BY <1>1, <1>2, <1>3, <1>4, PieceKinds

(* The parser at a piece, whatever its kind. *)
LEMMA PieceParsed ==
  ASSUME NEW f, NEW t, Len(t) \in Nat, NEW p \in PieceSet, NEW i, Stands(t, i, p),
         AName(p) => i + Len(p.text) = Len(t) + 1 \/ t[i + Len(p.text)] \notin NameChars
  PROVE  ParseBody(f, t, i) = Then(PartOf(p), f[i + Len(p.text)])
<1>1. CASE ALetter(p)
  BY <1>1, ParseLetter
<1>2. CASE AHex(p)
  BY <1>2, ParseHex
<1>3. CASE AName(p)
  BY <1>3, ParseName
<1>4. CASE AnArg(p)
  BY <1>4, ParseArg
<1> QED
  BY <1>1, <1>2, <1>3, <1>4, PieceKinds

(* A part stands for the bytes of its piece, and none is the mark of a failed parse. *)
LEMMA PartBytes ==
  ASSUME NEW p \in PieceSet
  PROVE  BytesOf(PartOf(p)) = p.bytes /\ PartOf(p) # <<"bad">>
<1>1. CASE ALetter(p)
  <2>1. PICK c \in DOMAIN Letters : p = Piece(<<c>>, <<Letters[c]>>)
    BY <1>1 DEF ALetter
  <2>2. p.text = <<c>> /\ p.bytes = <<Letters[c]>>
    BY <2>1 DEF Piece
  <2>3. PartOf(p) = <<"literal", Letters[c]>>
    BY <2>2, CommandAssumption DEF PartOf
  <2> QED
    BY <2>2, <2>3 DEF BytesOf
<1>2. CASE AHex(p)
  <2>1. PICK h, l \in DOMAIN Hex : p = Piece(<<"\\", "x", h, l>>, <<16 * Hex[h] + Hex[l]>>)
    BY <1>2 DEF AHex
  <2> DEFINE n == 16 * Hex[h] + Hex[l]
  <2>2. p.text = <<"\\", "x", h, l>> /\ p.bytes = <<n>>
    BY <2>1 DEF Piece
  <2> HIDE DEF n
  <2>3. PartOf(p) = <<"literal", n>>
    BY <2>2 DEF PartOf
  <2> QED
    BY <2>2, <2>3 DEF BytesOf
<1>3. CASE AName(p)
  <2>1. p.text[1] = "\\" /\ p.text[2] = "$" /\ p.bytes = <<Given.can_id>>
    BY <1>3, NameText
  <2>2. PartOf(p) = <<"var", CanIdName>>
    BY <2>1 DEF PartOf
  <2> QED
    BY <2>1, <2>2 DEF BytesOf
<1>4. CASE AnArg(p)
  <2>1. CASE p = Piece(<<"%", "2", "i">>, Arg("page_id"))
    <3>1. p.text = <<"%", "2", "i">> /\ p.bytes = Arg("page_id")
      BY <2>1 DEF Piece
    <3>2. PartOf(p) = <<"page_id">>
      BY <3>1 DEF PartOf
    <3> QED
      BY <3>1, <3>2 DEF BytesOf, Arg
  <2>2. CASE p = Piece(<<"%", "2", "o">>, Arg("offset"))
    <3>1. p.text = <<"%", "2", "o">> /\ p.bytes = Arg("offset")
      BY <2>2 DEF Piece
    <3>2. PartOf(p) = <<"offset">>
      BY <3>1 DEF PartOf
    <3> QED
      BY <3>1, <3>2 DEF BytesOf, Arg
  <2>3. CASE p = Piece(<<"%", "2", "c">>, Arg("count"))
    <3>1. p.text = <<"%", "2", "c">> /\ p.bytes = Arg("count")
      BY <2>3 DEF Piece
    <3>2. PartOf(p) = <<"count">>
      BY <3>1 DEF PartOf
    <3> QED
      BY <3>1, <3>2 DEF BytesOf, Arg
  <2>4. CASE p = Piece(<<"%", "v">>, Arg("value"))
    <3>1. p.text = <<"%", "v">> /\ p.bytes = Arg("value")
      BY <2>4 DEF Piece
    <3>2. PartOf(p) = <<"value">>
      BY <3>1 DEF PartOf
    <3> QED
      BY <3>1, <3>2 DEF BytesOf, Arg
  <2> QED
    BY <1>4, <2>1, <2>2, <2>3, <2>4 DEF AnArg
<1> QED
  BY <1>1, <1>2, <1>3, <1>4, PieceKinds

Parts == {PartOf(p) : p \in PieceSet}
RestOf(ps, k) == [j \in 1 .. Len(ps) - k + 1 |-> PartOf(ps[k + j - 1])]

(* The parts of the pieces from the k-th on are no failed parse. *)
LEMMA RestFacts ==
  ASSUME NEW ps \in Seq(PieceSet), NEW k \in 1 .. Len(ps) + 1
  PROVE  /\ RestOf(ps, k) \in Seq(Parts) /\ Len(RestOf(ps, k)) = Len(ps) - k + 1
         /\ RestOf(ps, k) # Bad
<1>0. Len(ps) \in Nat
  BY LenProperties
<1>1. ASSUME NEW j \in 1 .. Len(ps) - k + 1 PROVE PartOf(ps[k + j - 1]) \in Parts
  <2>1. k + j - 1 \in 1 .. Len(ps)
    BY <1>0
  <2>2. ps[k + j - 1] \in PieceSet
    BY <2>1, ElementOfSeq
  <2> QED
    BY <2>2 DEF Parts
<1> DEFINE n == Len(ps) - k + 1
           r == RestOf(ps, k)
<1>2. n \in Nat /\ \A j \in 1 .. n : PartOf(ps[k + j - 1]) \in Parts
  BY <1>0, <1>1
<1>n. n = Len(ps) - k + 1 /\ r = [j \in 1 .. n |-> PartOf(ps[k + j - 1])]
  BY DEF RestOf
<1> HIDE DEF n, r
<1>m. r \in [1 .. n -> Parts]
  BY <1>2, <1>n
<1>3. r \in Seq(Parts) /\ Len(r) = n
  BY <1>2, <1>m
<1>4. r # Bad
  <2> SUFFICES ASSUME r = Bad PROVE FALSE
    OBVIOUS
  <2>1. Len(Bad) = 1 /\ Bad[1] = <<"bad">>
    BY DEF Bad
  <2>2. r[1] \in Parts
    <3>0. n = 1
      BY <1>3, <2>1, Zenon
    <3>1. 1 \in 1 .. n
      BY <3>0
    <3> QED
      BY <1>m, <3>1
  <2>3. <<"bad">> \in Parts
    BY <2>1, <2>2
  <2> QED
    BY <2>3, PartBytes DEF Parts
<1> QED
  BY <1>3, <1>4, <1>n DEF r

(* One piece more. *)
LEMMA RestLonger ==
  ASSUME NEW ps \in Seq(PieceSet), NEW k \in 1 .. Len(ps)
  PROVE  Then(PartOf(ps[k]), RestOf(ps, k + 1)) = RestOf(ps, k)
<1>0. Len(ps) \in Nat
  BY LenProperties
<1> DEFINE a == PartOf(ps[k])
           u == <<a>>
           r == RestOf(ps, k + 1)
           w == RestOf(ps, k)
           n == Len(ps) - k + 1
<1>1. r \in Seq(Parts) /\ Len(r) = n - 1 /\ r # Bad /\ w \in Seq(Parts) /\ Len(w) = n
  <2>1. k + 1 \in 1 .. Len(ps) + 1 /\ k \in 1 .. Len(ps) + 1 /\ Len(ps) - (k + 1) + 1 = n - 1
    BY <1>0
  <2> QED
    BY <2>1, RestFacts
<1>2. ps[k] \in PieceSet /\ a \in Parts /\ n \in Nat
  <2>1. ps[k] \in PieceSet
    BY ElementOfSeq
  <2> QED
    BY <1>0, <2>1 DEF Parts
<1>3. w[1] = a /\ \A j \in 1 .. n - 1 : w[1 + j] = r[j]
  <2>1. 1 \in 1 .. n /\ k + 1 - 1 = k
    BY <1>0
  <2>2. w[1] = a
    BY <2>1 DEF RestOf
  <2>3. ASSUME NEW j \in 1 .. n - 1 PROVE w[1 + j] = r[j]
    <3>1. 1 + j \in 1 .. Len(ps) - k + 1 /\ j \in 1 .. Len(ps) - (k + 1) + 1
          /\ k + (1 + j) - 1 = k + 1 + j - 1
      BY <1>0
    <3>2. w[1 + j] = PartOf(ps[k + (1 + j) - 1])
      BY <3>1 DEF RestOf
    <3>3. r[j] = PartOf(ps[k + 1 + j - 1])
      BY <3>1 DEF RestOf
    <3> QED
      BY <3>1, <3>2, <3>3
  <2> QED
    BY <2>2, <2>3
<1>4. Then(a, r) = u \o r
  BY <1>1 DEF Then
<1>5. u \in Seq(Parts) /\ Len(u) = 1 /\ u[1] = a
  BY <1>2
<1>i. 1 \in Nat /\ n >= 1
  BY <1>0
<1> HIDE DEF u, r, w, n, a
<1>6. /\ u \o r \in Seq(Parts) /\ Len(u \o r) = Len(u) + Len(r)
      /\ \A i \in 1 .. Len(u) + Len(r) : (u \o r)[i] = IF i <= Len(u) THEN u[i] ELSE r[i - Len(u)]
  BY <1>1, <1>5, ConcatProperties
<1> DEFINE v == u \o r
<1>7. v \in Seq(Parts) /\ Len(v) = n /\ \A i \in 1 .. n : v[i] = IF i <= 1 THEN a ELSE r[i - 1]
  <2>1. Len(u) + Len(r) = n
    BY <1>1, <1>2, <1>5
  <2>2. \A i \in 1 .. n : i <= 1 => u[i] = a
    BY <1>5
  <2> QED
    BY <1>5, <1>6, <2>1, <2>2
<1>8. Then(a, r) = v
  BY <1>4
<1> HIDE DEF v
<1>9. ASSUME NEW i \in 1 .. n PROVE v[i] = w[i]
  <2>1. CASE i = 1
    BY <1>3, <1>7, <2>1
  <2>2. CASE i # 1
    <3>1. i - 1 \in 1 .. n - 1 /\ ~(i <= 1) /\ 1 + (i - 1) = i
      BY <1>2, <2>2
    <3>2. w[1 + (i - 1)] = r[i - 1]
      BY <1>3, <3>1
    <3> QED
      BY <1>7, <3>1, <3>2
  <2> QED
    BY <2>1, <2>2
<1>10. v = w
  BY <1>1, <1>7, <1>9, SeqEqual
<1> QED
  BY <1>8, <1>10 DEF a, r, w

Texts(ps) == [k \in DOMAIN ps |-> ps[k].text]

(* The texts of the pieces, joined. *)
LEMMA TextsJoined ==
  ASSUME NEW ps \in Seq(PieceSet)
  PROVE  /\ Len(FlattenSeq(Texts(ps))) \in Nat
         /\ \E off : Joined(FlattenSeq(Texts(ps)), off, Texts(ps))
         /\ Len(Texts(ps)) = Len(ps)
<1> DEFINE n == Len(ps)
           ss == Texts(ps)
<1>1. n \in Nat /\ DOMAIN ps = 1 .. n
  BY LenProperties
<1>2. ss = [k \in 1 .. n |-> ps[k].text]
  BY <1>1 DEF Texts
<1>3. \A k \in 1 .. n : ps[k].text \in Seq(Chars)
  BY ElementOfSeq, PieceText
<1> HIDE DEF n, ss
<1>4. ss \in [1 .. n -> Seq(Chars)]
  BY <1>2, <1>3
<1>5. Len(ss) = n /\ \A k \in 1 .. n : ss[k] \in Seq(Chars)
  BY <1>1, <1>4
<1>6. CASE n = 0
  <2>1. FlattenSeq(ss) = ss
    BY <1>5, <1>6 DEF FlattenSeq
  <2> DEFINE off == [k \in 0 .. 0 |-> 0]
  <2>2. off[0] = 0
    OBVIOUS
  <2> HIDE DEF off
  <2>3. Joined(ss, off, ss)
    BY <1>5, <1>6, <2>2 DEF Joined
  <2> QED
    BY <1>5, <1>6, <2>1, <2>3 DEF n, ss
<1>7. CASE n # 0
  <2>1. n \in Nat \ {0}
    BY <1>1, <1>7
  <2>2. FlattenSeq(ss) \in Seq(Chars) /\ \E off : Joined(FlattenSeq(ss), off, ss)
    BY <1>5, <2>1, JoinedTo
  <2>3. Len(FlattenSeq(ss)) \in Nat
    BY <2>2, LenProperties
  <2> QED
    BY <1>5, <2>2, <2>3 DEF n, ss
<1> QED
  BY <1>6, <1>7

Unglued(ps) == \A k \in 1 .. Len(ps) - 1 : ~Glued(ps[k], ps[k + 1])

(* Nothing is parsed behind the text. *)
LEMMA ParseEnd ==
  ASSUME NEW f, NEW t, Len(t) \in Nat, NEW i \in Nat, i > Len(t)
  PROVE  ParseBody(f, t, i) = <<>>
BY DEF ParseBody

(* The parts parse finds are those of the pieces. *)
LEMMA ParsedAs ==
  ASSUME NEW ps \in Seq(PieceSet), Unglued(ps)
  PROVE  parse_template(FlattenSeq(Texts(ps))) = RestOf(ps, 1)
<1> DEFINE t == FlattenSeq(Texts(ps))
           n == Len(ps)
<1>0. n \in Nat /\ DOMAIN ps = 1 .. n
  BY LenProperties
<1>1. PICK off : Joined(t, off, Texts(ps))
  BY TextsJoined
<1>2. Len(t) \in Nat /\ Len(Texts(ps)) = n
  BY TextsJoined
<1>p. \A k \in 1 .. n : ps[k] \in PieceSet
  BY ElementOfSeq
<1>3. \A k \in 1 .. n : Texts(ps)[k] = ps[k].text /\ Len(ps[k].text) \in Nat \ {0}
  BY <1>0, <1>p, PieceText DEF Texts
<1> DEFINE f == CHOOSE f : ParseSolves(f, t)
<1>4. ParseSolves(f, t)
  BY <1>2, ParseExists
<1>5. parse_template(t) = f[1]
  BY ParseIs
<1>u. \A k \in 1 .. n - 1 : ~Glued(ps[k], ps[k + 1])
  BY DEF Unglued
<1>n. n = Len(ps)
  OBVIOUS
<1> HIDE DEF f, t, n
<1>6. \A i \in 1 .. Len(t) + 4 : f[i] = ParseBody(f, t, i)
  BY <1>4 DEF ParseSolves
<1>7. /\ off[0] = 0 /\ Len(t) = off[n]
      /\ \A k \in 0 .. n : off[k] \in Nat
      /\ \A k \in 1 .. n : off[k] = off[k - 1] + Len(ps[k].text)
      /\ \A k \in 1 .. n : \A j \in 1 .. Len(ps[k].text) : t[off[k - 1] + j] = ps[k].text[j]
  BY <1>0, <1>1, <1>2, <1>3 DEF Joined
<1> DEFINE Good(k) == off[k - 1] <= Len(t) /\ f[off[k - 1] + 1] = RestOf(ps, k)
           T == {d \in Nat : d <= n /\ ~Good(n + 1 - d)}
<1>8. Good(n + 1)
  <2>1. f[Len(t) + 1] = <<>>
    <3>1. Len(t) + 1 \in 1 .. Len(t) + 4 /\ Len(t) + 1 > Len(t)
      BY <1>2
    <3>2. ParseBody(f, t, Len(t) + 1) = <<>>
      BY <1>2, <3>1, ParseEnd
    <3> QED
      BY <1>6, <3>1, <3>2
  <2>2. RestOf(ps, n + 1) \in Seq(Parts) /\ Len(RestOf(ps, n + 1)) = 0
    <3>1. n + 1 \in 1 .. Len(ps) + 1 /\ Len(ps) - (n + 1) + 1 = 0
      BY <1>0, <1>n
    <3> QED
      BY <3>1, RestFacts
  <2>3. RestOf(ps, n + 1) = <<>>
    BY <2>2, EmptySeq
  <2>4. off[n + 1 - 1] = Len(t) /\ n + 1 - 1 = n
    BY <1>0, <1>7
  <2> QED
    BY <1>2, <2>1, <2>3, <2>4
<1>9. ASSUME NEW k \in 1 .. n, Good(k + 1) PROVE Good(k)
  <2> DEFINE p == ps[k]
             i == off[k - 1] + 1
             m == Len(p.text)
  <2>1. p \in PieceSet /\ m \in Nat \ {0}
    BY <1>3, <1>p
  <2>2. off[k - 1] \in Nat /\ off[k] = off[k - 1] + m /\ off[k] \in Nat
    <3>1. k - 1 \in 0 .. n /\ k \in 0 .. n
      BY <1>0
    <3> QED
      BY <1>7, <3>1
  <2>3. k + 1 - 1 = k /\ off[k] <= Len(t) /\ f[off[k] + 1] = RestOf(ps, k + 1)
    <3>1. k + 1 - 1 = k
      BY <1>0
    <3> QED
      BY <1>9, <3>1
  <2>4. \A j \in 1 .. m : t[off[k - 1] + j] = p.text[j]
    BY <1>7
  <2> DEFINE a == off[k - 1]
             e == off[k]
             z == Len(t)
  <2>i. i = off[k - 1] + 1 /\ p = ps[k] /\ m = Len(p.text)
    OBVIOUS
  <2>a. /\ i = a + 1 /\ a \in Nat /\ e \in Nat /\ z \in Nat /\ m \in Nat /\ m # 0
        /\ e = a + m /\ e <= z
    BY <1>2, <2>1, <2>2, <2>3
  <2> HIDE DEF p, i, m, a, e, z
  <2>b. i \in Nat /\ i # 0 /\ i + m - 1 <= z /\ i + m = e + 1 /\ i <= z + 4 /\ a <= z
    BY <2>a
  <2>5. Stands(t, i, p)
    <3>1. i \in Nat \ {0} /\ i + m - 1 <= Len(t)
      BY <2>b DEF z
    <3>2. ASSUME NEW j \in 1 .. m PROVE t[i + j - 1] = p.text[j]
      <4>1. i + j - 1 = off[k - 1] + j
        BY <2>1, <2>2, <2>i
      <4> QED
        BY <2>4, <4>1
    <3> QED
      BY <2>i, <3>1, <3>2 DEF Stands
  <2>6. i + m = off[k] + 1
    BY <2>b DEF e
  <2>7. AName(p) => i + m = Len(t) + 1 \/ t[i + m] \notin NameChars
    <3> SUFFICES ASSUME AName(p) PROVE i + m = Len(t) + 1 \/ t[i + m] \notin NameChars
      OBVIOUS
    <3>1. CASE k = n
      BY <1>7, <2>6, <3>1
    <3>2. CASE k # n
      <4>1. k \in 1 .. n - 1 /\ k + 1 \in 1 .. n /\ k + 1 - 1 = k
        BY <1>0, <3>2
      <4>2. ~Glued(p, ps[k + 1])
        BY <1>u, <2>i, <4>1
      <4>3. p.text[1] = "\\" /\ p.text[2] = "$"
        BY NameText
      <4>4. ps[k + 1].text[1] \notin NameChars
        BY <4>2, <4>3 DEF Glued
      <4>5. 1 \in 1 .. Len(ps[k + 1].text)
        BY <1>3, <4>1
      <4>6. t[off[k] + 1] = ps[k + 1].text[1]
        BY <1>7, <4>1, <4>5
      <4> QED
        BY <2>6, <4>4, <4>6
    <3> QED
      BY <3>1, <3>2
  <2>8. ParseBody(f, t, i) = Then(PartOf(p), f[i + m])
    BY <1>2, <2>1, <2>5, <2>7, <2>i, PieceParsed
  <2>9. f[i] = ParseBody(f, t, i)
    <3>1. i \in 1 .. Len(t) + 4
      <4>1. i \in 1 .. z + 4
        BY <2>a, <2>b
      <4> QED
        BY <4>1 DEF z
    <3> QED
      BY <1>6, <3>1
  <2>10. f[i] = Then(PartOf(ps[k]), RestOf(ps, k + 1))
    BY <2>3, <2>6, <2>8, <2>9, <2>i
  <2>11. Then(PartOf(ps[k]), RestOf(ps, k + 1)) = RestOf(ps, k)
    BY <1>n, RestLonger
  <2>12. off[k - 1] <= Len(t)
    BY <2>b DEF a, z
  <2> QED
    BY <2>10, <2>11, <2>12, <2>i
<1> HIDE DEF Good
<1>10. T = {}
  <2> SUFFICES ASSUME T # {} PROVE FALSE
    OBVIOUS
  <2>1. PICK d \in T : \A y \in T : d <= y
    <3>1. T \in SUBSET Nat
      OBVIOUS
    <3> HIDE DEF T
    <3> QED
      BY <3>1, LeastNat
  <2>2. d \in Nat /\ d <= n /\ ~Good(n + 1 - d)
    OBVIOUS
  <2>3. d # 0
    <3> SUFFICES ASSUME d = 0 PROVE FALSE
      OBVIOUS
    <3>1. n + 1 - d = n + 1
      BY <1>0
    <3> QED
      BY <1>8, <2>2, <3>1
  <2>4. d - 1 \in Nat /\ d - 1 <= n /\ ~(d <= d - 1)
    BY <1>0, <2>2, <2>3
  <2>5. d - 1 \notin T
    BY <2>1, <2>4, Zenon
  <2>6. Good(n + 1 - (d - 1))
    BY <2>4, <2>5
  <2> DEFINE k == n + 1 - d
  <2>7. k \in 1 .. n /\ n + 1 - (d - 1) = k + 1
    BY <1>0, <2>2, <2>3
  <2> HIDE DEF k
  <2>8. Good(k)
    BY <1>9, <2>6, <2>7
  <2> QED
    BY <2>2, <2>8 DEF k
<1>11. Good(1)
  <2>1. n \in Nat /\ n <= n /\ n + 1 - n = 1
    BY <1>0
  <2>2. Good(n + 1 - n)
    BY <1>10, <2>1
  <2> QED
    BY <2>1, <2>2
<1>12. f[1] = RestOf(ps, 1)
  <2>1. 1 - 1 = 0 /\ 0 + 1 = 1
    OBVIOUS
  <2>2. f[off[1 - 1] + 1] = RestOf(ps, 1)
    BY <1>11 DEF Good
  <2> QED
    BY <1>7, <2>1, <2>2
<1> QED
  BY <1>5, <1>12 DEF t

CommandInv == pieces \in Seq(PieceSet) /\ Unglued(pieces)

(* The invariant gives the property: the bytes of the parts are those of the pieces. *)
LEMMA WrittenAs ==
  ASSUME CommandInv
  PROVE  CommandAsWritten
<1> DEFINE n == Len(pieces)
           bytes == [i \in DOMAIN pieces |-> pieces[i].bytes]
           parts == RestOf(pieces, 1)
<1>1. n \in Nat /\ DOMAIN pieces = 1 .. n /\ pieces \in Seq(PieceSet) /\ Unglued(pieces)
  BY LenProperties DEF CommandInv
<1>2. parse_template(FlattenSeq([i \in DOMAIN pieces |-> pieces[i].text])) = parts
  BY <1>1, ParsedAs DEF Texts
<1>3. parts # Bad
  <2>1. 1 \in 1 .. Len(pieces) + 1
    BY <1>1
  <2> QED
    BY <1>1, <2>1, RestFacts
<1>4. DOMAIN parts = 1 .. n /\ \A i \in 1 .. n : BytesOf(parts[i]) = pieces[i].bytes
  <2>1. parts = [j \in 1 .. n |-> PartOf(pieces[1 + j - 1])]
    <3>1. n - 1 + 1 = n
      BY <1>1
    <3> QED
      BY <3>1, Zenon DEF RestOf
  <2>2. ASSUME NEW i \in 1 .. n PROVE BytesOf(parts[i]) = pieces[i].bytes
    <3>1. parts[i] = PartOf(pieces[i])
      <4>1. 1 + i - 1 = i
        BY <1>1
      <4> QED
        BY <2>1, <4>1
    <3>2. pieces[i] \in PieceSet
      BY <1>1, ElementOfSeq
    <3> QED
      BY <3>1, <3>2, PartBytes
  <2> QED
    BY <2>1, <2>2
<1> HIDE DEF parts, n
<1>5. [i \in DOMAIN parts |-> BytesOf(parts[i])] = bytes
  BY <1>1, <1>4
<1>6. (\E i \in DOMAIN parts : BytesOf(parts[i]) = Missing)
        <=> Missing \in {bytes[i] : i \in DOMAIN bytes}
  <2>1. DOMAIN bytes = 1 .. n /\ \A i \in 1 .. n : bytes[i] = BytesOf(parts[i])
    BY <1>1, <1>4
  <2> HIDE DEF bytes
  <2> QED
    BY <1>4, <2>1
<1>7. build_template(parts)
        = IF Missing \in {bytes[i] : i \in DOMAIN bytes} THEN Missing ELSE FlattenSeq(bytes)
  <2> HIDE DEF bytes
  <2> QED
    BY <1>3, <1>5, <1>6, Zenon DEF build_template
<1> QED
  BY <1>2, <1>7, Zenon DEF CommandAsWritten

(* A piece is added only if it is not glued to the one before. *)
LEMMA CommandNextInv == CommandInv /\ [CommandNext]_pieces => CommandInv'
<1> SUFFICES ASSUME CommandInv, [CommandNext]_pieces PROVE CommandInv'
  OBVIOUS
<1>1. CASE AddPiece
  <2>1. PICK p \in PieceSet : /\ pieces # <<>> => ~Glued(Last(pieces), p)
                              /\ pieces' = Append(pieces, p)
    BY <1>1 DEF AddPiece
  <2>2. pieces \in Seq(PieceSet) /\ Len(pieces) \in Nat
    BY LenProperties DEF CommandInv
  <2>3. /\ pieces' \in Seq(PieceSet) /\ Len(pieces') = Len(pieces) + 1
        /\ \A k \in 1 .. Len(pieces) : pieces'[k] = pieces[k]
        /\ pieces'[Len(pieces) + 1] = p
    BY <2>1, <2>2, AppendProperties
  <2>4. ASSUME NEW k \in 1 .. Len(pieces') - 1 PROVE ~Glued(pieces'[k], pieces'[k + 1])
    <3>1. CASE k = Len(pieces)
      <4>1. pieces # <<>> /\ Last(pieces) = pieces[k] /\ k \in 1 .. Len(pieces)
        BY <2>2, <3>1 DEF Last
      <4> QED
        BY <2>1, <2>3, <3>1, <4>1
    <3>2. CASE k # Len(pieces)
      <4>1. k \in 1 .. Len(pieces) - 1 /\ k \in 1 .. Len(pieces) /\ k + 1 \in 1 .. Len(pieces)
        BY <2>2, <2>3, <3>2
      <4>2. ~Glued(pieces[k], pieces[k + 1])
        BY <4>1 DEF CommandInv, Unglued
      <4> QED
        BY <2>3, <4>1, <4>2
    <3> QED
      BY <3>1, <3>2
  <2> QED
    BY <2>3, <2>4 DEF CommandInv, Unglued
<1>2. CASE UNCHANGED pieces
  BY <1>2 DEF CommandInv, Unglued
<1> QED
  BY <1>1, <1>2 DEF CommandNext

(* Whatever pieces an author writes one after the other, the bytes sent are *)
(* those the author meant: parse_template finds the pieces again, and       *)
(* render gives each its bytes (CommandTemplate).                           *)
THEOREM CommandAsWrittenHolds ==
  CommandInit /\ [][CommandNext]_pieces => []CommandAsWritten
<1>1. CommandInit => CommandInv
  <2> SUFFICES ASSUME CommandInit PROVE CommandInv
    OBVIOUS
  <2>1. pieces = <<>> /\ <<>> \in Seq(PieceSet) /\ Len(<<>>) = 0
    BY EmptySeq DEF CommandInit
  <2> QED
    BY <2>1 DEF CommandInv, Unglued
<1>2. CommandInv => CommandAsWritten
  BY WrittenAs
<1> QED
  BY <1>1, <1>2, CommandNextInv, PTL

-----------------------------------------------------------------------------
(* Msq: a comparison that shows no difference can be trusted.               *)

(* A recursive function exists whose steps are given by a function. *)
Runs(f, n, b, step) == f[0] = b /\ \A i \in 1 .. n : f[i] = step[i][f[i - 1]]

(* A recursion over 1 .. n has a solution, whatever its steps. *)
LEMMA RunExists ==
  ASSUME NEW n \in Nat, NEW S, NEW b \in S, NEW step \in [1 .. n -> [S -> S]]
  PROVE  \E f \in [0 .. n -> S] : Runs(f, n, b, step)
<1> DEFINE Good(m, f) == f \in [0 .. m -> S] /\ f[0] = b
                           /\ \A i \in 1 .. m : f[i] = step[i][f[i - 1]]
           T == {m \in Nat : m <= n /\ ~\E f : Good(m, f)}
<1>1. T = {}
  <2> SUFFICES ASSUME T # {} PROVE FALSE
    OBVIOUS
  <2>1. PICK m \in T : \A y \in T : m <= y
    <3>1. T \in SUBSET Nat
      OBVIOUS
    <3> HIDE DEF T
    <3> QED
      BY <3>1, LeastNat
  <2>2. m \in Nat /\ m <= n /\ ~\E f : Good(m, f)
    OBVIOUS
  <2>3. m # 0
    <3> SUFFICES ASSUME m = 0 PROVE FALSE
      OBVIOUS
    <3> DEFINE f == [i \in 0 .. 0 |-> b]
    <3>1. Good(0, f)
      OBVIOUS
    <3> HIDE DEF Good
    <3> QED
      BY <2>2, <3>1
  <2>4. m - 1 \in Nat /\ m - 1 <= n /\ ~(m <= m - 1)
    BY <2>2, <2>3
  <2>5. m - 1 \notin T
    BY <2>1, <2>4, Zenon
  <2>6. PICK f : Good(m - 1, f)
    BY <2>4, <2>5
  <2> DEFINE g == [i \in 0 .. m |-> IF i = m THEN step[m][f[m - 1]] ELSE f[i]]
  <2>7. f[m - 1] \in S /\ step[m] \in [S -> S]
    BY <2>2, <2>3, <2>4, <2>6
  <2>8. g \in [0 .. m -> S]
    <3>1. ASSUME NEW i \in 0 .. m, i # m PROVE f[i] \in S
      <4>1. i \in 0 .. m - 1
        BY <2>2, <3>1
      <4> QED
        BY <2>6, <4>1
    <3> QED
      BY <2>7, <3>1
  <2>9. g[0] = b
    BY <2>2, <2>3, <2>6
  <2>10. ASSUME NEW i \in 1 .. m PROVE g[i] = step[i][g[i - 1]]
    <3>1. i - 1 \in 0 .. m /\ i - 1 # m /\ i \in 0 .. m
      BY <2>2
    <3>2. g[i - 1] = f[i - 1]
      BY <3>1
    <3>3. CASE i = m
      BY <3>1, <3>2, <3>3
    <3>4. CASE i # m
      <4>1. i \in 1 .. m - 1
        BY <2>2, <3>4
      <4>2. g[i] = f[i] /\ f[i] = step[i][f[i - 1]]
        BY <2>6, <3>1, <3>4, <4>1
      <4> QED
        BY <3>2, <4>2
    <3> QED
      BY <3>3, <3>4
  <2> HIDE DEF g
  <2>11. Good(m, g)
    BY <2>8, <2>9, <2>10
  <2> HIDE DEF Good
  <2> QED
    BY <2>2, <2>11
<1>2. \E f : Good(n, f)
  BY <1>1
<1> QED
  BY <1>2 DEF Runs

-----------------------------------------------------------------------------
(* Rounding. *)

(* Quotient and remainder are the only ones. *)
LEMMA DivMod ==
  ASSUME NEW a \in Int, NEW s \in Nat \ {0}, NEW q \in Int, NEW m \in 0 .. s - 1, a = q * s + m
  PROVE  a \div s = q /\ a % s = m
<1>1. /\ a \div s \in Int /\ a % s \in 0 .. s - 1 /\ a = s * (a \div s) + (a % s)
  OBVIOUS
<1> DEFINE Q == a \div s
           M == a % s
<1>2. Q \in Int /\ M \in 0 .. s - 1 /\ a = s * Q + M
  BY <1>1
<1> HIDE DEF Q, M
<1>3. s * (q - Q) = M - m
  BY <1>2
<1>4. q - Q = 0
  <2>1. ASSUME NEW k \in Int, k >= 1 PROVE s * k >= s
    BY <2>1
  <2>2. CASE q - Q >= 1
    <3>1. s * (q - Q) >= s
      BY <1>2, <2>1, <2>2
    <3> QED
      BY <1>2, <1>3, <3>1
  <2>3. CASE Q - q >= 1
    <3>1. s * (Q - q) >= s
      BY <1>2, <2>1, <2>3
    <3>2. s * (Q - q) = m - M
      BY <1>2, <1>3
    <3> QED
      BY <1>2, <3>1, <3>2
  <2> QED
    BY <1>2, <2>2, <2>3
<1>5. q = Q /\ m = M
  BY <1>2, <1>3, <1>4
<1> QED
  BY <1>5 DEF Q, M

(* A rounded quotient is an integer. *)
LEMMA RoundDivType ==
  ASSUME NEW a \in Int, NEW s \in Nat \ {0}
  PROVE  RoundDiv(a, s) \in Int
<1>1. \A x \in Int : x \div s \in Int
  OBVIOUS
<1>2. \A x \in Int : RoundUp(x, s) \in Int
  BY <1>1 DEF RoundUp
<1> QED
  BY <1>2 DEF RoundDiv

(* A number that is off by less than half a step rounds to what it stood for. *)
LEMMA RoundUpNear ==
  ASSUME NEW r \in Int, NEW s \in Nat, s >= 3, NEW d \in {-1, 0, 1}
  PROVE  RoundUp(r * s + d, s) = r
<1> DEFINE x == r * s + d
<1>1. x \in Int
  OBVIOUS
<1>2. CASE d \in {0, 1}
  <2>1. x \div s = r /\ x % s = d
    BY <1>2, DivMod
  <2> QED
    BY <1>2, <2>1 DEF RoundUp
<1>3. CASE d = -1
  <2>1. x = (r - 1) * s + (s - 1)
    BY <1>3
  <2>2. s - 1 \in 0 .. s - 1 /\ r - 1 \in Int /\ s \in Nat \ {0}
    OBVIOUS
  <2> HIDE DEF x
  <2>3. x \div s = r - 1 /\ x % s = s - 1
    BY <1>1, <2>1, <2>2, DivMod
  <2>4. RoundUp(x, s) = r
    BY <2>3 DEF RoundUp
  <2> QED
    BY <2>4 DEF x
<1> QED
  BY <1>2, <1>3

(* The same for numbers of both signs. *)
LEMMA RoundDivNear ==
  ASSUME NEW r \in Int, NEW s \in Nat, s >= 3, NEW d \in {-1, 0, 1}
  PROVE  RoundDiv(r * s + d, s) = r
<1> DEFINE x == r * s + d
<1>1. CASE x >= 0
  BY <1>1, RoundUpNear DEF RoundDiv
<1>2. CASE ~(x >= 0)
  <2>1. -x = (-r) * s + (-d) /\ -r \in Int /\ -d \in {-1, 0, 1}
    OBVIOUS
  <2>2. RoundUp((-r) * s + (-d), s) = -r
    BY <2>1, RoundUpNear
  <2>3. RoundUp(-x, s) = -r
    BY <2>1, <2>2
  <2> HIDE DEF x
  <2>4. RoundDiv(x, s) = r
    BY <1>2, <2>3 DEF RoundDiv
  <2> QED
    BY <2>4 DEF x
<1> QED
  BY <1>1, <1>2

(* Six decimals are off by one of our units at most. *)
LEMMA FmtNear ==
  ASSUME NEW v \in Int
  PROVE  \E d \in {-1, 0, 1} : fmt_num(v) = v + d
<1>1. \A x \in Int : x \div 2 \in Int /\ x % 2 \in 0 .. 1 /\ x = 2 * (x \div 2) + (x % 2)
  OBVIOUS
<1>2. ASSUME NEW x \in Int
      PROVE  2 * RoundUp(x, 2) = x \/ 2 * RoundUp(x, 2) = x + 1
  BY <1>1 DEF RoundUp
<1>3. CASE v >= 0
  <2>1. 2 * RoundUp(v, 2) - v \in {-1, 0, 1} /\ RoundUp(v, 2) \in Int
    BY <1>1, <1>2 DEF RoundUp
  <2> QED
    BY <1>3, <2>1 DEF fmt_num, RoundDiv
<1>4. CASE ~(v >= 0)
  <2>1. 2 * RoundUp(-v, 2) + v \in {-1, 0, 1} /\ RoundUp(-v, 2) \in Int
    BY <1>1, <1>2 DEF RoundUp
  <2> QED
    BY <1>4, <2>1 DEF fmt_num, RoundDiv
<1> QED
  BY <1>3, <1>4

Held == [1 .. TuneLen -> 0 .. 255]
Classes == {"Scalar", "Bits", "Array", "String"}
Types == {"U08", "S08", "U16"}

GoodConst(c) ==
  /\ c.class \in Classes /\ c.ty \in Types /\ c.name \in STRING
  /\ c.lo \in 0 .. 15 /\ c.hi \in 0 .. 15 /\ c.lo <= c.hi
  /\ c.at \in Nat \ {0} /\ c.n \in Nat \ {0} /\ c.at + ByteSize(c) - 1 <= TuneLen
  /\ c.scale \in Nat /\ c.tr \in Int /\ c.min \in Int /\ c.max \in Int
  /\ c.labels \in Seq(STRING)

(* What an expression may give. *)
BitValues == [{Def[i].name : i \in BitFields} -> Nat]
KnownScales == \A b \in BitValues : ScaleOf(b) \in Nat \cup {NoScale}
(* No scale is finer than the six decimals of a file. *)
FineScales ==
  /\ KnownScales
  /\ \A i \in DOMAIN Def : Def[i].scale = 0 \/ Def[i].scale >= 3
  /\ \A b \in BitValues : ScaleOf(b) > 0 => ScaleOf(b) >= 3

(* A constant of the definition is one that MsqAssumption allows. *)
LEMMA DefGood ==
  /\ Len(Def) \in Nat /\ DOMAIN Def = 1 .. Len(Def)
  /\ \A i \in DOMAIN Def : GoodConst(Def[i])
<1> DEFINE R == [name : STRING, class : {"Scalar", "Bits", "Array", "String"}, page : Int,
                  at : Int, ty : {"U08", "S08", "U16"}, n : Int, lo : 0 .. 15, hi : 0 .. 15,
                  scale : Nat, tr : Int, min : Int, max : Int, labels : Seq(STRING),
                  nosave : BOOLEAN]
<1>1. Def \in Seq(R) /\ \A i \in DOMAIN Def : InPage(Def[i]) /\ Def[i].lo <= Def[i].hi
  BY MsqAssumption
<1>2. Len(Def) \in Nat /\ DOMAIN Def = 1 .. Len(Def)
  BY <1>1, LenProperties
<1>3. ASSUME NEW i \in DOMAIN Def PROVE GoodConst(Def[i])
  <2>1. Def[i] \in R
    BY <1>1, <1>2, <1>3, ElementOfSeq
  <2>2. InPage(Def[i]) /\ Def[i].lo <= Def[i].hi
    BY <1>1
  <2> QED
    BY <2>1, <2>2 DEF GoodConst, InPage, Classes, Types
<1> QED
  BY <1>2, <1>3

(* A name stands for one constant. *)
LEMMA ConstIs ==
  /\ \A i \in DOMAIN Def : Const(Def[i].name) = Def[i] /\ Def[i].name \in Names
  /\ \A x \in Names : GoodConst(Const(x)) /\ \E i \in DOMAIN Def : Const(x) = Def[i]
<1>1. ASSUME NEW i \in DOMAIN Def PROVE Const(Def[i].name) = Def[i] /\ Def[i].name \in Names
  <2> DEFINE x == Def[i].name
             j == CHOOSE j \in DOMAIN Def : Def[j].name = x
  <2>1. j \in DOMAIN Def /\ Def[j].name = x
    OBVIOUS
  <2>2. j = i
    BY <2>1, TuneValuesAssumption
  <2>3. x \in Names
    BY DEF Names
  <2>4. Const(x) = Def[j]
    BY <2>3 DEF Const, ByName
  <2> QED
    BY <2>2, <2>3, <2>4
<1>2. ASSUME NEW x \in Names PROVE GoodConst(Const(x)) /\ \E i \in DOMAIN Def : Const(x) = Def[i]
  <2>1. PICK i \in DOMAIN Def : Def[i].name = x
    BY DEF Names
  <2>2. Const(x) = Def[i]
    BY <1>1, <2>1
  <2> QED
    BY <2>2, DefGood
<1> QED
  BY <1>1, <1>2

(* The powers of two solve their equation. *)
LEMMA Pow2Is == Pow2 = [k \in 0 .. 16 |-> IF k = 0 THEN 1 ELSE 2 * Pow2[k - 1]]
<1> DEFINE S == Nat \ {0}
           step == [i \in 1 .. 16 |-> [x \in S |-> 2 * x]]
<1>0. 1 \in S /\ step \in [1 .. 16 -> [S -> S]] /\ 16 \in Nat
  OBVIOUS
<1>1. PICK f \in [0 .. 16 -> S] : Runs(f, 16, 1, step)
  <2> HIDE DEF step, S
  <2> QED
    BY <1>0, RunExists
<1>2. f = [k \in 0 .. 16 |-> IF k = 0 THEN 1 ELSE 2 * f[k - 1]]
  <2>1. ASSUME NEW k \in 0 .. 16 PROVE f[k] = IF k = 0 THEN 1 ELSE 2 * f[k - 1]
    <3>1. CASE k = 0
      BY <1>1, <3>1 DEF Runs
    <3>2. CASE k # 0
      <4>1. k \in 1 .. 16 /\ k - 1 \in 0 .. 16
        BY <3>2
      <4>2. f[k] = step[k][f[k - 1]] /\ f[k - 1] \in S
        BY <1>1, <4>1 DEF Runs
      <4> QED
        BY <3>2, <4>1, <4>2
    <3> QED
      BY <3>1, <3>2
  <2> HIDE DEF S
  <2> QED
    BY <1>1, <2>1
<1> QED
  BY <1>2 DEF Pow2

(* They are positive. *)
LEMMA Pow2Facts == \A k \in 0 .. 16 : Pow2[k] \in Nat \ {0}
<1> DEFINE S == Nat \ {0}
<1>1. Pow2 = [k \in 0 .. 16 |-> IF k = 0 THEN 1 ELSE 2 * Pow2[k - 1]]
  BY Pow2Is
<1> DEFINE T == {k \in Nat : k <= 16 /\ Pow2[k] \notin S}
<1>2. T = {}
  <2> SUFFICES ASSUME T # {} PROVE FALSE
    OBVIOUS
  <2>1. PICK k \in T : \A y \in T : k <= y
    <3>1. T \in SUBSET Nat
      OBVIOUS
    <3> HIDE DEF T
    <3> QED
      BY <3>1, LeastNat
  <2>2. k \in 0 .. 16 /\ Pow2[k] \notin S
    OBVIOUS
  <2>3. k # 0
    BY <1>1, <2>2
  <2>4. k - 1 \in Nat /\ k - 1 <= 16 /\ ~(k <= k - 1)
    BY <2>2, <2>3
  <2>5. Pow2[k - 1] \in S
    BY <2>1, <2>4
  <2>6. Pow2[k] = 2 * Pow2[k - 1]
    BY <1>1, <2>2, <2>3
  <2> QED
    BY <2>2, <2>5, <2>6
<1> QED
  BY <1>2

(* The bounds of a bit field. *)
LEMMA WidthFacts ==
  ASSUME NEW c, GoodConst(c)
  PROVE  Width(c) \in 1 .. 16 /\ Pow2[Width(c)] \in Nat \ {0} /\ Pow2[c.lo] \in Nat \ {0}
<1> DEFINE l == c.lo
           h == c.hi
<1>1. l \in 0 .. 15 /\ h \in 0 .. 15 /\ l <= h
  BY DEF GoodConst
<1>2. Width(c) = h - l + 1
  BY DEF Width
<1> HIDE DEF l, h
<1>3. Width(c) \in 1 .. 16 /\ l \in 0 .. 16 /\ Width(c) \in 0 .. 16
  BY <1>1, <1>2
<1>4. Pow2[Width(c)] \in Nat \ {0} /\ Pow2[l] \in Nat \ {0}
  BY <1>3, Pow2Facts
<1> QED
  BY <1>3, <1>4 DEF l

(* A bit field is a natural number. *)
LEMMA FieldType ==
  ASSUME NEW c, GoodConst(c), NEW raw \in Int
  PROVE  Field(c, raw) \in Nat
<1> DEFINE a == Pow2[c.lo]
           b == Pow2[Width(c)]
<1>1. a \in Nat \ {0} /\ b \in Nat \ {0}
  BY WidthFacts
<1> HIDE DEF a, b
<1>2. raw \div a \in Int
  BY <1>1
<1>3. (raw \div a) % b \in Nat
  BY <1>1, <1>2
<1> QED
  BY <1>3 DEF Field, a, b

(* Bytes. *)
InRange(ty, r) == r \in Int /\ type_range(ty)[1] <= r /\ r <= type_range(ty)[2]

(* The range of a type. *)
LEMMA RangeInt == \A ty \in Types : type_range(ty)[1] \in Int /\ type_range(ty)[2] \in Int
BY DEF type_range, Types

(* What is read from bytes is in the range of its type. *)
LEMMA ReadType ==
  ASSUME NEW t \in Held, NEW ty \in Types, NEW at \in Nat \ {0}, at + Size(ty) - 1 <= TuneLen
  PROVE  InRange(ty, read_raw(t, at, ty)) /\ read_raw(t, at, ty) \in Int
<1>0. TuneLen \in Nat
  BY MsqAssumption
<1>1. CASE ty = "U16"
  <2>1. at \in 1 .. TuneLen /\ at + 1 \in 1 .. TuneLen
    BY <1>0, <1>1 DEF Size
  <2>2. t[at] \in 0 .. 255 /\ t[at + 1] \in 0 .. 255
    BY <2>1 DEF Held
  <2>3. read_raw(t, at, ty) = t[at] + 256 * t[at + 1]
    BY <1>1 DEF read_raw, Size, Signed
  <2>4. type_range(ty)[1] = 0 /\ type_range(ty)[2] = 65535
    BY <1>1 DEF type_range
  <2> DEFINE u == t[at]
             v == t[at + 1]
  <2>5. u \in 0 .. 255 /\ v \in 0 .. 255
    BY <2>2
  <2>6. read_raw(t, at, ty) = u + 256 * v
    BY <2>3
  <2> HIDE DEF u, v
  <2>7. u + 256 * v \in Int /\ 0 <= u + 256 * v /\ u + 256 * v <= 65535
    BY <2>5
  <2> QED
    BY <2>4, <2>6, <2>7 DEF InRange
<1>2. CASE ty # "U16"
  <2>1. at \in 1 .. TuneLen
    BY <1>0, <1>2 DEF Size
  <2>2. t[at] \in 0 .. 255
    BY <2>1 DEF Held
  <2> DEFINE u == t[at]
  <2>3. read_raw(t, at, ty) = IF ty = "S08" /\ u > 127 THEN u - 256 ELSE u
    BY <1>2 DEF read_raw, Size, Signed
  <2>4. u \in 0 .. 255
    BY <2>2
  <2> HIDE DEF u
  <2>5. CASE ty = "S08"
    <3>1. type_range(ty)[1] = -128 /\ type_range(ty)[2] = 127
      BY <2>5 DEF type_range
    <3> QED
      BY <2>3, <2>4, <2>5, <3>1 DEF InRange
  <2>6. CASE ty = "U08"
    <3>1. type_range(ty)[1] = 0 /\ type_range(ty)[2] = 255
      BY <2>6 DEF type_range
    <3> QED
      BY <2>3, <2>4, <2>6, <3>1 DEF InRange
  <2> QED
    BY <1>2, <2>5, <2>6 DEF Types
<1> QED
  BY <1>1, <1>2

(* A write leaves a tune. *)
LEMMA WriteType ==
  ASSUME NEW t \in Held, NEW at, NEW ty, NEW raw \in Int
  PROVE  write_raw(t, at, ty, raw) \in Held
<1>1. raw % 256 \in 0 .. 255 /\ (raw \div 256) % 256 \in 0 .. 255
  OBVIOUS
<1> DEFINE x == raw % 256
           y == (raw \div 256) % 256
<1>2. x \in 0 .. 255 /\ y \in 0 .. 255
  BY <1>1
<1> HIDE DEF x, y
<1>3. [t EXCEPT ![at] = x, ![at + 1] = y] \in Held /\ [t EXCEPT ![at] = x] \in Held
  BY <1>2 DEF Held
<1> QED
  BY <1>3 DEF write_raw, x, y

(* Where the bytes of a constant lie. *)
LEMMA Places ==
  ASSUME NEW c, GoodConst(c)
  PROVE  /\ Size(c.ty) \in {1, 2}
         /\ c.class \in {"Scalar", "Bits"} => c.at + Size(c.ty) - 1 <= TuneLen
         /\ c.class = "Array" => \A i \in 1 .. c.n :
              /\ c.at + (i - 1) * Size(c.ty) \in Nat \ {0}
              /\ c.at + (i - 1) * Size(c.ty) + Size(c.ty) - 1 <= TuneLen
         /\ c.class = "String" => c.at + c.n - 1 <= TuneLen
<1>0. TuneLen \in Nat
  BY MsqAssumption
<1>1. Size(c.ty) \in {1, 2}
  BY DEF Size
<1>2. c.class \in {"Scalar", "Bits"} => ByteSize(c) = Size(c.ty)
  BY DEF ByteSize
<1>3. c.class \in {"Array", "String"} => ByteSize(c) = c.n * Size(c.ty)
  BY DEF ByteSize
<1> DEFINE z == Size(c.ty)
           a == c.at
           n == c.n
<1>4. z \in {1, 2} /\ a \in Nat \ {0} /\ n \in Nat \ {0}
  BY <1>1 DEF GoodConst
<1>5. c.class \in {"Array", "String"} => a + n * z - 1 <= TuneLen
  BY <1>3 DEF GoodConst
<1>6. c.class \in {"Scalar", "Bits"} => a + z - 1 <= TuneLen
  BY <1>2 DEF GoodConst
<1> HIDE DEF z, a, n
<1>7. ASSUME a + n * z - 1 <= TuneLen, NEW i \in 1 .. n
      PROVE  a + (i - 1) * z \in Nat \ {0} /\ a + (i - 1) * z + z - 1 <= TuneLen
  <2>1. CASE z = 1
    BY <1>0, <1>4, <1>7, <2>1
  <2>2. CASE z = 2
    BY <1>0, <1>4, <1>7, <2>2
  <2> QED
    BY <1>4, <2>1, <2>2
<1>8. a + n * z - 1 <= TuneLen => a + n - 1 <= TuneLen
  <2>1. CASE z = 1
    BY <1>0, <1>4, <2>1
  <2>2. CASE z = 2
    BY <1>0, <1>4, <2>2
  <2> QED
    BY <1>4, <2>1, <2>2
<1> QED
  BY <1>4, <1>5, <1>6, <1>7, <1>8 DEF z, a, n

(* The bit fields of a tune, as scales see them. *)
LEMMA BitsType ==
  ASSUME NEW t \in Held
  PROVE  /\ BitsOf(t) \in BitValues
         /\ \A i \in BitFields : Raw(Def[i], t) = <<BitsOf(t)[Def[i].name]>>
<1> DEFINE N == {Def[i].name : i \in BitFields}
           G(c) == Field(c, read_raw(t, c.at, c.ty))
<1>1. ASSUME NEW i \in BitFields
      PROVE  /\ Const(Def[i].name) = Def[i] /\ Def[i].class = "Bits"
             /\ G(Def[i]) \in Nat /\ Raw(Def[i], t) = <<G(Def[i])>>
  <2>1. i \in DOMAIN Def /\ Def[i].class = "Bits"
    BY DEF BitFields
  <2>2. Const(Def[i].name) = Def[i] /\ GoodConst(Def[i])
    BY <2>1, ConstIs, DefGood
  <2>3. read_raw(t, Def[i].at, Def[i].ty) \in Int
    BY <2>1, <2>2, Places, ReadType DEF GoodConst
  <2> QED
    BY <2>1, <2>2, <2>3, FieldType DEF Raw
<1>2. BitsOf(t) = [n \in N |-> G(Const(n))]
  BY DEF BitsOf
<1>3. \A n \in N : G(Const(n)) \in Nat
  BY <1>1
<1>4. \A i \in BitFields : Def[i].name \in N
  OBVIOUS
<1>5. \A i \in BitFields : BitsOf(t)[Def[i].name] = G(Def[i])
  BY <1>1, <1>2, <1>4
<1>6. BitsOf(t) \in [N -> Nat]
  BY <1>2, <1>3
<1> HIDE DEF G, N
<1> QED
  BY <1>1, <1>5, <1>6 DEF BitValues, N

(* The scale of a constant is one of them. *)
LEMMA ScaleKnown ==
  ASSUME KnownScales, NEW x \in Names, NEW t \in Held
  PROVE  Scale(Const(x), t) \in Nat \cup {NoScale}
<1>1. PICK i \in DOMAIN Def : Const(x) = Def[i]
  BY ConstIs
<1>2. Def[i].scale \in Nat
  BY DefGood DEF GoodConst
<1>3. ScaleOf(BitsOf(t)) \in Nat \cup {NoScale}
  BY BitsType DEF KnownScales
<1> QED
  BY <1>1, <1>2, <1>3 DEF Scale

(* Scales that are not too fine are known. *)
LEMMA FineKnown == FineScales => KnownScales
BY DEF FineScales

(* One that encodes is a number to divide by. *)
LEMMA ScalePositive ==
  ASSUME KnownScales, NEW x \in Names, NEW t \in Held, HasScale(Const(x), t)
  PROVE  Scale(Const(x), t) \in Nat \ {0}
BY ScaleKnown DEF HasScale, NoScale

(* One that does not fail is a number. *)
LEMMA ScaleNumber ==
  ASSUME KnownScales, NEW x \in Names, NEW t \in Held, Scale(Const(x), t) # NoScale
  PROVE  Scale(Const(x), t) \in Nat
BY ScaleKnown

(* No scale that encodes is finer than three of our units. *)
LEMMA ScaleType ==
  ASSUME FineScales, NEW x \in Names, NEW t \in Held, HasScale(Const(x), t)
  PROVE  Scale(Const(x), t) \in Nat /\ Scale(Const(x), t) >= 3
<1>1. PICK i \in DOMAIN Def : Const(x) = Def[i]
  BY ConstIs
<1>2. Def[i].scale = 0 \/ Def[i].scale >= 3
  BY DEF FineScales
<1>3. Scale(Const(x), t) \in Nat \ {0}
  BY ScalePositive DEF FineScales
<1>4. ScaleOf(BitsOf(t)) > 0 => ScaleOf(BitsOf(t)) >= 3
  BY BitsType DEF FineScales
<1> QED
  BY <1>1, <1>2, <1>3, <1>4 DEF Scale

(* Clamping leaves alone what is in range. *)
LEMMA ClampType ==
  ASSUME NEW x \in Int, NEW lo \in Int, NEW hi \in Int
  PROVE  /\ Clamp(x, lo, hi) \in Int
         /\ x \in lo .. hi => Clamp(x, lo, hi) = x
BY DEF Clamp, AtMost, AtLeast

(* An encoded value is an integer. *)
LEMMA EncodeType ==
  ASSUME KnownScales, NEW x \in Names, NEW t \in Held, NEW user \in Int, NEW clamp \in BOOLEAN,
         HasScale(Const(x), t)
  PROVE  encode_impl(Const(x), t, user, clamp) \in Int
<1> DEFINE c == Const(x)
           s == Scale(c, t)
           u == IF clamp THEN Clamp(user, c.min, c.max) ELSE user
           r == type_range(c.ty)
<1>1. GoodConst(c) /\ s \in Nat \ {0}
  BY ConstIs, ScalePositive
<1>2. c.min \in Int /\ c.max \in Int /\ c.tr \in Int /\ c.ty \in Types
  BY <1>1 DEF GoodConst
<1>3. u \in Int
  BY <1>2, ClampType
<1>4. r[1] \in Int /\ r[2] \in Int
  BY <1>2 DEF type_range, Types
<1> DEFINE a == u - c.tr * s
<1>5. a \in Int /\ s \in Nat \ {0}
  BY <1>1, <1>2, <1>3
<1>e. encode_impl(c, t, user, clamp) = Clamp(RoundDiv(a, s), r[1], r[2])
  BY DEF encode_impl
<1> HIDE DEF a, s, r, u
<1>6. RoundDiv(a, s) \in Int
  BY <1>5, RoundDivType
<1> QED
  BY <1>4, <1>6, <1>e, ClampType

(* Setting a bit field leaves a tune. *)
LEMMA SetBitsType ==
  ASSUME NEW c, GoodConst(c), c.class = "Bits", NEW t \in Held, NEW v \in Int
  PROVE  SetBits(c, t, v) \in Held
<1> DEFINE raw == read_raw(t, c.at, c.ty)
           f == Field(c, raw)
           b == Pow2[Width(c)]
           a == Pow2[c.lo]
<1>1. raw \in Int
  BY Places, ReadType DEF GoodConst
<1>2. f \in Nat /\ b \in Nat \ {0} /\ a \in Nat \ {0}
  BY <1>1, FieldType, WidthFacts
<1>s. SetBits(c, t, v) = write_raw(t, c.at, c.ty, raw + ((v % b) - f) * a)
  BY DEF SetBits
<1> HIDE DEF raw, f, a, b
<1>3. v % b \in Int
  BY <1>2
<1>4. raw + ((v % b) - f) * a \in Int
  BY <1>1, <1>2, <1>3
<1> QED
  BY <1>4, <1>s, WriteType

(* So does every set_constant and every set_array_element. *)
LEMMA SetType ==
  ASSUME KnownScales, NEW x \in Names, NEW t \in Held, NEW user \in Int, NEW clamp \in BOOLEAN
  PROVE  /\ set_constant_impl(Const(x), t, user, clamp) \in Held
         /\ \A i : set_array_element_impl(Const(x), t, i, user, clamp) \in Held
<1>1. HasScale(Const(x), t) => encode_impl(Const(x), t, user, clamp) \in Int
  BY EncodeType
<1>2. \A i : set_array_element_impl(Const(x), t, i, user, clamp) \in Held
  BY <1>1, WriteType DEF set_array_element_impl
<1>3. AtLeast(RoundDiv(user, One), 0) \in Int
  <2>1. One \in Nat \ {0}
    BY DEF One
  <2>2. RoundDiv(user, One) \in Int
    BY <2>1, RoundDivType
  <2> QED
    BY <2>2 DEF AtLeast
<1>4. set_constant_impl(Const(x), t, user, clamp) \in Held
  <2>1. CASE Const(x).class = "Bits"
    BY <1>3, <2>1, ConstIs, SetBitsType DEF set_constant_impl
  <2>2. CASE Const(x).class # "Bits"
    BY <1>1, <2>2, WriteType DEF set_constant_impl
  <2> QED
    BY <2>1, <2>2
<1> QED
  BY <1>2, <1>4

(* What every step of a recursion keeps, its result has. *)
LEMMA RunType ==
  ASSUME NEW n \in Nat, NEW a \in 0 .. n, NEW S, NEW g, g[a] \in S,
         \A i \in a + 1 .. n : g[i - 1] \in S => g[i] \in S
  PROVE  \A i \in a .. n : g[i] \in S
<1> DEFINE T == {m \in Nat : m \in a .. n /\ g[m] \notin S}
<1>1. T = {}
  <2> SUFFICES ASSUME T # {} PROVE FALSE
    OBVIOUS
  <2>1. PICK m \in T : \A y \in T : m <= y
    <3>1. T \in SUBSET Nat
      OBVIOUS
    <3> HIDE DEF T
    <3> QED
      BY <3>1, LeastNat
  <2>2. m \in Nat /\ m \in a .. n /\ g[m] \notin S
    OBVIOUS
  <2>3. m # a
    BY <2>2
  <2>4. m - 1 \in Nat /\ m - 1 \in a .. n /\ ~(m <= m - 1) /\ m \in a + 1 .. n
    BY <2>2, <2>3
  <2>5. m - 1 \notin T
    BY <2>1, <2>4
  <2>6. g[m - 1] \in S
    BY <2>4, <2>5
  <2> QED
    BY <2>2, <2>4, <2>6
<1>2. \A i \in a .. n : i \in Nat
  OBVIOUS
<1> QED
  BY <1>1, <1>2

(* The number that stands in a file for the raw value r. *)
Written(c, r, S) == fmt_num((r + c.tr) * S)

(* It is a number. *)
LEMMA WrittenType ==
  ASSUME NEW c, c.tr \in Int, c.ty \in Types, NEW S \in Nat, NEW r, InRange(c.ty, r)
  PROVE  Written(c, r, S) \in Int
<1> DEFINE q == c.tr
           v == (r + q) * S
<1>1. r \in Int /\ q \in Int
  BY DEF InRange
<1> HIDE DEF q
<1>2. v \in Int
  BY <1>1
<1> HIDE DEF v
<1>3. PICK d \in {-1, 0, 1} : fmt_num(v) = v + d
  BY <1>2, FmtNear
<1>4. fmt_num(v) \in Int
  BY <1>2, <1>3
<1> QED
  BY <1>4 DEF Written, v, q

(* The values that come back. *)
Encodes(x, t, S, r) ==
  x \in Names /\ S \in Nat /\ S >= 3 /\ Scale(Const(x), t) = S /\ InRange(Const(x).ty, r)

Encoded(c, t, v) == encode_impl(c, t, v, FALSE)

(* A number saved and read back gives the raw value it was saved from. *)
LEMMA EncodeBack ==
  \A x, t, S, r : Encodes(x, t, S, r) =>
    /\ Written(Const(x), r, S) \in Int
    /\ Encoded(Const(x), t, Written(Const(x), r, S)) = r
<1> SUFFICES ASSUME NEW x, NEW t, NEW S, NEW r, Encodes(x, t, S, r)
             PROVE  /\ Written(Const(x), r, S) \in Int
                    /\ Encoded(Const(x), t, Written(Const(x), r, S)) = r
  OBVIOUS
<1>0. x \in Names /\ S \in Nat /\ S >= 3 /\ Scale(Const(x), t) = S /\ InRange(Const(x).ty, r)
  BY DEF Encodes
<1> DEFINE c == Const(x)
           q == c.tr
           lo == type_range(c.ty)[1]
           hi == type_range(c.ty)[2]
           e == fmt_num((r + q) * S)
<1>1. q \in Int /\ c.ty \in Types
  BY <1>0, ConstIs DEF GoodConst
<1>2. lo \in Int /\ hi \in Int /\ r \in Int /\ r \in lo .. hi
  BY <1>0, <1>1, RangeInt DEF InRange
<1>3. encode_impl(c, t, e, FALSE) = Clamp(RoundDiv(e - q * S, S), lo, hi)
  BY <1>0 DEF encode_impl
<1>4. (r + q) * S \in Int
  BY <1>0, <1>1, <1>2
<1>5. PICK d \in {-1, 0, 1} : e = (r + q) * S + d
  BY <1>4, FmtNear
<1> HIDE DEF e, q, lo, hi, c
<1>6. e - q * S = r * S + d /\ e \in Int
  BY <1>0, <1>1, <1>2, <1>5
<1>7. RoundDiv(r * S + d, S) = r
  <2>1. r \in Int
    BY <1>2
  <2> QED
    BY <1>0, <2>1, RoundDivNear
<1>8. Clamp(r, lo, hi) = r
  BY <1>2, ClampType
<1> QED
  BY <1>3, <1>6, <1>7, <1>8 DEF c, e, q, Written, Encoded

(* One unit of the user. *)
LEMMA OneFact == One \in Nat \ {0}
BY DEF One

(* A function on 1 .. n is a sequence. *)
LEMMA FunIsSeq ==
  ASSUME NEW n \in Nat, NEW S, NEW f \in [1 .. n -> S]
  PROVE  f \in Seq(S) /\ Len(f) = n
OBVIOUS

(* The raw values of a constant. *)
LEMMA RawFacts ==
  ASSUME NEW x \in Names, NEW t \in Held
  PROVE  LET c == Const(x) IN
         /\ c.class = "Scalar" => /\ Raw(c, t) = <<read_raw(t, c.at, c.ty)>>
                                  /\ InRange(c.ty, Raw(c, t)[1])
         /\ c.class = "Bits" => \E k \in Nat : Raw(c, t) = <<k>>
         /\ c.class = "Array" => /\ Raw(c, t) \in [1 .. c.n -> Int]
                                 /\ \A i \in 1 .. c.n : InRange(c.ty, Raw(c, t)[i])
         /\ c.class = "String" => Raw(c, t) \in Seq(Int)
<1> DEFINE c == Const(x)
<1>0. GoodConst(c) /\ c.ty \in Types /\ c.at \in Nat \ {0} /\ c.n \in Nat \ {0}
  BY ConstIs DEF GoodConst
<1>p. /\ c.class \in {"Scalar", "Bits"} => c.at + Size(c.ty) - 1 <= TuneLen
      /\ c.class = "Array" => \A i \in 1 .. c.n :
              /\ c.at + (i - 1) * Size(c.ty) \in Nat \ {0}
              /\ c.at + (i - 1) * Size(c.ty) + Size(c.ty) - 1 <= TuneLen
      /\ c.class = "String" => c.at + c.n - 1 <= TuneLen
  BY <1>0, Places
<1> HIDE DEF c
<1>1. ASSUME c.class = "Scalar"
      PROVE  Raw(c, t) = <<read_raw(t, c.at, c.ty)>> /\ InRange(c.ty, Raw(c, t)[1])
  <2>1. Raw(c, t) = <<read_raw(t, c.at, c.ty)>>
    BY <1>1 DEF Raw
  <2>2. InRange(c.ty, read_raw(t, c.at, c.ty))
    BY <1>0, <1>p, <1>1, ReadType
  <2> QED
    BY <2>1, <2>2
<1>2. ASSUME c.class = "Bits" PROVE \E k \in Nat : Raw(c, t) = <<k>>
  <2>1. Raw(c, t) = <<Field(c, read_raw(t, c.at, c.ty))>>
    BY <1>2 DEF Raw
  <2>2. read_raw(t, c.at, c.ty) \in Int
    BY <1>0, <1>p, <1>2, ReadType
  <2>3. Field(c, read_raw(t, c.at, c.ty)) \in Nat
    BY <1>0, <2>2, FieldType
  <2> QED
    BY <2>1, <2>3
<1>3. ASSUME c.class = "Array"
      PROVE  Raw(c, t) \in [1 .. c.n -> Int] /\ \A i \in 1 .. c.n : InRange(c.ty, Raw(c, t)[i])
  <2>1. Raw(c, t) = [i \in 1 .. c.n |-> read_raw(t, c.at + (i - 1) * Size(c.ty), c.ty)]
    BY <1>3 DEF Raw
  <2>2. ASSUME NEW i \in 1 .. c.n
        PROVE  InRange(c.ty, read_raw(t, c.at + (i - 1) * Size(c.ty), c.ty))
               /\ read_raw(t, c.at + (i - 1) * Size(c.ty), c.ty) \in Int
    <3> DEFINE a == c.at + (i - 1) * Size(c.ty)
    <3>1. a \in Nat \ {0} /\ a + Size(c.ty) - 1 <= TuneLen
      BY <1>p, <1>3
    <3> HIDE DEF a
    <3>2. InRange(c.ty, read_raw(t, a, c.ty)) /\ read_raw(t, a, c.ty) \in Int
      BY <1>0, <3>1, ReadType
    <3> QED
      BY <3>2 DEF a
  <2> QED
    BY <2>1, <2>2
<1>4. ASSUME c.class = "String" PROVE Raw(c, t) \in Seq(Int)
  <2>0. TuneLen \in Nat /\ t \in [1 .. TuneLen -> 0 .. 255]
    BY MsqAssumption DEF Held
  <2>1. \A j \in 1 .. TuneLen : t[j] \in 0 .. 255
    BY <2>0
  <2>2. \A j \in c.at .. c.at + c.n - 1 : j \in 1 .. TuneLen
    BY <1>0, <1>p, <1>4, <2>0
  <2>3. \A j \in c.at .. c.at + c.n - 1 : t[j] \in Int
    BY <2>1, <2>2
  <2>4. SubSeq(t, c.at, c.at + c.n - 1) \in Seq(Int)
    BY <1>0, <2>3, SubSeqProperties
  <2> QED
    BY <1>4, <2>4 DEF Raw
<1> QED
  BY <1>1, <1>2, <1>3, <1>4 DEF c

(* What save writes of a constant. *)
LEMMA SavedFacts ==
  ASSUME KnownScales, NEW x \in Names, NEW t \in Held, Resolves(Const(x), t)
  PROVE  LET c == Const(x) IN
         /\ IsValue(Saved(c, t))
         /\ c.class = "Scalar" =>
              Saved(c, t) = Num(Written(c, Raw(c, t)[1], Scale(c, t)))
         /\ c.class = "Array" =>
              Saved(c, t) = parse_body([i \in 1 .. c.n |-> Written(c, Raw(c, t)[i], Scale(c, t))])
         /\ c.class = "Bits" =>
              Saved(c, t) = IF HasLabel(c, Raw(c, t)[1]) THEN Txt(c.labels[Raw(c, t)[1] + 1])
                            ELSE Num(Raw(c, t)[1] * One)
<1> DEFINE c == Const(x)
           S == Scale(c, t)
           R == Raw(c, t)
           fs == [i \in 1 .. c.n |-> Written(c, R[i], S)]
<1>0. /\ c.class \in Classes /\ c.n \in Nat \ {0} /\ c.labels \in Seq(STRING)
      /\ c.tr \in Int /\ c.ty \in Types
  BY ConstIs DEF GoodConst
<1>s. c.class \in {"Scalar", "Array"} => S \in Nat
  BY ScaleNumber DEF Resolves
<1>r. /\ c.class = "Scalar" => R = <<read_raw(t, c.at, c.ty)>> /\ InRange(c.ty, R[1])
      /\ c.class = "Bits" => \E k \in Nat : R = <<k>>
      /\ c.class = "Array" => R \in [1 .. c.n -> Int] /\ \A i \in 1 .. c.n : InRange(c.ty, R[i])
      /\ c.class = "String" => R \in Seq(Int)
  BY RawFacts
<1>f. c.class \in {"Scalar", "Array"} =>
        \A r : InRange(c.ty, r) => Written(c, r, S) \in Int
  BY <1>0, <1>s, WrittenType
<1>v. /\ \A v \in Int : IsValue(Num(v))
      /\ \A s : IsValue(Txt(s))
      /\ \A vs \in Seq(Int) : IsValue(Arr(vs)) /\ IsValue(Str(vs))
  <2>1. <<>> \in Seq(Int)
    OBVIOUS
  <2> QED
    BY <2>1 DEF Num, Txt, Str, Arr, IsValue
<1>1. ASSUME c.class = "Scalar"
      PROVE  Saved(c, t) = Num(Written(c, R[1], S)) /\ IsValue(Saved(c, t))
  <2>1. Saved(c, t) = Num(fmt_num(Value(c, t)[1]))
    BY <1>1 DEF Saved
  <2>2. Value(c, t) = [i \in DOMAIN R |-> (R[i] + c.tr) * S]
    BY <1>1 DEF Value
  <2>3. DOMAIN R = 1 .. 1
    BY <1>r, <1>1
  <2>4. Value(c, t)[1] = (R[1] + c.tr) * S
    BY <2>2, <2>3
  <2>5. Written(c, R[1], S) \in Int
    BY <1>r, <1>1, <1>f
  <2> QED
    BY <2>1, <2>4, <2>5, <1>v DEF Written
<1>2. ASSUME c.class = "Array"
      PROVE  Saved(c, t) = parse_body(fs) /\ IsValue(Saved(c, t))
  <2>1. Saved(c, t) = parse_body([i \in DOMAIN Value(c, t) |-> fmt_num(Value(c, t)[i])])
    BY <1>2 DEF Saved
  <2>2. Value(c, t) = [i \in DOMAIN R |-> (R[i] + c.tr) * S]
    BY <1>2 DEF Value
  <2>3. DOMAIN R = 1 .. c.n
    BY <1>r, <1>2
  <2>4. [i \in DOMAIN Value(c, t) |-> fmt_num(Value(c, t)[i])] = fs
    BY <2>2, <2>3 DEF Written
  <2>5. \A i \in 1 .. c.n : Written(c, R[i], S) \in Int
    BY <1>r, <1>2, <1>f
  <2>6. fs \in Seq(Int) /\ fs[1] \in Int
    BY <1>0, <2>5
  <2>7. IsValue(parse_body(fs))
    BY <2>6, <1>v DEF parse_body
  <2> QED
    BY <2>1, <2>4, <2>7
<1>3. ASSUME c.class = "Bits"
      PROVE  /\ IsValue(Saved(c, t))
             /\ Saved(c, t) = IF HasLabel(c, R[1]) THEN Txt(c.labels[R[1] + 1])
                              ELSE Num(R[1] * One)
  <2>1. Value(c, t) = R
    BY <1>3 DEF Value
  <2>2. Saved(c, t) = IF HasLabel(c, R[1]) THEN Txt(c.labels[R[1] + 1]) ELSE Num(R[1] * One)
    BY <1>3, <2>1 DEF Saved
  <2>3. R[1] \in Nat
    BY <1>r, <1>3
  <2>4. R[1] * One \in Int
    BY <2>3, OneFact
  <2> QED
    BY <2>2, <2>4, <1>v
<1>4. ASSUME c.class = "String" PROVE IsValue(Saved(c, t))
  <2>1. Value(c, t) = R
    BY <1>4 DEF Value
  <2>2. Saved(c, t) = Str(R)
    BY <1>4, <2>1 DEF Saved
  <2> QED
    BY <1>r, <1>4, <2>2, <1>v
<1> QED
  BY <1>0, <1>1, <1>2, <1>3, <1>4 DEF Classes

(* The slot of a bit field that a file saved from s stands for. *)
LEMMA SavedSlot ==
  ASSUME FineScales, NEW x \in Names, NEW s \in Held, Const(x).class = "Bits"
  PROVE  file_bits_index(Const(x), Saved(Const(x), s)) = Slot(Const(x), Raw(Const(x), s)[1])
<1> DEFINE c == Const(x)
           k == Raw(c, s)[1]
<1>1. k \in Nat
  BY RawFacts
<1>2. Saved(c, s) = IF HasLabel(c, k) THEN Txt(c.labels[k + 1]) ELSE Num(k * One)
  <2>1. Resolves(c, s)
    BY DEF Resolves
  <2> QED
    BY <2>1, FineKnown, SavedFacts
<1> HIDE DEF k
<1>3. CASE HasLabel(c, k)
  <2>1. file_bits_index(c, Saved(c, s)) = Slot(c, k)
    BY <1>2, <1>3 DEF Slot
  <2> QED
    BY <2>1 DEF k
<1>4. CASE ~HasLabel(c, k)
  <2>1. (k * One) \div One = k /\ k * One >= 0
    <3>1. One \in Nat \ {0} /\ k * One \in Int /\ k \in Int /\ 0 \in 0 .. One - 1
          /\ k * One = k * One + 0
      BY <1>1, OneFact
    <3>2. k * One >= 0
      BY <1>1, OneFact
    <3> QED
      BY <3>1, <3>2, DivMod
  <2>2. Cut(k * One) = k
    BY <2>1 DEF Cut
  <2>3. file_bits_index(c, Num(k * One)) = Cut(k * One)
    BY DEF file_bits_index, Num
  <2> QED
    <3>1. file_bits_index(c, Saved(c, s)) = Slot(c, k)
      BY <1>2, <1>4, <2>2, <2>3 DEF Slot
    <3> QED
      BY <3>1 DEF k
<1> QED
  BY <1>3, <1>4

-----------------------------------------------------------------------------
(* Owners: the bit fields that are saved are among them. *)
Skip(x, i) == \/ Def[i].nosave
              \/ /\ Def[i].class # "Bits"
                 /\ \E j \in x : Def[j].class # "Bits" /\ Overlaps(Def[j], Def[i])
SavedBits == {i \in BitFields : ~Def[i].nosave}
OwnedBody(f, i) == IF i = 0 THEN {}
                   ELSE IF Skip(f[i - 1], i) THEN f[i - 1] ELSE f[i - 1] \cup {i}
OwnedSolves(f) == f = [i \in 0 .. Len(Def) |-> OwnedBody(f, i)]

(* Owners is the last value of a solution of its equation. *)
LEMMA OwnersIs == Owners = (CHOOSE f : OwnedSolves(f))[Len(Def)]
BY DEF Owners, OwnedSolves, OwnedBody, Skip

(* Its equation has a solution. *)
LEMMA OwnedExists == \E f : OwnedSolves(f)
<1> DEFINE N == Len(Def)
           S == SUBSET (1 .. N)
           step == [i \in 1 .. N |-> [x \in S |-> IF Skip(x, i) THEN x ELSE x \cup {i}]]
<1>1. N \in Nat
  BY DefGood
<1>2. {} \in S /\ step \in [1 .. N -> [S -> S]]
  OBVIOUS
<1>3. PICK f \in [0 .. N -> S] : Runs(f, N, {}, step)
  <2> HIDE DEF S, step, N
  <2> QED
    BY <1>1, <1>2, RunExists
<1>4. ASSUME NEW i \in 0 .. N PROVE f[i] = OwnedBody(f, i)
  <2>1. CASE i = 0
    BY <1>3, <2>1 DEF Runs, OwnedBody
  <2>2. CASE i # 0
    <3>1. i \in 1 .. N /\ i - 1 \in 0 .. N
      BY <1>1, <2>2
    <3>2. f[i] = step[i][f[i - 1]] /\ f[i - 1] \in S
      BY <1>3, <3>1 DEF Runs
    <3> HIDE DEF S
    <3> QED
      BY <2>2, <3>1, <3>2 DEF OwnedBody
  <2> QED
    BY <2>1, <2>2
<1>5. f = [i \in 0 .. N |-> f[i]]
  <2> HIDE DEF S
  <2> QED
    BY <1>3
<1> QED
  BY <1>4, <1>5 DEF OwnedSolves

(* The owners of the bytes, one constant after the other. *)
LEMMA OwnersRun ==
  \E g : /\ g[0] = {} /\ g[Len(Def)] = Owners
         /\ \A i \in 1 .. Len(Def) :
              g[i] = IF Skip(g[i - 1], i) THEN g[i - 1] ELSE g[i - 1] \cup {i}
<1> DEFINE N == Len(Def)
           g == CHOOSE f : OwnedSolves(f)
<1>0. N \in Nat /\ 0 \in 0 .. N
  BY DefGood
<1>1. OwnedSolves(g)
  BY OwnedExists
<1>2. g[N] = Owners
  BY OwnersIs
<1> HIDE DEF g
<1>3. \A i \in 0 .. N : g[i] = OwnedBody(g, i)
  BY <1>1 DEF OwnedSolves
<1>4. g[0] = {}
  BY <1>0, <1>3 DEF OwnedBody
<1>5. ASSUME NEW i \in 1 .. N
      PROVE  g[i] = IF Skip(g[i - 1], i) THEN g[i - 1] ELSE g[i - 1] \cup {i}
  <2>1. i \in 0 .. N /\ i # 0
    BY <1>0
  <2> QED
    BY <1>3, <2>1 DEF OwnedBody
<1> QED
  BY <1>2, <1>4, <1>5

(* Bit fields share their bytes: none hides another. *)
LEMMA OwnersFacts == Owners \subseteq DOMAIN Def /\ SavedBits \subseteq Owners
<1> DEFINE N == Len(Def)
<1>0. N \in Nat /\ DOMAIN Def = 1 .. N /\ 0 \in 0 .. N /\ N \in 0 .. N
  BY DefGood
<1>1. PICK g : /\ g[0] = {} /\ g[N] = Owners
               /\ \A i \in 1 .. N :
                    g[i] = IF Skip(g[i - 1], i) THEN g[i - 1] ELSE g[i - 1] \cup {i}
  BY OwnersRun
<1>2. Owners = g[N]
  BY <1>1
<1>4. g[0] = {}
  BY <1>1
<1>5. \A i \in 1 .. N : g[i] = IF Skip(g[i - 1], i) THEN g[i - 1] ELSE g[i - 1] \cup {i}
  BY <1>1
<1>6. \A i \in 0 .. N : g[i] \in SUBSET (1 .. N)
  <2> DEFINE S == SUBSET (1 .. N)
  <2>1. g[0] \in S
    BY <1>4
  <2>2. ASSUME NEW i \in 0 + 1 .. N, g[i - 1] \in S PROVE g[i] \in S
    <3>1. i \in 1 .. N
      OBVIOUS
    <3>2. g[i] \subseteq g[i - 1] \cup {i}
      BY <1>5, <3>1
    <3> QED
      BY <2>2, <3>1, <3>2
  <2> HIDE DEF S, N
  <2>3. \A i \in 0 .. N : g[i] \in S
    BY <1>0, <2>1, <2>2, RunType
  <2> QED
    BY <2>3 DEF S
<1>7. ASSUME NEW b \in SavedBits PROVE b \in Owners
  <2> DEFINE S == {x \in SUBSET (1 .. N) : b \in x}
  <2>1. b \in 1 .. N /\ Def[b].class = "Bits" /\ ~Def[b].nosave
    BY <1>0 DEF BitFields, SavedBits
  <2>2. b \in g[b]
    BY <1>5, <2>1 DEF Skip
  <2>3. ASSUME NEW i \in b + 1 .. N, b \in g[i - 1] PROVE b \in g[i]
    <3>1. i \in 1 .. N
      BY <1>0, <2>1
    <3> QED
      BY <1>5, <2>3, <3>1
  <2>4. ASSUME NEW i \in 0 .. N PROVE g[i] \in S <=> b \in g[i]
    BY <1>6
  <2>5. g[b] \in S
    BY <2>1, <2>2, <2>4
  <2>6. \A i \in b + 1 .. N : g[i - 1] \in S => g[i] \in S
    <3>1. \A i \in b + 1 .. N : i \in 0 .. N /\ i - 1 \in 0 .. N
      BY <1>0, <2>1
    <3> HIDE DEF S
    <3> QED
      BY <2>3, <2>4, <3>1
  <2>7. b \in 0 .. N /\ N \in b .. N
    BY <1>0, <2>1
  <2> HIDE DEF S, N
  <2>8. \A i \in b .. N : g[i] \in S
    BY <1>0, <2>5, <2>6, <2>7, RunType
  <2> QED
    BY <1>2, <2>7, <2>8 DEF S
<1>8. Owners \subseteq DOMAIN Def
  BY <1>0, <1>2, <1>6
<1> QED
  BY <1>7, <1>8

-----------------------------------------------------------------------------
(* save: every owner with a value has its entry. *)
SavedOf(t) == {i \in Owners : Resolves(Def[i], t)}
EntryOf(t, i) == <<Def[i].name, Saved(Def[i], t)>>
SaveBody(f, t, i) == IF i = 0 THEN <<>>
                     ELSE IF i \in SavedOf(t) THEN Append(f[i - 1], EntryOf(t, i)) ELSE f[i - 1]
SaveSolves(f, t) == f = [i \in 0 .. Len(Def) |-> SaveBody(f, t, i)]
Entries(t) == {EntryOf(t, i) : i \in SavedOf(t)}

(* The entries of save are the last value of a solution of its equation. *)
LEMMA SaveIs ==
  \A t, pc : save(t, pc).entries = (CHOOSE f : SaveSolves(f, t))[Len(Def)]
BY DEF save, SaveSolves, SaveBody, EntryOf, SavedOf

(* Its equation has a solution. *)
LEMMA SaveExists ==
  ASSUME NEW t
  PROVE  \E f : SaveSolves(f, t)
<1> DEFINE N == Len(Def)
           S == Seq(Entries(t))
           step == [i \in 1 .. N |->
                      [x \in S |-> IF i \in SavedOf(t) THEN Append(x, EntryOf(t, i)) ELSE x]]
<1>1. N \in Nat /\ DOMAIN Def = 1 .. N
  BY DefGood
<1>2. <<>> \in S /\ step \in [1 .. N -> [S -> S]]
  <2>1. \A i \in SavedOf(t) : EntryOf(t, i) \in Entries(t)
    BY DEF Entries
  <2>2. \A i \in SavedOf(t) : \A x \in S : Append(x, EntryOf(t, i)) \in S
    BY <2>1, AppendProperties
  <2>3. <<>> \in S
    BY EmptySeq
  <2> HIDE DEF S
  <2> QED
    BY <2>2, <2>3
<1>3. PICK f \in [0 .. N -> S] : Runs(f, N, <<>>, step)
  <2> HIDE DEF S, step, N
  <2> QED
    BY <1>1, <1>2, RunExists
<1> HIDE DEF S
<1>4. ASSUME NEW i \in 0 .. N PROVE f[i] = SaveBody(f, t, i)
  <2>1. CASE i = 0
    BY <1>3, <2>1 DEF Runs, SaveBody
  <2>2. CASE i # 0
    <3>1. i \in 1 .. N /\ i - 1 \in 0 .. N
      BY <1>1, <2>2
    <3>2. f[i] = step[i][f[i - 1]] /\ f[i - 1] \in S
      BY <1>3, <3>1 DEF Runs
    <3> QED
      BY <2>2, <3>1, <3>2 DEF SaveBody
  <2> QED
    BY <2>1, <2>2
<1>5. f = [i \in 0 .. N |-> f[i]]
  BY <1>3
<1> QED
  BY <1>4, <1>5 DEF SaveSolves

(* Every one has its entry in the file, wherever it stands. *)
LEMMA SaveFacts ==
  ASSUME NEW t, NEW pc
  PROVE  /\ save(t, pc).entries \in Seq(Entries(t))
         /\ \A i \in SavedOf(t) : \E k \in DOMAIN save(t, pc).entries :
              save(t, pc).entries[k] = EntryOf(t, i)
<1> DEFINE N == Len(Def)
           g == CHOOSE f : SaveSolves(f, t)
           S == Seq(Entries(t))
<1>0. N \in Nat /\ DOMAIN Def = 1 .. N /\ 0 \in 0 .. N /\ N \in 0 .. N
  BY DefGood
<1>1. SaveSolves(g, t)
  BY SaveExists
<1>2. save(t, pc).entries = g[N]
  BY SaveIs
<1> HIDE DEF g
<1>3. \A i \in 0 .. N : g[i] = SaveBody(g, t, i)
  BY <1>1 DEF SaveSolves
<1>4. g[0] = <<>>
  BY <1>0, <1>3 DEF SaveBody
<1>5. ASSUME NEW i \in 1 .. N
      PROVE  g[i] = IF i \in SavedOf(t) THEN Append(g[i - 1], EntryOf(t, i)) ELSE g[i - 1]
  <2>1. i \in 0 .. N /\ i # 0
    BY <1>0
  <2> QED
    BY <1>3, <2>1 DEF SaveBody
<1>e. \A i \in SavedOf(t) : EntryOf(t, i) \in Entries(t)
  BY DEF Entries
<1>a. ASSUME NEW i \in SavedOf(t), NEW x \in S
      PROVE  /\ Append(x, EntryOf(t, i)) \in S
             /\ DOMAIN x \subseteq DOMAIN Append(x, EntryOf(t, i))
             /\ \A k \in DOMAIN x : Append(x, EntryOf(t, i))[k] = x[k]
             /\ \E k \in DOMAIN Append(x, EntryOf(t, i)) :
                  Append(x, EntryOf(t, i))[k] = EntryOf(t, i)
  <2> DEFINE e == EntryOf(t, i)
             y == Append(x, e)
  <2>1. e \in Entries(t)
    BY <1>e
  <2> HIDE DEF e
  <2>2. /\ y \in S /\ Len(y) = Len(x) + 1 /\ y[Len(x) + 1] = e
        /\ \A k \in 1 .. Len(x) : y[k] = x[k]
    BY <2>1, AppendProperties
  <2>3. Len(x) \in Nat /\ DOMAIN x = 1 .. Len(x) /\ DOMAIN y = 1 .. Len(y)
    BY <2>2, LenProperties
  <2> HIDE DEF y
  <2>4. DOMAIN x \subseteq DOMAIN y /\ Len(x) + 1 \in DOMAIN y
    BY <2>2, <2>3
  <2> QED
    BY <2>2, <2>3, <2>4 DEF y, e
<1> HIDE DEF S
<1>6. \A i \in 0 .. N : g[i] \in S
  <2>1. <<>> \in S
    BY EmptySeq DEF S
  <2>2. ASSUME NEW i \in 0 + 1 .. N, g[i - 1] \in S PROVE g[i] \in S
    BY <1>5, <1>a, <2>2
  <2> HIDE DEF N
  <2> QED
    BY <1>0, <1>4, <2>1, <2>2, RunType
<1>7. ASSUME NEW o \in SavedOf(t)
      PROVE  \E k \in DOMAIN g[N] : g[N][k] = EntryOf(t, o)
  <2> DEFINE Has(x) == \E k \in DOMAIN x : x[k] = EntryOf(t, o)
             H == {x \in S : Has(x)}
  <2>1. o \in 1 .. N /\ o - 1 \in 0 .. N
    BY <1>0, OwnersFacts DEF SavedOf
  <2>2. Has(g[o])
    <3>1. g[o] = Append(g[o - 1], EntryOf(t, o)) /\ g[o - 1] \in S
      BY <1>5, <1>6, <2>1
    <3>2. \E k \in DOMAIN Append(g[o - 1], EntryOf(t, o)) :
            Append(g[o - 1], EntryOf(t, o))[k] = EntryOf(t, o)
      BY <1>a, <2>1, <3>1
    <3> QED
      BY <3>1, <3>2
  <2>3. ASSUME NEW i \in o + 1 .. N, Has(g[i - 1]) PROVE Has(g[i])
    <3>1. i \in 1 .. N /\ i - 1 \in 0 .. N
      BY <1>0, <2>1
    <3>2. g[i - 1] \in S
      BY <1>6, <3>1
    <3> DEFINE x == g[i - 1]
               y == Append(x, EntryOf(t, i))
    <3>3. i \in SavedOf(t) => DOMAIN x \subseteq DOMAIN y /\ \A k \in DOMAIN x : y[k] = x[k]
      BY <1>a, <3>2
    <3>4. g[i] = IF i \in SavedOf(t) THEN y ELSE x
      BY <1>5, <3>1
    <3> HIDE DEF y, x
    <3>5. Has(x)
      BY <2>3 DEF x
    <3>6. i \in SavedOf(t) => Has(y)
      BY <3>3, <3>5
    <3> QED
      BY <3>4, <3>5, <3>6
  <2> HIDE DEF Has
  <2>4. g[o] \in H
    BY <1>6, <2>1, <2>2
  <2>5. \A i \in o + 1 .. N : g[i - 1] \in H => g[i] \in H
    <3>1. \A i \in o + 1 .. N : i \in 0 .. N
      BY <1>0, <2>1
    <3> QED
      BY <1>6, <2>3, <3>1
  <2>6. o \in 0 .. N /\ N \in o .. N
    BY <1>0, <2>1
  <2> HIDE DEF H, N
  <2>7. \A i \in o .. N : g[i] \in H
    BY <1>0, <2>4, <2>5, <2>6, RunType
  <2> QED
    BY <2>6, <2>7 DEF H, Has
<1> QED
  BY <1>0, <1>2, <1>6, <1>7 DEF S

(* A scale does not tell apart the slots of a list that bear one label, nor *)
(* depend on a bit field that is not saved.                                 *)
LabelsTellScale ==
  \A b, d \in BitValues :
    (\A i \in SavedBits : d[Def[i].name] = Slot(Def[i], b[Def[i].name]))
      => ScaleOf(d) = ScaleOf(b)

(* No entry differs: what can be compared is equal, what cannot is listed *)
(* or silent.                                                             *)
LEMMA NoDiff ==
  ASSUME NEW f, NEW t, diff(f, t).entries = {}, NEW k \in DOMAIN f.entries
  PROVE  LET e == f.entries[k]
         IN /\ Comparable(t, e) => ~Differs(t, e)
            /\ Comparable(t, e) \/ e \in diff(f, t).unresolved \/ (Matched(e) /\ Silent(t, e))
<1> DEFINE e == f.entries[k]
           A == {y \in Range(f.entries) : Comparable(t, y) /\ Differs(t, y)}
           B == {y \in Range(f.entries) : ~Comparable(t, y) /\ ~(Matched(y) /\ Silent(t, y))}
<1>1. e \in Range(f.entries)
  BY DEF Range
<1>2. diff(f, t) = [entries |-> A, unresolved |-> B]
  BY DEF diff
<1>3. diff(f, t).entries = A /\ diff(f, t).unresolved = B
  BY <1>2
<1> HIDE DEF e
<1>5. Comparable(t, e) => ~Differs(t, e)
  BY <1>1, <1>3
<1>6. Comparable(t, e) \/ e \in B \/ (Matched(e) /\ Silent(t, e))
  BY <1>1, Zenon
<1> QED
  BY <1>3, <1>5, <1>6 DEF e

(* The slot of a label is the first that bears it. *)
LEMMA SlotFacts ==
  ASSUME NEW c, c.labels \in Seq(STRING), NEW k \in Nat
  PROVE  Slot(c, k) \in 0 .. k
<1>1. CASE ~HasLabel(c, k)
  BY <1>1 DEF Slot
<1>2. CASE HasLabel(c, k)
  <2> DEFINE x == c.labels[k + 1]
             L(i) == /\ c.labels[i] = x
                     /\ \A j \in 1 .. i - 1 : c.labels[j] # x
             T == {i \in DOMAIN c.labels : c.labels[i] = x}
             w == CHOOSE i \in DOMAIN c.labels : L(i)
  <2>1. Len(c.labels) \in Nat /\ DOMAIN c.labels = 1 .. Len(c.labels)
    BY LenProperties
  <2>2. k + 1 \in T /\ x # "INVALID"
    BY <1>2 DEF HasLabel
  <2>3. T \in SUBSET Nat /\ T # {}
    BY <2>1, <2>2
  <2>4. PICK i \in T : \A j \in T : i <= j
    <3> HIDE DEF T
    <3> QED
      BY <2>3, LeastNat
  <2>5. ASSUME NEW j \in 1 .. i - 1 PROVE c.labels[j] # x
    <3>1. j \in DOMAIN c.labels /\ ~(i <= j)
      BY <2>1
    <3> QED
      BY <2>4, <3>1
  <2>6. i \in DOMAIN c.labels /\ L(i)
    BY <2>5
  <2>7. w \in DOMAIN c.labels /\ L(w)
    BY <2>6
  <2>8. \E j \in DOMAIN c.labels : c.labels[j] = x
    BY <2>2
  <2>9. Slot(c, k) = w - 1
    <3>1. file_bits_index(c, Txt(x)) = w - 1
      BY <2>2, <2>8 DEF file_bits_index, Txt
    <3> QED
      BY <1>2, <3>1 DEF Slot
  <2> HIDE DEF w, x
  <2>10. w <= k + 1
    <3> SUFFICES ASSUME k + 1 < w PROVE FALSE
      BY <2>1, <2>7
    <3>1. k + 1 \in 1 .. w - 1
      BY <2>1, <2>7
    <3> QED
      BY <2>2, <2>7, <3>1
  <2> QED
    BY <2>1, <2>7, <2>9, <2>10
<1> QED
  BY <1>1, <1>2

(* What the comparison found equal is equal, given equal scales. *)
LEMMA SameScalar ==
  ASSUME FineScales, NEW x \in Names, NEW s \in Held, NEW t \in Held,
         Scale(Const(x), t) = Scale(Const(x), s), HasScale(Const(x), s), Const(x).class = "Scalar",
         ~Differs(t, <<x, Saved(Const(x), s)>>)
  PROVE  Raw(Const(x), t) = Raw(Const(x), s)
<1> DEFINE c == Const(x)
           S == Scale(c, s)
           r == Raw(c, s)[1]
           v == Written(c, r, S)
<1>1. S \in Nat /\ S >= 3 /\ Scale(c, t) = S
  BY ScaleType
<1>2. /\ Raw(c, s) = <<read_raw(s, c.at, c.ty)>> /\ InRange(c.ty, r)
      /\ Raw(c, t) = <<read_raw(t, c.at, c.ty)>>
  BY RawFacts
<1>3. Saved(c, s) = Num(v)
  <2>1. Resolves(c, s)
    BY <1>1 DEF Resolves, NoScale
  <2> QED
    BY <2>1, FineKnown, SavedFacts
<1>4. encode_impl(c, t, v, FALSE) = r
  <2>1. Encodes(x, t, S, r)
    BY <1>1, <1>2 DEF Encodes
  <2> HIDE DEF S, r
  <2>2. Encoded(Const(x), t, Written(Const(x), r, S)) = r
    BY <2>1, EncodeBack
  <2> QED
    BY <2>2 DEF S, r, Encoded
<1>5. Raw(c, t)[1] = encode_impl(c, t, Saved(c, s).v, FALSE)
  BY DEF Differs
<1>6. Saved(c, s).v = v
  <2>1. Num(v).v = v
    BY DEF Num
  <2> HIDE DEF v
  <2> QED
    BY <1>3, <2>1
<1>7. Raw(c, t)[1] = Raw(c, s)[1]
  BY <1>4, <1>5, <1>6
<1> HIDE DEF c
<1> QED
  BY <1>2, <1>7 DEF c

(* An array of one element is never comparable, all others are read back. *)
LEMMA SameArray ==
  ASSUME FineScales, NEW x \in Names, NEW s \in Held, NEW t \in Held,
         Scale(Const(x), t) = Scale(Const(x), s), HasScale(Const(x), s), Const(x).class = "Array",
         Comparable(t, <<x, Saved(Const(x), s)>>), ~Differs(t, <<x, Saved(Const(x), s)>>)
  PROVE  Raw(Const(x), t) = Raw(Const(x), s)
<1> DEFINE c == Const(x)
           S == Scale(c, s)
           R == Raw(c, s)
           fs == [i \in 1 .. c.n |-> Written(c, R[i], S)]
<1>1. S \in Nat /\ S >= 3 /\ Scale(c, t) = S
  BY ScaleType
<1>2. /\ R \in [1 .. c.n -> Int] /\ \A i \in 1 .. c.n : InRange(c.ty, R[i])
      /\ Raw(c, t) \in [1 .. c.n -> Int]
  BY RawFacts
<1>3. Saved(c, s) = parse_body(fs)
  <2>1. Resolves(c, s)
    BY <1>1 DEF Resolves, NoScale
  <2> QED
    BY <2>1, FineKnown, SavedFacts
<1>4. Fits(c, Saved(c, s))
  BY DEF Comparable, Matched
<1>5. Saved(c, s).kind = "array"
  BY <1>4 DEF Fits
<1>6. Saved(c, s).vs = fs
  <2>1. Saved(c, s) = IF Len(fs) = 1 THEN Num(fs[1]) ELSE Arr(fs)
    BY <1>3 DEF parse_body
  <2>2. Num(fs[1]).kind = "num" /\ Arr(fs).vs = fs
    BY DEF Num, Arr
  <2> HIDE DEF fs
  <2> QED
    BY <1>5, <2>1, <2>2
<1>7. \A i \in 1 .. c.n : Raw(c, t)[i] = encode_impl(c, t, Saved(c, s).vs[i], FALSE)
  BY DEF Differs
<1>8. ASSUME NEW i \in 1 .. c.n PROVE Raw(c, t)[i] = R[i]
  <2>1. encode_impl(c, t, Written(c, R[i], S), FALSE) = R[i]
    <3> DEFINE r == R[i]
    <3>1. Encodes(x, t, S, r)
      BY <1>1, <1>2 DEF Encodes
    <3> HIDE DEF S, r
    <3>2. Encoded(Const(x), t, Written(Const(x), r, S)) = r
      BY <3>1, EncodeBack
    <3> QED
      BY <3>2 DEF S, r, Encoded
  <2>2. fs[i] = Written(c, R[i], S)
    OBVIOUS
  <2> HIDE DEF fs
  <2> QED
    BY <1>6, <1>7, <2>1, <2>2
<1> DEFINE Q == Raw(c, t)
           n == c.n
<1>9. n \in Nat /\ Q \in [1 .. n -> Int] /\ R \in [1 .. n -> Int] /\ \A i \in 1 .. n : Q[i] = R[i]
  BY <1>2, <1>8, ConstIs DEF GoodConst
<1> HIDE DEF R, Q, n
<1>10. Q = R
  BY ONLY <1>9
<1> QED
  BY <1>10 DEF R, Q

(* A label that was saved names the slot that bears it first. *)
LEMMA SameBits ==
  ASSUME FineScales, NEW x \in Names, NEW s \in Held, NEW t, Const(x).class = "Bits",
         ~Differs(t, <<x, Saved(Const(x), s)>>)
  PROVE  Raw(Const(x), t)[1] = Slot(Const(x), Raw(Const(x), s)[1])
<1>1. Raw(Const(x), t)[1] = file_bits_index(Const(x), Saved(Const(x), s))
  BY DEF Differs
<1> QED
  BY <1>1, SavedSlot

(* Every saved bit field holds what it held in the saved tune. *)
BitsSame(t, s) == \A i \in SavedBits : Same(Def[i], t, s)

(* Then every scale is what it was. *)
Settled(t, s) == ScaleOf(BitsOf(t)) = ScaleOf(BitsOf(s))

LEMMA BitsSettle ==
  ASSUME LabelsTellScale, NEW s \in Held, NEW t \in Held, BitsSame(t, s)
  PROVE  Settled(t, s)
<1>1. BitsOf(t) \in BitValues /\ BitsOf(s) \in BitValues
  BY BitsType
<1>2. ASSUME NEW i \in SavedBits
      PROVE  BitsOf(t)[Def[i].name] = Slot(Def[i], BitsOf(s)[Def[i].name])
  <2>1. Raw(Def[i], t) = <<BitsOf(t)[Def[i].name]>> /\ Raw(Def[i], s) = <<BitsOf(s)[Def[i].name]>>
    BY BitsType DEF SavedBits
  <2>2. Raw(Def[i], t)[1] = BitsOf(t)[Def[i].name] /\ Raw(Def[i], s)[1] = BitsOf(s)[Def[i].name]
    BY <2>1
  <2>3. Raw(Def[i], t)[1] = Slot(Def[i], Raw(Def[i], s)[1])
    BY DEF BitsSame, Same, SavedBits, BitFields
  <2> QED
    BY <2>2, <2>3
<1> QED
  BY <1>1, <1>2 DEF LabelsTellScale, Settled

(* A saved bit field can always be compared. *)
LEMMA BitsCompare ==
  ASSUME FineScales, NEW x \in Names, NEW s \in Held, NEW t, Const(x).class = "Bits"
  PROVE  Comparable(t, <<x, Saved(Const(x), s)>>)
<1>1. Raw(Const(x), s)[1] \in Nat /\ Const(x).labels \in Seq(STRING)
  BY RawFacts, ConstIs DEF GoodConst
<1>2. file_bits_index(Const(x), Saved(Const(x), s)) = Slot(Const(x), Raw(Const(x), s)[1])
  BY SavedSlot
<1>3. Slot(Const(x), Raw(Const(x), s)[1]) \in Int
  BY <1>1, SlotFacts
<1>4. file_bits_index(Const(x), Saved(Const(x), s)) # NotFound
  BY <1>2, <1>3, MsqAssumption
<1> QED
  BY <1>4 DEF Comparable, Matched, Fits

(* What diff has an answer for, of the constants saved from s. *)
AnsweredIn(f, t, s, c) ==
  /\ c.class # "String" /\ Resolves(c, s)
  /\ c.name \notin {e[1] : e \in diff(f, t).unresolved}
  /\ c.class = "Array" => HasScale(c, t)

(* The bit fields first: they give the scales of the rest. *)
LEMMA NoDiffAnswered ==
  ASSUME FineScales, LabelsTellScale, NEW s \in Held, NEW t \in Held, NEW pc, NEW f,
         f.entries = save(s, pc).entries, diff(f, t).entries = {}
  PROVE  \A i \in Owners : AnsweredIn(f, t, s, Def[i]) => Same(Def[i], t, s)
<1>1. ASSUME NEW i \in SavedOf(s)
      PROVE  LET e == <<Def[i].name, Saved(Def[i], s)>>
             IN /\ Def[i].name \in Names /\ Const(Def[i].name) = Def[i] /\ i \in DOMAIN Def
                /\ Comparable(t, e) => ~Differs(t, e)
                /\ Comparable(t, e) \/ e \in diff(f, t).unresolved \/ Silent(t, e)
  <2>1. i \in DOMAIN Def
    BY OwnersFacts DEF SavedOf
  <2>2. PICK k \in DOMAIN f.entries : f.entries[k] = EntryOf(s, i)
    BY SaveFacts
  <2>3. /\ Comparable(t, f.entries[k]) => ~Differs(t, f.entries[k])
        /\ Comparable(t, f.entries[k]) \/ f.entries[k] \in diff(f, t).unresolved
             \/ Silent(t, f.entries[k])
    BY NoDiff
  <2> QED
    BY <2>1, <2>2, <2>3, ConstIs DEF EntryOf
<1>2. ASSUME NEW i \in SavedOf(s), Def[i].class = "Bits"
      PROVE  Raw(Def[i], t)[1] = Slot(Def[i], Raw(Def[i], s)[1])
  <2> DEFINE x == Def[i].name
  <2>1. x \in Names /\ Const(x) = Def[i] /\ Const(x).class = "Bits"
    BY <1>1, <1>2
  <2>2. Comparable(t, <<x, Saved(Const(x), s)>>)
    BY <2>1, BitsCompare
  <2>3. ~Differs(t, <<x, Saved(Const(x), s)>>)
    BY <1>1, <2>1, <2>2
  <2> HIDE DEF x
  <2>4. Raw(Const(x), t)[1] = Slot(Const(x), Raw(Const(x), s)[1])
    BY <2>1, <2>3, SameBits
  <2> QED
    BY <2>1, <2>4
<1>3. Settled(t, s)
  <2>1. ASSUME NEW i \in SavedBits PROVE Same(Def[i], t, s)
    <3>1. i \in Owners /\ Def[i].class = "Bits"
      BY OwnersFacts DEF SavedBits, BitFields
    <3>2. i \in SavedOf(s)
      BY <3>1 DEF SavedOf, Resolves
    <3> QED
      BY <1>2, <3>1, <3>2 DEF Same
  <2> QED
    BY <2>1, BitsSettle DEF BitsSame
<1>4. ASSUME NEW i \in Owners, AnsweredIn(f, t, s, Def[i]) PROVE Same(Def[i], t, s)
  <2> DEFINE x == Def[i].name
             e == <<x, Saved(Const(x), s)>>
  <2>0. i \in SavedOf(s)
    BY <1>4 DEF SavedOf, AnsweredIn
  <2>1. x \in Names /\ Const(x) = Def[i] /\ Def[i].class \in Classes
    BY <1>1, <2>0, DefGood DEF GoodConst
  <2>2. Scale(Const(x), t) = Scale(Const(x), s)
    BY <1>3 DEF Scale, Settled
  <2>3. /\ Comparable(t, e) => ~Differs(t, e)
        /\ Comparable(t, e) \/ e \in diff(f, t).unresolved \/ Silent(t, e)
    BY <1>1, <2>0, <2>1
  <2>4. e \notin diff(f, t).unresolved /\ ~Silent(t, e)
    <3>1. e[1] = x
      OBVIOUS
    <3>2. x \notin {y[1] : y \in diff(f, t).unresolved}
      BY <1>4 DEF AnsweredIn
    <3>3. ~Silent(t, e)
      BY <1>4, <2>1, <3>1 DEF AnsweredIn, Silent
    <3> HIDE DEF e
    <3> QED
      BY <3>1, <3>2, <3>3
  <2>5. Comparable(t, e) /\ ~Differs(t, e)
    BY <2>3, <2>4
  <2>6. Const(x).class # "Bits" => HasScale(Const(x), s)
    <3>1. Const(x).class \in {"Bits", "String"} \/ HasScale(Const(x), t)
      BY <2>5 DEF Comparable
    <3> QED
      BY <1>4, <2>1, <2>2, <3>1 DEF AnsweredIn, HasScale
  <2>c. Comparable(t, <<x, Saved(Const(x), s)>>) /\ ~Differs(t, <<x, Saved(Const(x), s)>>)
    BY <2>5
  <2> HIDE DEF x, e
  <2>7. CASE Def[i].class = "Bits"
    BY <1>2, <2>0, <2>7 DEF Same
  <2>8. CASE Def[i].class = "Scalar"
    <3>1. Raw(Const(x), t) = Raw(Const(x), s)
      BY <2>1, <2>2, <2>6, <2>c, <2>8, SameScalar
    <3> QED
      BY <2>1, <2>8, <3>1 DEF Same
  <2>9. CASE Def[i].class = "Array"
    <3>1. Raw(Const(x), t) = Raw(Const(x), s)
      BY <2>1, <2>2, <2>6, <2>c, <2>9, SameArray
    <3> QED
      BY <2>1, <2>9, <3>1 DEF Same
  <2> QED
    BY <1>4, <2>1, <2>7, <2>8, <2>9 DEF Classes, AnsweredIn
<1> QED
  BY <1>4

(* What a file and what a user set; a tune stays a tune. *)
FileSets(c, t, v) == set_constant_impl(c, t, v, FALSE)
FileSetsAt(c, t, i, v) == set_array_element_impl(c, t, i, v, FALSE)
UserSets(c, t, v) == set_constant_impl(c, t, v, TRUE)
UserSetsAt(c, t, i, v) == set_array_element_impl(c, t, i, v, TRUE)

(* SetType, for the two ways in which it is used. *)
LEMMA SetsType ==
  KnownScales =>
    \A x \in Names, t \in Held, v \in Int :
      /\ FileSets(Const(x), t, v) \in Held /\ UserSets(Const(x), t, v) \in Held
      /\ \A i : FileSetsAt(Const(x), t, i, v) \in Held /\ UserSetsAt(Const(x), t, i, v) \in Held
<1> SUFFICES ASSUME KnownScales, NEW x \in Names, NEW t \in Held, NEW v \in Int
             PROVE  /\ FileSets(Const(x), t, v) \in Held /\ UserSets(Const(x), t, v) \in Held
                    /\ \A i : FileSetsAt(Const(x), t, i, v) \in Held /\ UserSetsAt(Const(x), t, i, v) \in Held
  OBVIOUS
<1>1. /\ set_constant_impl(Const(x), t, v, FALSE) \in Held
      /\ \A i : set_array_element_impl(Const(x), t, i, v, FALSE) \in Held
  BY SetType
<1>2. /\ set_constant_impl(Const(x), t, v, TRUE) \in Held
      /\ \A i : set_array_element_impl(Const(x), t, i, v, TRUE) \in Held
  BY SetType
<1> QED
  BY <1>1, <1>2 DEF FileSets, FileSetsAt, UserSets, UserSetsAt

ArrayBody(f, c, t, vs, i) == IF i = 0 THEN t ELSE FileSetsAt(c, f[i - 1], i, vs[i])
ArraySolves(f, c, t, vs) == f = [i \in 0 .. c.n |-> ArrayBody(f, c, t, vs, i)]

(* ApplyArray is the last value of a solution of its equation. *)
LEMMA ApplyArrayIs ==
  \A c, t, vs : ApplyArray(c, t, vs, FALSE) = (CHOOSE f : ArraySolves(f, c, t, vs))[c.n]
BY DEF ApplyArray, ArraySolves, ArrayBody, FileSetsAt

(* Where an element of an array lies. *)
ElementAt(c, i) == c.at + (i - 1) * Size(c.ty)

(* An element that a file sets. *)
LEMMA FileSetsIs ==
  /\ \A c, y, i, v :
       /\ HasScale(c, y) =>
            FileSetsAt(c, y, i, v) = write_raw(y, ElementAt(c, i), c.ty, Encoded(c, y, v))
       /\ ~HasScale(c, y) => FileSetsAt(c, y, i, v) = y
  /\ KnownScales => \A x \in Names, y \in Held, v \in Int :
                      HasScale(Const(x), y) => Encoded(Const(x), y, v) \in Int
<1>1. ASSUME KnownScales, NEW x \in Names, NEW y \in Held, NEW v \in Int, HasScale(Const(x), y)
      PROVE  encode_impl(Const(x), y, v, FALSE) \in Int
  BY <1>1, EncodeType
<1>2. \A c, y, i, v :
        /\ HasScale(c, y) =>
             FileSetsAt(c, y, i, v) = write_raw(y, ElementAt(c, i), c.ty, Encoded(c, y, v))
        /\ ~HasScale(c, y) => FileSetsAt(c, y, i, v) = y
  BY DEF FileSetsAt, set_array_element_impl, ElementAt, Encoded
<1> QED
  BY <1>1, <1>2 DEF Encoded

(* The applying of an array, step by step. *)
ArrayRun(g, x, t, vs) ==
  /\ g[0] = t /\ \A i \in 0 .. Const(x).n : g[i] \in Held
  /\ \A i \in 1 .. Const(x).n :
       g[i] = FileSetsAt(Const(x), g[i - 1], i, vs[i])

LEMMA ArrayRuns ==
  ASSUME KnownScales, NEW x \in Names, NEW t \in Held, NEW vs \in Seq(Int), Len(vs) = Const(x).n
  PROVE  \E g : ArrayRun(g, x, t, vs) /\ g[Const(x).n] = ApplyArray(Const(x), t, vs, FALSE)
<1> DEFINE c == Const(x)
           n == c.n
           S == Held
           step == [i \in 1 .. n |-> [y \in S |-> FileSetsAt(c, y, i, vs[i])]]
           g == CHOOSE f : ArraySolves(f, c, t, vs)
<1>0. n \in Nat /\ 0 \in 0 .. n /\ n \in 0 .. n
  BY ConstIs DEF GoodConst
<1>1. \A i \in 1 .. n : vs[i] \in Int
  BY ElementOfSeq
<1>2. \A y \in S : \A i \in 1 .. n : FileSetsAt(c, y, i, vs[i]) \in S
  BY <1>1, SetsType
<1>3. step \in [1 .. n -> [S -> S]] /\ t \in S
  BY <1>2
<1>4. PICK f \in [0 .. n -> S] : Runs(f, n, t, step)
  <2> HIDE DEF S, step, n
  <2> QED
    BY <1>0, <1>3, RunExists
<1>5. ASSUME NEW i \in 0 .. n PROVE f[i] = ArrayBody(f, c, t, vs, i)
  <2>1. CASE i = 0
    BY <1>4, <2>1 DEF Runs, ArrayBody
  <2>2. CASE i # 0
    <3>1. i \in 1 .. n /\ i - 1 \in 0 .. n
      BY <1>0, <2>2
    <3>2. f[i] = step[i][f[i - 1]] /\ f[i - 1] \in S
      BY <1>4, <3>1 DEF Runs
    <3> HIDE DEF S
    <3> QED
      BY <2>2, <3>1, <3>2 DEF ArrayBody
  <2> QED
    BY <2>1, <2>2
<1>6. f = [i \in 0 .. n |-> f[i]]
  <2> HIDE DEF S
  <2> QED
    BY <1>4
<1>7. ArraySolves(f, c, t, vs)
  BY <1>5, <1>6 DEF ArraySolves
<1>8. ArraySolves(g, c, t, vs)
  BY <1>7
<1>9. ApplyArray(c, t, vs, FALSE) = g[n]
  BY ApplyArrayIs
<1> HIDE DEF g
<1>10. \A i \in 0 .. n : g[i] = ArrayBody(g, c, t, vs, i)
  BY <1>8 DEF ArraySolves
<1>11. g[0] = t
  BY <1>0, <1>10 DEF ArrayBody
<1>12. ASSUME NEW i \in 1 .. n PROVE g[i] = FileSetsAt(c, g[i - 1], i, vs[i])
  <2>1. i \in 0 .. n /\ i # 0
    BY <1>0
  <2> QED
    BY <1>10, <2>1 DEF ArrayBody
<1>13. ASSUME NEW i \in 0 + 1 .. n, g[i - 1] \in S PROVE g[i] \in S
  <2>1. i \in 1 .. n
    BY <1>0
  <2> QED
    BY <1>2, <1>12, <1>13, <2>1
<1> HIDE DEF S, n
<1>15. t \in S
  BY DEF S
<1>14. \A i \in 0 .. n : g[i] \in S
  BY <1>0, <1>11, <1>13, <1>15, RunType
<1> QED
  <2>1. ArrayRun(g, x, t, vs)
    BY <1>11, <1>12, <1>14 DEF S, n, ArrayRun
  <2> QED
    BY <1>9, <2>1 DEF n

(* An array of a file leaves a tune. *)
LEMMA ApplyArrayType ==
  ASSUME KnownScales, NEW x \in Names, NEW t \in Held, NEW vs \in Seq(Int), Len(vs) = Const(x).n
  PROVE  ApplyArray(Const(x), t, vs, FALSE) \in Held
<1> DEFINE n == Const(x).n
<1>1. n \in 0 .. n
  BY ConstIs DEF GoodConst
<1>2. PICK g : ArrayRun(g, x, t, vs) /\ g[n] = ApplyArray(Const(x), t, vs, FALSE)
  BY ArrayRuns
<1> QED
  BY <1>1, <1>2 DEF ArrayRun

(* An entry of a file leaves a tune. *)
LEMMA ApplyOneType ==
  ASSUME KnownScales, NEW t \in Held, NEW e, IsValue(e[2])
  PROVE  ApplyOne(t, e) \in Held
<1>1. CASE e[1] \notin Names \/ ~Fits(Const(e[1]), e[2])
  BY <1>1 DEF ApplyOne
<1>2. CASE ~(e[1] \notin Names \/ ~Fits(Const(e[1]), e[2]))
  <2> DEFINE x == e[1]
             c == Const(x)
             u == e[2]
  <2>1. x \in Names /\ Fits(c, u)
    BY <1>2
  <2>2. u.v \in Int /\ u.vs \in Seq(Int)
    BY DEF IsValue
  <2>3. ApplyOne(t, e) =
          CASE c.class = "Scalar" -> FileSets(c, t, u.v)
            [] c.class = "Bits"   -> FileSets(c, t, file_bits_index(c, u) * One)
            [] c.class = "Array"  -> ApplyArray(c, t, u.vs, FALSE)
    BY <2>1 DEF ApplyOne, FileSets
  <2> HIDE DEF x, u
  <2>4. CASE c.class = "Scalar"
    <3>1. FileSets(c, t, u.v) \in Held
      BY <2>1, <2>2, SetsType
    <3> QED
      BY <2>3, <2>4, <3>1
  <2>5. CASE c.class = "Array"
    <3>1. Len(u.vs) = c.n
      BY <2>1, <2>5 DEF Fits
    <3>2. ApplyArray(c, t, u.vs, FALSE) \in Held
      BY <2>1, <2>2, <3>1, ApplyArrayType
    <3> QED
      BY <2>3, <2>5, <3>2
  <2>6. CASE c.class = "Bits"
    <3> DEFINE k == file_bits_index(c, u)
    <3>1. k # NotFound
      BY <2>1, <2>6 DEF Fits
    <3>2. k \in Int
      <4>1. CASE u.kind = "num"
        <5>1. k = Cut(u.v)
          BY <4>1 DEF file_bits_index
        <5>2. \A v \in Int : v \div One \in Int
          BY OneFact
        <5>3. Cut(u.v) \in Int
          <6>1. -u.v \in Int
            BY <2>2
          <6>2. u.v \div One \in Int /\ (-u.v) \div One \in Int
            BY <2>2, <5>2, <6>1
          <6> QED
            BY <6>2 DEF Cut
        <5> QED
          BY <5>1, <5>3
      <4>2. CASE u.kind # "num"
        <5> DEFINE L(i) == /\ c.labels[i] = u.text
                           /\ \A j \in 1 .. i - 1 : c.labels[j] # u.text
                   w == CHOOSE i \in DOMAIN c.labels : L(i)
        <5>1. /\ u.text # "INVALID" /\ \E i \in DOMAIN c.labels : c.labels[i] = u.text
              /\ k = w - 1
          BY <3>1, <4>2 DEF file_bits_index
        <5>2. c.labels \in Seq(STRING)
          BY <2>1, ConstIs DEF GoodConst
        <5>3. Len(c.labels) \in Nat /\ DOMAIN c.labels = 1 .. Len(c.labels)
          BY <5>2, LenProperties
        <5>4. \E i \in DOMAIN c.labels : L(i)
          <6> DEFINE T == {i \in DOMAIN c.labels : c.labels[i] = u.text}
          <6>1. T \in SUBSET Nat /\ T # {}
            BY <5>1, <5>3
          <6>2. PICK i \in T : \A j \in T : i <= j
            <7> HIDE DEF T
            <7> QED
              BY <6>1, LeastNat
          <6>3. ASSUME NEW j \in 1 .. i - 1 PROVE c.labels[j] # u.text
            <7>1. j \in DOMAIN c.labels /\ ~(i <= j)
              BY <5>3
            <7> QED
              BY <6>2, <7>1
          <6> QED
            BY <6>3
        <5>5. w \in DOMAIN c.labels
          BY <5>4
        <5> HIDE DEF w
        <5> QED
          BY <5>1, <5>3, <5>5
      <4> QED
        BY <4>1, <4>2
    <3> HIDE DEF k
    <3>3. k * One \in Int
      BY <3>2, OneFact
    <3>4. FileSets(c, t, k * One) \in Held
      BY <2>1, <3>3, SetsType
    <3> QED
      BY <2>3, <2>6, <3>4 DEF k
  <2> QED
    BY <2>1, <2>4, <2>5, <2>6 DEF Fits
<1> QED
  BY <1>1, <1>2

(* A file whose values are of the kinds that save and parse produce. *)
FileOk(f) ==
  Len(f.entries) \in Nat /\ \A k \in 1 .. Len(f.entries) : IsValue(f.entries[k][2])

ApplyBody(r, f, t, names, k) ==
  IF k = 0 THEN t
  ELSE IF f.entries[k][1] \in names THEN ApplyOne(r[k - 1], f.entries[k])
  ELSE r[k - 1]
ApplySolves(r, f, t, names) ==
  r = [k \in 0 .. Len(f.entries) |-> ApplyBody(r, f, t, names, k)]

(* apply is the last value of a solution of its equation. *)
LEMMA ApplyIs ==
  \A f, t, names : apply(f, t, names) = (CHOOSE r : ApplySolves(r, f, t, names))[Len(f.entries)]
BY DEF apply, ApplySolves, ApplyBody

(* The applying of a file, entry by entry. *)
LEMMA ApplyRuns ==
  ASSUME KnownScales, NEW t \in Held, NEW f, FileOk(f), NEW names
  PROVE  \E g : /\ g[0] = t /\ g[Len(f.entries)] = apply(f, t, names)
                /\ \A i \in 0 .. Len(f.entries) : g[i] \in Held
                /\ \A i \in 1 .. Len(f.entries) :
                     g[i] = IF f.entries[i][1] \in names THEN ApplyOne(g[i - 1], f.entries[i])
                            ELSE g[i - 1]
<1> DEFINE n == Len(f.entries)
           S == Held
           Step1(y, i) == IF f.entries[i][1] \in names THEN ApplyOne(y, f.entries[i]) ELSE y
           step == [i \in 1 .. n |-> [y \in S |-> Step1(y, i)]]
           g == CHOOSE r : ApplySolves(r, f, t, names)
<1>0. n \in Nat /\ 0 \in 0 .. n /\ n \in 0 .. n
  BY DEF FileOk
<1>1. \A y \in S : \A i \in 1 .. n : Step1(y, i) \in S
  BY ApplyOneType DEF FileOk
<1>2. \A r, i : i # 0 => ApplyBody(r, f, t, names, i) = Step1(r[i - 1], i)
  BY DEF ApplyBody
<1> HIDE DEF Step1
<1>3. step \in [1 .. n -> [S -> S]] /\ t \in S
  BY <1>1
<1>4. PICK r \in [0 .. n -> S] : Runs(r, n, t, step)
  <2> HIDE DEF S, step, n
  <2> QED
    BY <1>0, <1>3, RunExists
<1>5. ASSUME NEW i \in 0 .. n PROVE r[i] = ApplyBody(r, f, t, names, i)
  <2>1. CASE i = 0
    BY <1>4, <2>1 DEF Runs, ApplyBody
  <2>2. CASE i # 0
    <3>1. i \in 1 .. n /\ i - 1 \in 0 .. n
      BY <1>0, <2>2
    <3>2. r[i] = step[i][r[i - 1]] /\ r[i - 1] \in S
      BY <1>4, <3>1 DEF Runs
    <3> HIDE DEF S
    <3> QED
      BY <1>2, <2>2, <3>1, <3>2
  <2> QED
    BY <2>1, <2>2
<1>6. r = [i \in 0 .. n |-> r[i]]
  <2> HIDE DEF S
  <2> QED
    BY <1>4
<1>7. ApplySolves(r, f, t, names)
  BY <1>5, <1>6 DEF ApplySolves
<1>8. ApplySolves(g, f, t, names)
  BY <1>7
<1>9. apply(f, t, names) = g[n]
  BY ApplyIs
<1> HIDE DEF g
<1>10. \A i \in 0 .. n : g[i] = ApplyBody(g, f, t, names, i)
  BY <1>8 DEF ApplySolves
<1>11. g[0] \in S /\ g[0] = t
  BY <1>0, <1>10 DEF ApplyBody
<1>14. ASSUME NEW i \in 1 .. n
       PROVE  g[i] = IF f.entries[i][1] \in names THEN ApplyOne(g[i - 1], f.entries[i])
                     ELSE g[i - 1]
  <2>1. i \in 0 .. n /\ i # 0
    BY <1>0
  <2> QED
    BY <1>10, <2>1 DEF ApplyBody
<1>12. ASSUME NEW i \in 0 + 1 .. n, g[i - 1] \in S PROVE g[i] \in S
  <2>1. i \in 1 .. n /\ i \in 0 .. n /\ i # 0
    BY <1>0
  <2> HIDE DEF S
  <2> QED
    BY <1>1, <1>2, <1>10, <1>12, <2>1
<1> HIDE DEF S, n
<1>13. \A i \in 0 .. n : g[i] \in S
  BY <1>0, <1>11, <1>12, RunType
<1> QED
  BY <1>9, <1>11, <1>13, <1>14 DEF S, n

(* A file leaves a tune. *)
LEMMA ApplyType ==
  ASSUME KnownScales, NEW t \in Held, NEW f, FileOk(f), NEW names
  PROVE  apply(f, t, names) \in Held
<1> DEFINE n == Len(f.entries)
<1>1. n \in 0 .. n
  BY DEF FileOk
<1>2. PICK g : g[n] = apply(f, t, names) /\ \A i \in 0 .. n : g[i] \in Held
  BY ApplyRuns
<1> QED
  BY <1>1, <1>2

(* What a client edits. *)
LEMMA EditOneType ==
  ASSUME KnownScales, NEW t \in Held, NEW e, e[1] \in Names, e[3] \in Int
  PROVE  EditOne(t, e) \in Held
<1> DEFINE x == e[1]
           i == e[2]
           v == e[3]
<1>1. x \in Names
  OBVIOUS
<1>2. EditOne(t, e) = IF Const(x).class = "Array" THEN UserSetsAt(Const(x), t, i, v)
                      ELSE UserSets(Const(x), t, v)
  BY DEF EditOne, UserSets, UserSetsAt
<1> HIDE DEF x, i, v
<1>3. v \in Int
  BY DEF v
<1> QED
  BY <1>1, <1>2, <1>3, SetsType

EditBody(r, t, b, i) == IF i = 0 THEN t ELSE EditOne(r[i - 1], b[i])
EditSolves(r, t, b, k) == r = [i \in 0 .. k |-> EditBody(r, t, b, i)]

(* EditFirst is the last value of a solution of its equation. *)
LEMMA EditIs ==
  \A t, b, k : EditFirst(t, b, k) = (CHOOSE r : EditSolves(r, t, b, k))[k]
BY DEF EditFirst, EditSolves, EditBody

(* A request with several cells leaves a tune. *)
LEMMA EditFirstType ==
  ASSUME KnownScales, NEW t \in Held, NEW b, NEW n \in Nat,
         \A i \in 1 .. n : b[i][1] \in Names /\ b[i][3] \in Int
  PROVE  EditFirst(t, b, n) \in Held
<1> DEFINE S == Held
           step == [i \in 1 .. n |-> [y \in S |-> EditOne(y, b[i])]]
           g == CHOOSE r : EditSolves(r, t, b, n)
<1>0. 0 \in 0 .. n /\ n \in 0 .. n
  OBVIOUS
<1>1. \A y \in S : \A i \in 1 .. n : EditOne(y, b[i]) \in S
  BY EditOneType
<1>3. step \in [1 .. n -> [S -> S]] /\ t \in S
  BY <1>1
<1>4. PICK r \in [0 .. n -> S] : Runs(r, n, t, step)
  <2> HIDE DEF S, step
  <2> QED
    BY <1>3, RunExists
<1>5. ASSUME NEW i \in 0 .. n PROVE r[i] = EditBody(r, t, b, i)
  <2>1. CASE i = 0
    BY <1>4, <2>1 DEF Runs, EditBody
  <2>2. CASE i # 0
    <3>1. i \in 1 .. n /\ i - 1 \in 0 .. n
      BY <2>2
    <3>2. r[i] = step[i][r[i - 1]] /\ r[i - 1] \in S
      BY <1>4, <3>1 DEF Runs
    <3> HIDE DEF S
    <3> QED
      BY <2>2, <3>1, <3>2 DEF EditBody
  <2> QED
    BY <2>1, <2>2
<1>6. r = [i \in 0 .. n |-> r[i]]
  <2> HIDE DEF S
  <2> QED
    BY <1>4
<1>7. EditSolves(r, t, b, n)
  BY <1>5, <1>6 DEF EditSolves
<1>8. EditSolves(g, t, b, n)
  BY <1>7
<1>9. EditFirst(t, b, n) = g[n]
  BY EditIs
<1> HIDE DEF g
<1>10. \A i \in 0 .. n : g[i] = EditBody(g, t, b, i)
  BY <1>8 DEF EditSolves
<1>11. g[0] \in S
  BY <1>0, <1>10 DEF EditBody
<1>12. ASSUME NEW i \in 0 + 1 .. n, g[i - 1] \in S PROVE g[i] \in S
  <2>1. i \in 1 .. n /\ i \in 0 .. n /\ i # 0
    BY <1>0
  <2>2. g[i] = EditOne(g[i - 1], b[i])
    BY <1>10, <2>1 DEF EditBody
  <2> HIDE DEF S
  <2> QED
    BY <1>1, <1>12, <2>1, <2>2
<1> HIDE DEF S
<1>13. \A i \in 0 .. n : g[i] \in S
  BY <1>0, <1>11, <1>12, RunType
<1> QED
  BY <1>0, <1>9, <1>13 DEF S

(* The cells before the first bad one. *)
LEMMA PrefixFacts ==
  ASSUME NEW t, NEW b, Len(b) \in Nat
  PROVE  (CHOOSE k \in Prefix(t, b) : \A j \in Prefix(t, b) : j <= k) \in Prefix(t, b)
<1> DEFINE n == Len(b)
           T == {n - k : k \in Prefix(t, b)}
<1>1. 0 \in Prefix(t, b) /\ \A k \in Prefix(t, b) : k \in 0 .. n
  BY DEF Prefix
<1>2. T \in SUBSET Nat /\ n - 0 \in T
  BY <1>1
<1>3. PICK d \in T : \A y \in T : d <= y
  <2> HIDE DEF T
  <2> QED
    BY <1>2, LeastNat
<1>4. PICK k \in Prefix(t, b) : d = n - k
  OBVIOUS
<1>5. ASSUME NEW j \in Prefix(t, b) PROVE j <= k
  <2>1. n - k <= n - j
    BY <1>3, <1>4
  <2> QED
    BY <1>1, <2>1
<1> QED
  BY <1>4, <1>5

(* What save writes is a file. *)
LEMMA SaveOk ==
  ASSUME KnownScales, NEW t \in Held, NEW pc
  PROVE  FileOk(save(t, pc))
<1> DEFINE es == save(t, pc).entries
<1>1. es \in Seq(Entries(t))
  BY SaveFacts
<1>2. Len(es) \in Nat /\ \A k \in 1 .. Len(es) : es[k] \in Entries(t)
  <2> HIDE DEF es
  <2> QED
    BY <1>1, LenProperties, ElementOfSeq
<1>3. ASSUME NEW e \in Entries(t) PROVE IsValue(e[2])
  <2>1. PICK i \in DOMAIN Def : e = <<Def[i].name, Saved(Def[i], t)>> /\ Resolves(Def[i], t)
    BY OwnersFacts DEF Entries, EntryOf, SavedOf
  <2> DEFINE x == Def[i].name
             u == Saved(Def[i], t)
  <2>2. x \in Names /\ Const(x) = Def[i]
    BY ConstIs
  <2>3. IsValue(u)
    BY <2>1, <2>2, SavedFacts
  <2> HIDE DEF x, u
  <2>4. e[2] = u
    BY <2>1 DEF x, u
  <2> QED
    BY <2>3, <2>4
<1> QED
  BY <1>2, <1>3 DEF FileOk

(* The tune is a tune, the files hold values, and a file that came from      *)
(* msq_save holds what save made of the tune noted in origin.                *)
SavedFrom(f, s) == s # NoTune => \E pc : f.entries = save(s, pc).entries
MsqInv ==
  /\ tune \in Held
  /\ origin \in [saved : Held \cup {NoTune}, file : Held \cup {NoTune}]
  /\ FileOk(file) /\ FileOk(saved)
  /\ SavedFrom(file, origin.file) /\ SavedFrom(saved, origin.saved)

(* No file is a file without entries. *)
LEMMA NoFileOk == FileOk(NoFile)
BY DEF FileOk, NoFile

(* A program that starts has no file. *)
LEMMA MsqInitInv == Init => MsqInv
<1> SUFFICES ASSUME Init PROVE MsqInv
  OBVIOUS
<1>1. tune \in Held
  BY MsqAssumption DEF Init, Held
<1>2. origin = [saved |-> NoTune, file |-> NoTune] /\ file = NoFile /\ saved = NoFile
  BY DEF Init
<1>3. origin \in [saved : Held \cup {NoTune}, file : Held \cup {NoTune}]
  BY <1>2
<1>4. origin.file = NoTune /\ origin.saved = NoTune
  BY <1>2
<1> QED
  BY <1>1, <1>2, <1>3, <1>4, NoFileOk DEF MsqInv, SavedFrom

(* One step for each handler. *)
LEMMA MsqNextInv == KnownScales /\ MsqInv /\ [Next]_vars => MsqInv'
<1> SUFFICES ASSUME KnownScales, MsqInv, [Next]_vars PROVE MsqInv'
  OBVIOUS
<1> DEFINE O == [saved : Held \cup {NoTune}, file : Held \cup {NoTune}]
<1>0. /\ tune \in Held /\ origin \in O /\ FileOk(file) /\ FileOk(saved)
      /\ SavedFrom(file, origin.file) /\ SavedFrom(saved, origin.saved)
  BY DEF MsqInv
(* Steps that leave the files alone. *)
<1>k. ASSUME tune' \in Held, UNCHANGED <<file, saved, origin>> PROVE MsqInv'
  BY <1>0, <1>k DEF MsqInv
<1>b. Blank \in Held
  BY <1>0 DEF Held, Blank
<1>1. CASE tune_set_constant
  <2>1. PICK e \in Edits : tune' = IF Editable(tune, e) THEN EditOne(tune, e) ELSE tune
    BY <1>1 DEF tune_set_constant
  <2>2. e \in STRING \X Int \X Int
    BY MsqAssumption
  <2>3. e[3] \in Int
    BY <2>2
  <2>4. tune' \in Held
    BY <1>0, <2>1, <2>3, EditOneType DEF Editable
  <2> QED
    BY <1>1, <1>k, <2>4 DEF tune_set_constant
<1>2. CASE Batch
  <2>1. PICK b \in Batches :
          tune' = EditFirst(tune, b, CHOOSE k \in Prefix(tune, b) :
                                       \A j \in Prefix(tune, b) : j <= k)
    BY <1>2 DEF Batch
  <2> DEFINE k == CHOOSE k \in Prefix(tune, b) : \A j \in Prefix(tune, b) : j <= k
             X == STRING \X Int \X Int
  <2>2. b \in Seq(X)
    BY MsqAssumption
  <2>3. Len(b) \in Nat /\ \A i \in 1 .. Len(b) : b[i] \in X
    <3> HIDE DEF X
    <3> QED
      BY <2>2, LenProperties, ElementOfSeq
  <2>4. k \in Prefix(tune, b)
    BY <2>3, PrefixFacts
  <2> HIDE DEF k
  <2>5. k \in 0 .. Len(b) /\ \A i \in 1 .. k : b[i][1] \in Names
    BY <2>4 DEF Prefix, Editable
  <2>6. \A i \in 1 .. k : b[i][3] \in Int
    BY <2>3, <2>5
  <2>7. k \in Nat
    BY <2>3, <2>5
  <2>8. EditFirst(tune, b, k) \in Held
    BY <1>0, <2>5, <2>6, <2>7, EditFirstType
  <2>9. tune' \in Held
    BY <2>1, <2>8 DEF k
  <2> QED
    BY <1>2, <1>k, <2>9 DEF Batch
<1>3. CASE SetPc
  BY <1>0, <1>3, <1>k DEF SetPc
<1>4. CASE msq_save
  <2>1. /\ saved' = save(tune, pc_value) /\ origin' = [origin EXCEPT !.saved = tune]
        /\ UNCHANGED <<tune, file>>
    BY <1>4 DEF msq_save
  <2>2. origin' \in O /\ origin'.saved = tune /\ origin'.file = origin.file
    BY <1>0, <2>1
  <2>3. FileOk(saved')
    BY <1>0, <2>1, SaveOk
  <2>4. SavedFrom(saved', origin'.saved)
    BY <2>1, <2>2 DEF SavedFrom
  <2>5. SavedFrom(file', origin'.file) /\ FileOk(file') /\ tune' \in Held
    BY <1>0, <2>1, <2>2
  <2> QED
    BY <2>2, <2>3, <2>4, <2>5 DEF MsqInv
<1>5. CASE msq_upload
  <2>1. UNCHANGED <<tune, saved>>
    BY <1>5 DEF msq_upload
  <2>2. CASE saved # NoFile /\ file' = saved /\ origin' = [origin EXCEPT !.file = origin.saved]
    <3>1. origin' \in O /\ origin'.file = origin.saved /\ origin'.saved = origin.saved
      BY <1>0, <2>2
    <3> QED
      BY <1>0, <2>1, <2>2, <3>1 DEF MsqInv
  <2>3. CASE \E f \in Foreign : file' = [NoFile EXCEPT !.entries = f]
                                /\ origin' = [origin EXCEPT !.file = NoTune]
    <3>1. PICK f \in Foreign : file' = [NoFile EXCEPT !.entries = f]
      BY <2>3
    <3>2. file'.entries = f
      BY <3>1 DEF NoFile
    <3>3. FileOk(file')
      BY <3>2, MsqAssumption DEF FileOk
    <3>4. origin' \in O /\ origin'.file = NoTune /\ origin'.saved = origin.saved
      BY <1>0, <2>3
    <3> QED
      BY <1>0, <2>1, <3>3, <3>4 DEF MsqInv, SavedFrom
  <2> QED
    BY <1>5, <2>2, <2>3 DEF msq_upload
<1>6. CASE msq_apply
  <2>1. PICK names : tune' = apply(file, tune, names)
    BY <1>6 DEF msq_apply
  <2>2. tune' \in Held
    BY <1>0, <2>1, ApplyType
  <2> QED
    BY <1>6, <1>k, <2>2 DEF msq_apply
<1>7. CASE offline_open
  <2>1. tune' = apply(file, Blank, Names)
    BY <1>7 DEF offline_open
  <2>2. tune' \in Held
    BY <1>0, <1>b, <2>1, ApplyType
  <2> QED
    BY <1>7, <1>k, <2>2 DEF offline_open
<1>8. CASE offline_close
  BY <1>8, <1>b, <1>k DEF offline_close
<1>9. CASE do_connect
  <2>1. tune' = tune \/ tune' \in Tunes
    BY <1>9 DEF do_connect
  <2>2. tune' \in Held
    BY <1>0, <2>1, MsqAssumption DEF Held
  <2> QED
    BY <1>9, <1>k, <2>2 DEF do_connect
<1>10. CASE disconnect
  BY <1>0, <1>10, <1>k DEF disconnect
<1>11. CASE UNCHANGED vars
  BY <1>0, <1>11, <1>k DEF vars
<1> QED
  BY <1>1, <1>2, <1>3, <1>4, <1>5, <1>6, <1>7, <1>8, <1>9, <1>10, <1>11 DEF Next

(* The invariant gives the property. *)
LEMMA MsqInvTrusted == FineScales /\ LabelsTellScale /\ MsqInv => EmptyDiffTrusted
<1> SUFFICES ASSUME FineScales, LabelsTellScale, MsqInv, origin.file # NoTune,
                    diff(file, tune).entries = {},
                    NEW i \in Owners, Answered(Def[i])
             PROVE  Same(Def[i], tune, origin.file)
  BY DEF EmptyDiffTrusted
<1> DEFINE s == origin.file
<1>1. tune \in Held /\ origin \in [saved : Held \cup {NoTune}, file : Held \cup {NoTune}]
  BY DEF MsqInv
<1>2. s \in Held
  BY <1>1
<1>3. PICK pc : file.entries = save(s, pc).entries
  BY DEF MsqInv, SavedFrom
<1>4. AnsweredIn(file, tune, s, Def[i])
  BY DEF Answered, AnsweredIn, Uncompared
<1> HIDE DEF s
<1>5. Same(Def[i], tune, s)
  BY <1>1, <1>2, <1>3, <1>4, NoDiffAnswered
<1> QED
  BY <1>5 DEF s

(* When the comparison with a file that was saved here shows no difference,  *)
(* every number that is in the file, is not listed as uncompared and is not  *)
(* in an array without a scale is the tune's, for every definition, every    *)
(* sequence of edits, files and connections, provided no scale is finer than *)
(* the six decimals of a file, depends on a bit field that is not saved or   *)
(* tells apart the slots of one label (save, parse, diff, encode_impl).      *)
THEOREM EmptyDiffTrustedHolds ==
  ASSUME FineScales, LabelsTellScale
  PROVE  Spec => []EmptyDiffTrusted
<1>1. Init => MsqInv
  BY MsqInitInv
<1>2. MsqInv /\ [Next]_vars => MsqInv'
  BY FineKnown, MsqNextInv
<1>3. MsqInv => EmptyDiffTrusted
  BY MsqInvTrusted
<1> QED
  BY <1>1, <1>2, <1>3, PTL DEF Spec

(* One bit more doubles. *)
LEMMA Pow2Step == Pow2[0] = 1 /\ \A k \in 1 .. 16 : Pow2[k] = 2 * Pow2[k - 1]
<1>1. ASSUME NEW k \in 0 .. 16 PROVE Pow2[k] = IF k = 0 THEN 1 ELSE 2 * Pow2[k - 1]
  BY Pow2Is
<1>2. 0 \in 0 .. 16 /\ \A k \in 1 .. 16 : k \in 0 .. 16 /\ k # 0
  OBVIOUS
<1> QED
  BY <1>1, <1>2

(* A byte and a word. *)
LEMMA Pow2Bytes == Pow2[8] = 256 /\ Pow2[16] = 65536
<1>1. Pow2[1] = 2 /\ Pow2[2] = 2 * Pow2[1] /\ Pow2[3] = 2 * Pow2[2] /\ Pow2[4] = 2 * Pow2[3]
  BY Pow2Step
<1>2. Pow2[5] = 2 * Pow2[4] /\ Pow2[6] = 2 * Pow2[5] /\ Pow2[7] = 2 * Pow2[6] /\ Pow2[8] = 2 * Pow2[7]
  BY Pow2Step
<1>3. Pow2[9] = 2 * Pow2[8] /\ Pow2[10] = 2 * Pow2[9] /\ Pow2[11] = 2 * Pow2[10] /\ Pow2[12] = 2 * Pow2[11]
  BY Pow2Step
<1>4. Pow2[13] = 2 * Pow2[12] /\ Pow2[14] = 2 * Pow2[13] /\ Pow2[15] = 2 * Pow2[14] /\ Pow2[16] = 2 * Pow2[15]
  BY Pow2Step
<1>5. Pow2[8] = 256
  BY <1>1, <1>2
<1> QED
  BY <1>3, <1>4, <1>5

(* Exponents add. *)
LEMMA Pow2Sum ==
  ASSUME NEW a \in 0 .. 16, NEW b \in 0 .. 16, a + b <= 16
  PROVE  Pow2[a + b] = Pow2[a] * Pow2[b]
<1> DEFINE T == {k \in Nat : a + k <= 16 /\ Pow2[a + k] # Pow2[a] * Pow2[k]}
<1>1. T = {}
  <2> SUFFICES ASSUME T # {} PROVE FALSE
    OBVIOUS
  <2>1. PICK k \in T : \A y \in T : k <= y
    <3>1. T \in SUBSET Nat
      OBVIOUS
    <3> HIDE DEF T
    <3> QED
      BY <3>1, LeastNat
  <2>2. k \in Nat /\ a + k <= 16 /\ Pow2[a + k] # Pow2[a] * Pow2[k]
    OBVIOUS
  <2>3. Pow2[a] \in Nat
    BY Pow2Facts
  <2>4. CASE k = 0
    BY <2>2, <2>3, <2>4, Pow2Step
  <2>5. CASE k # 0
    <3>1. k - 1 \in Nat /\ a + (k - 1) <= 16 /\ ~(k <= k - 1) /\ k \in 1 .. 16 /\ a + k \in 1 .. 16
          /\ (a + k) - 1 = a + (k - 1) /\ k - 1 \in 0 .. 16
      BY <2>2, <2>5
    <3>2. Pow2[a + (k - 1)] = Pow2[a] * Pow2[k - 1]
      BY <2>1, <3>1
    <3>3. Pow2[a + k] = 2 * Pow2[a + (k - 1)] /\ Pow2[k] = 2 * Pow2[k - 1] /\ Pow2[k - 1] \in Nat
      BY <3>1, Pow2Step, Pow2Facts
    <3>4. \A x, y \in Nat : 2 * (x * y) = x * (2 * y)
      OBVIOUS
    <3> QED
      BY <2>2, <2>3, <3>2, <3>3, <3>4
  <2> QED
    BY <2>4, <2>5
<1>2. b \in Nat
  OBVIOUS
<1> QED
  BY <1>1, <1>2

(* The quotient, named so that the provers keep it whole. *)
Quot(a, b) == a \div b

(* Dividing twice is dividing by the product. *)
LEMMA DivDiv ==
  ASSUME NEW a \in Int, NEW p \in Nat \ {0}, NEW q \in Nat \ {0}, NEW R \in Nat \ {0}, R = p * q
  PROVE  Quot(a, R) = Quot(Quot(a, p), q) /\ Quot(a, p) \in Int
<1> DEFINE x == a \div p
           r == a % p
           y == x \div q
           s == x % q
           u == q - 1 - s
<1>1. x \in Int /\ r \in 0 .. p - 1 /\ a = p * x + r
  OBVIOUS
<1> HIDE DEF x, r
<1>2. y \in Int /\ s \in 0 .. q - 1 /\ x = q * y + s
  BY <1>1
<1> HIDE DEF y, s
<1>3. u \in Nat
  BY <1>2
<1>0. \A m, n \in Nat : m * n \in Nat
  OBVIOUS
<1>4. u * p \in Nat /\ s * p \in Nat /\ p * q \in Nat
  BY <1>0, <1>2, <1>3
<1>5. u * p = p * q - p - s * p
  BY <1>2
<1> HIDE DEF u
<1>6. s * p + r \in 0 .. R - 1
  BY <1>1, <1>4, <1>5
<1>7. a = y * R + (s * p + r)
  BY <1>1, <1>2
<1>8. a \div R = y
  BY <1>2, <1>6, <1>7, DivMod
<1> QED
  BY <1>1, <1>8 DEF y, x, Quot

(* A word cut in three. *)
LEMMA Pow2Parts ==
  ASSUME NEW l \in 0 .. 16, NEW w \in 0 .. 16, NEW j \in 0 .. 16, l + w <= j
  PROVE  Pow2[j] = (Pow2[l] * Pow2[w]) * Pow2[j - (l + w)]
<1> DEFINE e == l + w
           g == j - e
<1>1. e \in 0 .. 16 /\ g \in 0 .. 16 /\ e + g = j /\ e + g <= 16 /\ l + w <= 16
  OBVIOUS
<1>2. Pow2[l + w] = Pow2[l] * Pow2[w]
  BY <1>1, Pow2Sum
<1>3. Pow2[e] = Pow2[l] * Pow2[w]
  BY <1>2
<1> HIDE DEF e, g
<1>4. Pow2[e + g] = Pow2[e] * Pow2[g]
  BY <1>1, Pow2Sum
<1>5. Pow2[j] = Pow2[e] * Pow2[g]
  BY <1>1, <1>4
<1>6. Pow2[j] = (Pow2[l] * Pow2[w]) * Pow2[g]
  BY <1>3, <1>5
<1> QED
  BY <1>6 DEF g, e

(* Dividing three times is dividing by the product. *)
LEMMA DivDivDiv ==
  ASSUME NEW a \in Int, NEW p \in Nat \ {0}, NEW q \in Nat \ {0}, NEW s \in Nat \ {0},
         NEW D, D = (p * q) * s
  PROVE  Quot(a, D) = Quot(Quot(Quot(a, p), q), s)
<1>0. \A m, n \in Nat \ {0} : m * n \in Nat \ {0}
  OBVIOUS
<1> DEFINE R == p * q
<1>1. R \in Nat \ {0} /\ R = p * q
  BY <1>0
<1> HIDE DEF R
<1>2. D \in Nat \ {0} /\ D = R * s
  BY <1>0, <1>1
<1>3. Quot(a, R) = Quot(Quot(a, p), q)
  BY <1>1, DivDiv
<1>4. Quot(a, D) = Quot(Quot(a, R), s)
  BY <1>1, <1>2, DivDiv
<1> QED
  BY <1>3, <1>4

(* A field does not see what is added above it. *)
LEMMA FieldIgnores ==
  ASSUME NEW d, GoodConst(d), NEW raw \in Int, NEW k \in Int, NEW j \in 0 .. 16, d.hi < j
  PROVE  Field(d, raw + k * Pow2[j]) = Field(d, raw)
<1> DEFINE l == d.lo
           h == d.hi
           w == Width(d)
           P == Pow2[l]
           W == Pow2[w]
           Q == Pow2[j - (l + w)]
           x == raw \div P
           r == raw % P
           H == x \div W
           F == x % W
<1>1. l \in 0 .. 15 /\ h \in 0 .. 15 /\ l <= h /\ h < j /\ w = h - l + 1
  BY DEF GoodConst, Width
<1>f. \A y : Field(d, y) = (y \div P) % W
  BY DEF Field
<1> HIDE DEF l, h, w
<1>2. l \in 0 .. 16 /\ w \in 0 .. 16 /\ j \in 0 .. 16 /\ l + w <= j /\ j - (l + w) \in 0 .. 16
  BY <1>1
<1>3. Pow2[j] = (P * W) * Q
  BY <1>2, Pow2Parts
<1>5. P \in Nat \ {0} /\ W \in Nat \ {0} /\ Q \in Nat \ {0}
  BY <1>2, Pow2Facts
<1>6. Pow2[j] = (P * W) * Q
  BY <1>3
<1> HIDE DEF P, W, Q
<1>7. x \in Int /\ r \in 0 .. P - 1 /\ raw = P * x + r
  BY <1>5
<1> HIDE DEF x, r
<1>8. H \in Int /\ F \in 0 .. W - 1 /\ x = W * H + F
  BY <1>5, <1>7
<1> HIDE DEF H, F
<1> DEFINE z == k * Q
           y == raw + k * Pow2[j]
<1>9. z \in Int
  BY <1>5
<1>10. k * Pow2[j] = (z * W) * P
  BY <1>5, <1>6
<1> HIDE DEF z
<1>11. z * W \in Int
  BY <1>5, <1>9
<1>12. y = (x + z * W) * P + r /\ x + z * W \in Int /\ y \in Int
  BY <1>5, <1>7, <1>10, <1>11
<1> HIDE DEF y
<1>13. y \div P = x + z * W
  BY <1>5, <1>7, <1>12, DivMod
<1>14. x + z * W = (H + z) * W + F /\ H + z \in Int
  BY <1>5, <1>8, <1>9
<1>15. (x + z * W) % W = F
  BY <1>5, <1>8, <1>12, <1>14, DivMod
<1>16. Field(d, y) = F
  BY <1>f, <1>13, <1>15
<1>17. Field(d, raw) = F
  BY <1>f DEF F, x
<1> QED
  BY <1>16, <1>17 DEF y

(* The field above another does not see it change. *)
LEMMA FieldAbove ==
  ASSUME NEW c, GoodConst(c), NEW d, GoodConst(d), c.hi < d.lo, NEW raw \in Int,
         NEW v \in 0 .. Pow2[Width(c)] - 1
  PROVE  Field(d, raw + (v - Field(c, raw)) * Pow2[c.lo]) = Field(d, raw)
<1> DEFINE l == c.lo
           h == c.hi
           w == Width(c)
           j == d.lo
           P == Pow2[l]
           W == Pow2[w]
           Q == Pow2[j - (l + w)]
           D == Pow2[j]
           x == raw \div P
           r == raw % P
           H == x \div W
           F == x % W
           V == Pow2[Width(d)]
           y == raw + (v - F) * P
<1>1. l \in 0 .. 15 /\ h \in 0 .. 15 /\ l <= h /\ h < j /\ w = h - l + 1 /\ j \in 0 .. 15
  BY DEF GoodConst, Width
<1>f. /\ Field(c, raw) = F
      /\ Field(d, y) = (y \div D) % V /\ Field(d, raw) = (raw \div D) % V
  BY DEF Field
<1>v. v \in 0 .. W - 1
  OBVIOUS
<1> HIDE DEF l, h, w, j, V
<1>2. l \in 0 .. 16 /\ w \in 0 .. 16 /\ j \in 0 .. 16 /\ l + w <= j /\ j - (l + w) \in 0 .. 16
  BY <1>1
<1>3. Pow2[j] = (P * W) * Q
  BY <1>2, Pow2Parts
<1>5. P \in Nat \ {0} /\ W \in Nat \ {0} /\ Q \in Nat \ {0}
  BY <1>2, Pow2Facts
<1>6. D = (P * W) * Q
  BY <1>3
<1> HIDE DEF P, W, Q, D
<1>7. x \in Int /\ r \in 0 .. P - 1 /\ raw = P * x + r
  BY <1>5
<1>8. H \in Int /\ F \in 0 .. W - 1 /\ x = W * H + F
  BY <1>5, <1>7
<1>9. \A a \in Int : a \div D = ((a \div P) \div W) \div Q
  <2>1. \A a \in Int : Quot(a, D) = Quot(Quot(Quot(a, P), W), Q)
    BY <1>5, <1>6, DivDivDiv
  <2> QED
    BY <2>1 DEF Quot
<1>10. raw \div D = H \div Q
  BY <1>9
<1> HIDE DEF x, r, H, F, y
<1>11. y = (H * W + v) * P + r /\ H * W + v \in Int /\ y \in Int
  <2>1. H * W \in Int
    BY <1>5, <1>8
  <2>2. y = raw + (v - F) * P
    BY DEF y
  <2>3. raw = (W * H + F) * P + r
    BY <1>5, <1>7, <1>8
  <2>4. v \in Int
    BY <1>5, <1>v
  <2> DEFINE g == H * W
  <2>5. g \in Int /\ raw = (g + F) * P + r /\ F \in Int /\ r \in Int
    BY <1>5, <1>7, <1>8, <2>1, <2>3
  <2> HIDE DEF g
  <2>6. y = (g + v) * P + r /\ g + v \in Int /\ y \in Int
    <3>1. (g + F) * P + (v - F) * P = (g + v) * P
      BY <1>5, <2>4, <2>5
    <3>2. (g + v) * P \in Int /\ (v - F) * P \in Int
      BY <1>5, <2>4, <2>5
    <3> QED
      BY <1>5, <2>2, <2>4, <2>5, <3>1, <3>2
  <2> QED
    BY <2>6 DEF g
<1>12. y \div P = H * W + v
  BY <1>5, <1>7, <1>11, DivMod
<1>13. (H * W + v) \div W = H
  BY <1>5, <1>8, <1>11, <1>v, DivMod
<1>14. y \div D = H \div Q
  BY <1>9, <1>11, <1>12, <1>13
<1>15. Field(d, y) = Field(d, raw)
  BY <1>f, <1>10, <1>14
<1>16. y = raw + (v - Field(c, raw)) * P
  BY <1>f DEF y
<1> QED
  BY <1>15, <1>16 DEF P, l

(* What is written is read back, up to what the bytes hold. *)
LEMMA ReadBack ==
  ASSUME NEW t \in Held, NEW ty \in Types, NEW at \in Nat \ {0}, at + Size(ty) - 1 <= TuneLen,
         NEW raw \in Int
  PROVE  \E k \in Int :
           read_raw(write_raw(t, at, ty, raw), at, ty) = raw + k * Pow2[8 * Size(ty)]
<1>0. TuneLen \in Nat /\ DOMAIN t = 1 .. TuneLen
  BY MsqAssumption DEF Held
<1>1. CASE ty = "U16"
  <2>0. Size(ty) = 2 /\ ~Signed(ty)
    BY <1>1 DEF Size, Signed
  <2> DEFINE x == raw % 256
             q == raw \div 256
             y == q % 256
             u == [t EXCEPT ![at] = x, ![at + 1] = y]
  <2>1. at \in DOMAIN t /\ at + 1 \in DOMAIN t /\ at # at + 1
    BY <1>0, <2>0
  <2>2. u[at] = x /\ u[at + 1] = y
    <3> HIDE DEF x, y
    <3> QED
      BY <2>1
  <2>3. write_raw(t, at, ty, raw) = u
    BY <2>0 DEF write_raw
  <2>4. read_raw(u, at, ty) = x + 256 * y
    <3> HIDE DEF u, x, y
    <3> QED
      BY <2>0, <2>2 DEF read_raw
  <2>5. q \in Int /\ x \in 0 .. 255 /\ raw = 256 * q + x
    OBVIOUS
  <2> HIDE DEF x, u
  <2>6. y = q - 256 * (q \div 256) /\ q \div 256 \in Int
    <3> HIDE DEF q
    <3> QED
      BY <2>5
  <2> DEFINE k == -(q \div 256)
  <2>7. k \in Int /\ y = q + 256 * k
    <3> HIDE DEF q, y
    <3> QED
      BY <2>5, <2>6
  <2> HIDE DEF k, y, q
  <2>8. x + 256 * y = raw + k * 65536
    BY <2>5, <2>7
  <2>9. 8 * Size(ty) = 16
    BY <2>0
  <2>10. read_raw(write_raw(t, at, ty, raw), at, ty) = x + 256 * y
    BY <2>3, <2>4
  <2>11. Pow2[8 * Size(ty)] = 65536
    BY <2>9, Pow2Bytes
  <2>12. read_raw(write_raw(t, at, ty, raw), at, ty) = raw + k * Pow2[8 * Size(ty)]
    BY <2>8, <2>10, <2>11
  <2> QED
    BY <2>7, <2>12
<1>2. CASE ty # "U16"
  <2>0. Size(ty) = 1
    BY <1>2 DEF Size
  <2> DEFINE x == raw % 256
             q == raw \div 256
             u == [t EXCEPT ![at] = x]
  <2>1. at \in DOMAIN t
    BY <1>0, <2>0
  <2>2. u[at] = x
    <3> HIDE DEF x
    <3> QED
      BY <2>1
  <2>3. write_raw(t, at, ty, raw) = u
    BY <2>0 DEF write_raw
  <2>4. read_raw(u, at, ty) = x \/ read_raw(u, at, ty) = x - 256
    <3> HIDE DEF u, x
    <3> QED
      BY <2>0, <2>2 DEF read_raw
  <2>5. q \in Int /\ x \in 0 .. 255 /\ raw = 256 * q + x
    OBVIOUS
  <2> HIDE DEF x, u, q
  <2>6. 8 * Size(ty) = 8
    BY <2>0
  <2>7. x = raw + (-q) * 256 /\ x - 256 = raw + (-q - 1) * 256 /\ -q \in Int /\ -q - 1 \in Int
    BY <2>5
  <2> QED
    BY <2>3, <2>4, <2>6, <2>7, Pow2Bytes
<1> QED
  BY <1>1, <1>2

(* A write leaves the other bytes alone. *)
LEMMA WriteFrame ==
  ASSUME NEW t \in Held, NEW at \in Nat, NEW ty, NEW raw \in Int, NEW b \in 1 .. TuneLen,
         b \notin at .. at + Size(ty) - 1
  PROVE  write_raw(t, at, ty, raw)[b] = t[b]
<1>0. TuneLen \in Nat /\ DOMAIN t = 1 .. TuneLen /\ b \in Nat
  BY MsqAssumption DEF Held
<1> DEFINE x == raw % 256
           y == (raw \div 256) % 256
<1>1. write_raw(t, at, ty, raw) = IF Size(ty) = 2 THEN [t EXCEPT ![at] = x, ![at + 1] = y]
                                  ELSE [t EXCEPT ![at] = x]
  BY DEF write_raw
<1> HIDE DEF x, y
<1>2. CASE Size(ty) = 2
  <2>1. b # at /\ b # at + 1
    BY <1>0, <1>2
  <2> QED
    BY <1>0, <1>1, <1>2, <2>1
<1>3. CASE Size(ty) # 2
  <2>1. Size(ty) = 1
    BY <1>3 DEF Size
  <2>2. b # at
    BY <1>0, <2>1
  <2> QED
    BY <1>0, <1>1, <1>3, <2>2
<1> QED
  BY <1>2, <1>3

(* What is read depends on the bytes read. *)
LEMMA ReadFrame ==
  ASSUME NEW t, NEW u, NEW ty \in Types, NEW at \in Nat,
         \A b \in at .. at + Size(ty) - 1 : t[b] = u[b]
  PROVE  read_raw(t, at, ty) = read_raw(u, at, ty)
<1>1. Size(ty) \in {1, 2}
  BY DEF Size
<1>2. at \in at .. at + Size(ty) - 1
  BY <1>1
<1>3. t[at] = u[at]
  BY <1>2
<1>4. Size(ty) = 2 => t[at + 1] = u[at + 1]
  <2>1. Size(ty) = 2 => at + 1 \in at .. at + Size(ty) - 1
    OBVIOUS
  <2> QED
    BY <2>1
<1> QED
  BY <1>3, <1>4 DEF read_raw

(* So do the raw values of a constant. *)
LEMMA RawFrame ==
  ASSUME NEW c, GoodConst(c), NEW t \in Held, NEW u \in Held, \A b \in Bytes(c) : t[b] = u[b]
  PROVE  Raw(c, t) = Raw(c, u)
<1> DEFINE z == Size(c.ty)
           a == c.at
           n == c.n
<1>0. /\ z \in {1, 2} /\ a \in Nat \ {0} /\ n \in Nat \ {0} /\ c.ty \in Types
      /\ c.class \in Classes
  BY DEF GoodConst, Size
<1>1. Bytes(c) = a .. a + ByteSize(c) - 1
  BY DEF Bytes
<1>2. c.class \in {"Scalar", "Bits"} => read_raw(t, a, c.ty) = read_raw(u, a, c.ty)
  <2>1. c.class \in {"Scalar", "Bits"} => ByteSize(c) = z
    BY DEF ByteSize
  <2>2. c.class \in {"Scalar", "Bits"} => \A b \in a .. a + Size(c.ty) - 1 : t[b] = u[b]
    BY <1>1, <2>1
  <2> QED
    BY <1>0, <2>2, ReadFrame
<1>3. ASSUME c.class = "Array", NEW i \in 1 .. n
      PROVE  read_raw(t, a + (i - 1) * z, c.ty) = read_raw(u, a + (i - 1) * z, c.ty)
  <2>1. ByteSize(c) = n * z
    BY <1>3 DEF ByteSize
  <2> DEFINE o == a + (i - 1) * z
  <2> HIDE DEF z, a, n
  <2>2. o \in Nat /\ \A b \in o .. o + z - 1 : b \in a .. a + n * z - 1
    <3>1. CASE z = 1
      BY <1>0, <3>1
    <3>2. CASE z = 2
      BY <1>0, <3>2
    <3> QED
      BY <1>0, <3>1, <3>2
  <2>3. \A b \in o .. o + z - 1 : t[b] = u[b]
    BY <1>1, <2>1, <2>2
  <2> HIDE DEF o
  <2>4. \A b \in o .. o + Size(c.ty) - 1 : t[b] = u[b]
    BY <2>3 DEF z
  <2>5. read_raw(t, o, c.ty) = read_raw(u, o, c.ty)
    BY <1>0, <2>2, <2>4, ReadFrame
  <2> QED
    BY <2>5 DEF o
<1>4. CASE c.class = "String"
  <2>1. ByteSize(c) = n * z
    BY <1>4 DEF ByteSize
  <2>2. \A b \in a .. a + n - 1 : t[b] = u[b]
    <3> HIDE DEF z, a, n
    <3>1. \A b \in a .. a + n - 1 : b \in a .. a + n * z - 1
      <4>1. CASE z = 1
        BY <1>0, <4>1
      <4>2. CASE z = 2
        BY <1>0, <4>2
      <4> QED
        BY <1>0, <4>1, <4>2
    <3> QED
      BY <1>1, <2>1, <3>1
  <2>3. Raw(c, t) = SubSeq(t, a, a + n - 1) /\ Raw(c, u) = SubSeq(u, a, a + n - 1)
    BY <1>4 DEF Raw
  <2> HIDE DEF a, n
  <2>4. SubSeq(t, a, a + n - 1) = SubSeq(u, a, a + n - 1)
    <3>0. TuneLen \in Nat
      BY MsqAssumption
    <3>1. c.at + c.n - 1 <= TuneLen
      BY <1>4, Places
    <3>2. a + n - 1 <= TuneLen
      BY <3>1 DEF a, n
    <3>3. \A b \in a .. a + n - 1 : t[b] \in Int /\ u[b] \in Int
      <4>1. \A b \in 1 .. TuneLen : t[b] \in 0 .. 255 /\ u[b] \in 0 .. 255
        BY DEF Held
      <4>2. \A b \in a .. a + n - 1 : b \in 1 .. TuneLen
        BY <1>0, <3>0, <3>2
      <4>3. \A b \in 0 .. 255 : b \in Int
        OBVIOUS
      <4> QED
        BY <4>1, <4>2, <4>3
    <3>4. /\ SubSeq(t, a, a + n - 1) \in Seq(Int) /\ Len(SubSeq(t, a, a + n - 1)) = n
          /\ \A i \in 1 .. n : SubSeq(t, a, a + n - 1)[i] = t[a + i - 1]
      BY <1>0, <3>3, SubSeqProperties
    <3>5. /\ SubSeq(u, a, a + n - 1) \in Seq(Int) /\ Len(SubSeq(u, a, a + n - 1)) = n
          /\ \A i \in 1 .. n : SubSeq(u, a, a + n - 1)[i] = u[a + i - 1]
      BY <1>0, <3>3, SubSeqProperties
    <3>6. \A i \in 1 .. n : a + i - 1 \in a .. a + n - 1
      BY <1>0
    <3>7. \A i \in 1 .. n : t[a + i - 1] = u[a + i - 1]
      BY <2>2, <3>6
    <3> DEFINE p == SubSeq(t, a, a + n - 1)
               q == SubSeq(u, a, a + n - 1)
    <3>8. p \in Seq(Int) /\ q \in Seq(Int) /\ Len(p) = Len(q) /\ \A i \in 1 .. Len(p) : p[i] = q[i]
      BY <3>4, <3>5, <3>7
    <3> HIDE DEF p, q
    <3>9. p = q
      BY <3>8, SeqEqual
    <3> QED
      BY <3>9 DEF p, q
  <2> QED
    BY <2>3, <2>4
<1>5. CASE c.class = "Array"
  <2>1. /\ Raw(c, t) = [i \in 1 .. n |-> read_raw(t, a + (i - 1) * z, c.ty)]
        /\ Raw(c, u) = [i \in 1 .. n |-> read_raw(u, a + (i - 1) * z, c.ty)]
    BY <1>5 DEF Raw
  <2> HIDE DEF a, n, z
  <2> QED
    BY <1>3, <1>5, <2>1
<1>6. CASE c.class \in {"Scalar", "Bits"}
  BY <1>2, <1>6 DEF Raw
<1> QED
  BY <1>0, <1>4, <1>5, <1>6 DEF Classes

(* Setting a bit field leaves the other fields of its word alone. *)
LEMMA SetBitsApart ==
  ASSUME NEW c, GoodConst(c), c.class = "Bits", NEW d, GoodConst(d), d.class = "Bits",
         d.at = c.at, d.ty = c.ty, d.hi < 8 * Size(d.ty), c.hi < d.lo \/ d.hi < c.lo,
         NEW t \in Held, NEW v \in Int
  PROVE  Raw(d, SetBits(c, t, v)) = Raw(d, t)
<1> DEFINE raw == read_raw(t, c.at, c.ty)
           f == Field(c, raw)
           W == Pow2[Width(c)]
           P == Pow2[c.lo]
           new == raw + ((v % W) - f) * P
           j == 8 * Size(d.ty)
           u == write_raw(t, c.at, c.ty, new)
           back == read_raw(u, c.at, c.ty)
<1>1. raw \in Int /\ c.at \in Nat \ {0} /\ c.at + Size(c.ty) - 1 <= TuneLen /\ c.ty \in Types
  BY Places, ReadType DEF GoodConst
<1>2. f \in Nat /\ W \in Nat \ {0} /\ P \in Nat \ {0}
  BY <1>1, FieldType, WidthFacts
<1>3. SetBits(c, t, v) = u
  BY DEF SetBits
<1>4. v % W \in 0 .. W - 1 /\ new \in Int
  <2> HIDE DEF W, P, f, raw
  <2>1. v % W \in 0 .. W - 1
    BY <1>2
  <2>2. v % W \in Int
    BY <1>2, <2>1
  <2> DEFINE m == v % W
  <2> HIDE DEF m
  <2>3. raw + (m - f) * P \in Int
    BY <1>1, <1>2, <2>2 DEF m
  <2> QED
    BY <2>1, <2>3 DEF m
<1>5. Field(d, new) = Field(d, raw)
  <2> DEFINE m == v % W
  <2>1. m \in 0 .. W - 1
    BY <1>4
  <2>2. CASE c.hi < d.lo
    <3> HIDE DEF m
    <3>1. Field(d, raw + (m - Field(c, raw)) * Pow2[c.lo]) = Field(d, raw)
      <4> HIDE DEF raw
      <4> QED
        BY <1>1, <2>1, <2>2, FieldAbove
    <3> QED
      BY <3>1 DEF m
  <2>3. CASE d.hi < c.lo
    <3> DEFINE k == m - f
    <3>1. k \in Int /\ c.lo \in 0 .. 16
      <4>1. c.lo \in 0 .. 15
        BY DEF GoodConst
      <4> HIDE DEF m, f, W
      <4> QED
        BY <1>2, <2>1, <4>1
    <3> HIDE DEF k, raw
    <3>2. Field(d, raw + k * Pow2[c.lo]) = Field(d, raw)
      BY <1>1, <2>3, <3>1, FieldIgnores
    <3> QED
      BY <3>2 DEF k
  <2> QED
    BY <2>2, <2>3
<1> HIDE DEF new
<1>6. PICK k \in Int : back = new + k * Pow2[j]
  BY <1>1, <1>4, ReadBack
<1>7. Field(d, new + k * Pow2[j]) = Field(d, new)
  <2>1. j \in 0 .. 16 /\ d.hi < j
    BY DEF Size
  <2> HIDE DEF j
  <2> QED
    BY <1>4, <1>6, <2>1, FieldIgnores
<1>8. Field(d, back) = Field(d, raw)
  BY <1>5, <1>6, <1>7
<1>9. Raw(d, u) = <<Field(d, back)>> /\ Raw(d, t) = <<Field(d, raw)>>
  BY DEF Raw
<1> QED
  BY <1>3, <1>8, <1>9

(* An edit writes bytes of the constant edited. *)
LEMMA EditFrame ==
  ASSUME KnownScales, NEW t \in Held, NEW e, Editable(t, e), e[3] \in Int,
         NEW b \in 1 .. TuneLen, b \notin Bytes(Const(e[1]))
  PROVE  EditOne(t, e)[b] = t[b]
<1> DEFINE x == e[1]
           c == Const(x)
           i == e[2]
           v == e[3]
<1>1. /\ x \in Names /\ c.class # "String" /\ (c.class = "Array" => i \in 1 .. c.n)
      /\ c.class = "Bits" \/ HasScale(c, t)
  BY DEF Editable
<1>2. GoodConst(c)
  BY <1>1, ConstIs
<1>3. /\ Size(c.ty) \in {1, 2} /\ c.at \in Nat \ {0} /\ c.n \in Nat \ {0}
      /\ c.class \in Classes
      /\ Bytes(c) = c.at .. c.at + ByteSize(c) - 1
  BY <1>2 DEF GoodConst, Size, Bytes
<1>4. EditOne(t, e) = IF c.class = "Array" THEN set_array_element_impl(c, t, i, v, TRUE)
                      ELSE set_constant_impl(c, t, v, TRUE)
  BY DEF EditOne
<1>5. b \notin Bytes(c) /\ v \in Int
  OBVIOUS
<1> HIDE DEF c, i, v, x
<1>6. c.class # "Bits" => encode_impl(c, t, v, TRUE) \in Int
  <2>1. TRUE \in BOOLEAN
    OBVIOUS
  <2> QED
    BY <1>1, <1>5, <2>1, EncodeType DEF c
<1> DEFINE w == encode_impl(c, t, v, TRUE)
<1>9. c.class # "Bits" => w \in Int
  BY <1>6
<1> HIDE DEF w
<1>7. CASE c.class = "Array"
  <2> DEFINE n == c.n
             z == Size(c.ty)
             a == c.at
             o == a + (i - 1) * z
  <2>1. Bytes(c) = a .. a + n * z - 1 /\ i \in 1 .. n
    BY <1>1, <1>3, <1>7 DEF ByteSize
  <2>2. set_array_element_impl(c, t, i, v, TRUE) = write_raw(t, o, c.ty, w)
    BY <1>1, <1>7 DEF set_array_element_impl, w
  <2>3. z \in {1, 2} /\ a \in Nat \ {0} /\ n \in Nat \ {0}
    BY <1>3
  <2> HIDE DEF n, z, a
  <2>4. o \in Nat /\ \A p \in o .. o + z - 1 : p \in a .. a + n * z - 1
    <3>1. CASE z = 1
      BY <2>1, <2>3, <3>1
    <3>2. CASE z = 2
      BY <2>1, <2>3, <3>2
    <3> QED
      BY <2>3, <3>1, <3>2
  <2>5. b \notin o .. o + z - 1
    BY <1>5, <2>1, <2>4
  <2> HIDE DEF o
  <2>6. write_raw(t, o, c.ty, w)[b] = t[b]
    <3>1. b \notin o .. o + Size(c.ty) - 1
      BY <2>5 DEF z
    <3> QED
      BY <1>7, <1>9, <2>4, <3>1, WriteFrame
  <2> QED
    BY <1>4, <1>7, <2>2, <2>6
<1>8. CASE c.class \in {"Scalar", "Bits"}
  <2>1. \A r \in Int : write_raw(t, c.at, c.ty, r)[b] = t[b]
    <3>1. ByteSize(c) = Size(c.ty)
      BY <1>8 DEF ByteSize
    <3>2. b \notin c.at .. c.at + Size(c.ty) - 1 /\ c.at \in Nat
      BY <1>3, <1>5, <3>1
    <3> QED
      BY <3>2, WriteFrame
  <2>2. CASE c.class = "Scalar"
    <3>1. EditOne(t, e) = write_raw(t, c.at, c.ty, w)
      BY <1>1, <1>4, <2>2 DEF set_constant_impl, w
    <3> QED
      BY <1>9, <2>1, <2>2, <3>1
  <2>3. CASE c.class = "Bits"
    <3> DEFINE k == AtLeast(RoundDiv(v, One), 0)
               raw == read_raw(t, c.at, c.ty)
               f == Field(c, raw)
               W == Pow2[Width(c)]
               P == Pow2[c.lo]
               new == raw + ((k % W) - f) * P
    <3>1. EditOne(t, e) = write_raw(t, c.at, c.ty, new)
      BY <1>4, <2>3 DEF set_constant_impl, SetBits
    <3>2. k \in Int
      <4>1. RoundDiv(v, One) \in Int
        BY <1>5, OneFact, RoundDivType
      <4> QED
        BY <4>1 DEF AtLeast
    <3>3. raw \in Int
      BY <1>2, <2>3, Places, ReadType DEF GoodConst
    <3>4. f \in Nat /\ W \in Nat \ {0} /\ P \in Nat \ {0}
      BY <1>2, <3>3, FieldType, WidthFacts
    <3> HIDE DEF k, raw, f, W, P
    <3>5. k % W \in Int
      BY <3>2, <3>4
    <3>6. new \in Int
      BY <3>3, <3>4, <3>5
    <3> HIDE DEF new
    <3> QED
      BY <2>1, <3>1, <3>6
  <2> QED
    BY <1>8, <2>2, <2>3
<1> QED
  BY <1>1, <1>3, <1>7, <1>8 DEF Classes

(* An edit changes no constant that is apart from the one edited. *)
LEMMA EditApart ==
  ASSUME KnownScales, NEW t \in Held, NEW e, Editable(t, e), e[3] \in Int,
         NEW i \in DOMAIN Def, Apart(Def[i], Const(e[1]))
  PROVE  Raw(Def[i], EditOne(t, e)) = Raw(Def[i], t)
<1> DEFINE c == Const(e[1])
           d == Def[i]
           u == EditOne(t, e)
<1>1. e[1] \in Names /\ GoodConst(c) /\ GoodConst(d) /\ u \in Held
  BY ConstIs, DefGood, EditOneType DEF Editable
<1>2. Apart(d, c)
  OBVIOUS
<1>3. CASE Bytes(d) \cap Bytes(c) = {}
  <2>1. \A b \in Bytes(d) : b \in 1 .. TuneLen
    <3>1. d.at \in Nat \ {0} /\ Bytes(d) = d.at .. d.at + ByteSize(d) - 1
          /\ d.at + ByteSize(d) - 1 <= TuneLen
      BY <1>1 DEF GoodConst, Bytes
    <3>2. TuneLen \in Nat /\ ByteSize(d) \in Int
      <4>1. Size(d.ty) \in {1, 2} /\ d.n \in Nat
        BY <1>1 DEF Size, GoodConst
      <4>2. d.n * Size(d.ty) \in Int
        BY <4>1
      <4> QED
        BY <4>1, <4>2, MsqAssumption DEF ByteSize
    <3> HIDE DEF d
    <3> QED
      BY <3>1, <3>2
  <2>2. \A b \in Bytes(d) : u[b] = t[b]
    <3> SUFFICES ASSUME NEW b \in Bytes(d) PROVE u[b] = t[b]
      OBVIOUS
    <3>1. b \in 1 .. TuneLen /\ b \notin Bytes(Const(e[1]))
      BY <1>3, <2>1
    <3> QED
      BY <3>1, EditFrame
  <2> HIDE DEF u, d
  <2>3. Raw(d, u) = Raw(d, t)
    BY <1>1, <2>2, RawFrame
  <2> QED
    BY <2>3 DEF u, d
<1>4. CASE /\ d.class = "Bits" /\ c.class = "Bits" /\ d.at = c.at /\ d.ty = c.ty
           /\ d.hi < c.lo \/ c.hi < d.lo
  <2>1. d.hi < 8 * Size(d.ty)
    BY <1>4, MsqAssumption
  <2> DEFINE v == e[3]
             k == AtLeast(RoundDiv(v, One), 0)
  <2>2. u = SetBits(c, t, k)
    BY <1>4 DEF EditOne, set_constant_impl
  <2>3. k \in Int
    <3>1. RoundDiv(v, One) \in Int
      BY OneFact, RoundDivType
    <3> QED
      BY <3>1 DEF AtLeast
  <2> HIDE DEF k, c, d, u
  <2>4. Raw(d, SetBits(c, t, k)) = Raw(d, t)
    BY <1>1, <1>4, <2>1, <2>3, SetBitsApart
  <2> QED
    BY <2>2, <2>4 DEF d, u
<1> QED
  BY <1>2, <1>3, <1>4 DEF Apart

(* An edit of one constant, of any definition, leaves every constant alone   *)
(* that shares no bits with it, whatever was edited, applied or opened       *)
(* before, whatever scales its expressions give or fail to give              *)
(* (set_constant_impl, set_array_element_impl, write_raw).                   *)
THEOREM EditsStayInPlaceHolds ==
  ASSUME KnownScales
  PROVE  Spec => EditsStayInPlace
<1> DEFINE Act == last' = "edit" =>
                    \E e \in Edits : /\ Editable(tune, e) /\ tune' = EditOne(tune, e)
                                     /\ \A i \in Changed : ~Apart(Def[i], Const(e[1]))
<1>1. Init => MsqInv
  BY MsqInitInv
<1>2. MsqInv /\ [Next]_vars => MsqInv'
  BY MsqNextInv
<1>3. MsqInv /\ [Next]_vars => [Act]_vars
  <2> SUFFICES ASSUME MsqInv, Next, last' = "edit"
               PROVE  \E e \in Edits : /\ Editable(tune, e) /\ tune' = EditOne(tune, e)
                                       /\ \A i \in Changed : ~Apart(Def[i], Const(e[1]))
    OBVIOUS
  <2>1. tune_set_constant
    BY DEF Next, Batch, SetPc, msq_save, msq_upload, msq_apply, offline_open, offline_close,
           do_connect, disconnect
  <2>2. PICK e \in Edits :
          /\ tune' = IF Editable(tune, e) THEN EditOne(tune, e) ELSE tune
          /\ last' = IF Editable(tune, e) THEN "edit" ELSE "refused"
    BY <2>1 DEF tune_set_constant
  <2>3. Editable(tune, e) /\ tune' = EditOne(tune, e)
    BY <2>2
  <2>4. e[3] \in Int /\ tune \in Held
    <3>1. e \in STRING \X Int \X Int
      BY MsqAssumption
    <3> QED
      BY <3>1 DEF MsqInv
  <2>5. \A i \in DOMAIN Def : Apart(Def[i], Const(e[1])) => Raw(Def[i], tune') = Raw(Def[i], tune)
    BY <2>3, <2>4, EditApart
  <2>6. \A i \in Changed : ~Apart(Def[i], Const(e[1]))
    BY <2>5 DEF Changed
  <2> QED
    BY <2>3, <2>6
<1> QED
  BY <1>1, <1>2, <1>3, PTL DEF Spec, EditsStayInPlace

-----------------------------------------------------------------------------
(* Msq: a file applied twice restores the tune that it was saved from.      *)


(* Bits l .. l + w - 1 of a number. *)
BitRange(l, w, x) == Quot(x, Pow2[l]) % Pow2[w]
(* Bit b of a number. *)
Bit(b, x) == Quot(x, Pow2[b]) % 2

(* One bit more. *)
LEMMA CutStep ==
  ASSUME NEW l \in 0 .. 15, NEW w \in 0 .. 15, l + w <= 15, NEW x \in Int
  PROVE  /\ BitRange(l, w + 1, x) = BitRange(l, w, x) + Pow2[w] * Bit(l + w, x)
         /\ BitRange(l, w, x) \in 0 .. Pow2[w] - 1 /\ Bit(l + w, x) \in {0, 1}
<1> DEFINE P == Pow2[l]
           W == Pow2[w]
           V == Pow2[w + 1]
           D == Pow2[l + w]
           y == Quot(x, P)
           q == y \div W
           r == y % W
           h == q \div 2
           b == q % 2
<1>1. P \in Nat \ {0} /\ W \in Nat \ {0} /\ V \in Nat \ {0} /\ D \in Nat \ {0}
  BY Pow2Facts
<1>2. V = 2 * W
  <2>1. w + 1 \in 1 .. 16 /\ (w + 1) - 1 = w
    OBVIOUS
  <2> QED
    BY <2>1, Pow2Step
<1>3. D = P * W
  BY Pow2Sum
<1>c. BitRange(l, w + 1, x) = y % V /\ BitRange(l, w, x) = r /\ Bit(l + w, x) = Quot(x, D) % 2
  BY DEF BitRange, Bit
<1> HIDE DEF P, W, V, D
<1>4. y \in Int /\ Quot(x, D) = Quot(y, W)
  BY <1>1, <1>3, DivDiv
<1>5. Quot(x, D) = q
  BY <1>4 DEF Quot
<1> HIDE DEF y
<1>6. q \in Int /\ r \in 0 .. W - 1 /\ y = W * q + r
  BY <1>1, <1>4
<1> HIDE DEF q, r
<1>7. h \in Int /\ b \in {0, 1} /\ q = 2 * h + b
  BY <1>6
<1> HIDE DEF h
<1>8. y = h * V + (W * b + r)
  <2>1. W * (2 * h + b) = h * (2 * W) + W * b
    BY <1>1, <1>7
  <2>2. W * b \in Int /\ h * (2 * W) \in Int
    BY <1>1, <1>7
  <2> HIDE DEF b
  <2> QED
    BY <1>1, <1>2, <1>6, <1>7, <2>1, <2>2
<1>9. W * b + r \in 0 .. V - 1
  <2>1. CASE b = 0
    BY <1>1, <1>2, <1>6, <2>1
  <2>2. CASE b = 1
    BY <1>1, <1>2, <1>6, <2>2
  <2> QED
    BY <1>7, <2>1, <2>2
<1> HIDE DEF b
<1>10. y % V = W * b + r
  BY <1>1, <1>4, <1>7, <1>8, <1>9, DivMod
<1>11. BitRange(l, w + 1, x) = r + W * b
  <2>1. W * b \in Int
    BY <1>1, <1>7
  <2> QED
    BY <1>1, <1>6, <1>10, <1>c, <2>1
<1>12. BitRange(l, w, x) = r /\ Bit(l + w, x) = b
  BY <1>5, <1>c DEF b
<1> QED
  BY <1>6, <1>7, <1>11, <1>12 DEF W

(* Numbers agree on a range of bits exactly if they agree on every bit of it. *)
LEMMA CutBits ==
  ASSUME NEW l \in 0 .. 15, NEW n \in 0 .. 16, l + n <= 16, NEW x \in Int, NEW y \in Int
  PROVE  BitRange(l, n, x) = BitRange(l, n, y) <=> \A b \in l .. l + n - 1 : Bit(b, x) = Bit(b, y)
<1> DEFINE Eq(w) == BitRange(l, w, x) = BitRange(l, w, y)
           All(w) == \A b \in l .. l + w - 1 : Bit(b, x) = Bit(b, y)
           T == {w \in Nat : l + w <= 16 /\ ~(Eq(w) <=> All(w))}
<1>1. T = {}
  <2> SUFFICES ASSUME T # {} PROVE FALSE
    OBVIOUS
  <2>1. PICK w \in T : \A v \in T : w <= v
    <3>1. T \in SUBSET Nat
      OBVIOUS
    <3> HIDE DEF T
    <3> QED
      BY <3>1, LeastNat
  <2>2. w \in Nat /\ l + w <= 16 /\ ~(Eq(w) <=> All(w))
    OBVIOUS
  <2>3. CASE w = 0
    <3>1. All(0)
      OBVIOUS
    <3>2. Eq(0)
      <4>1. \A z \in Int : z % 1 = 0
        OBVIOUS
      <4>2. Quot(x, Pow2[l]) \in Int /\ Quot(y, Pow2[l]) \in Int
        <5>1. Pow2[l] \in Nat \ {0}
          BY Pow2Facts
        <5> QED
          BY <5>1 DEF Quot
      <4> QED
        BY <4>1, <4>2, Pow2Step DEF BitRange
    <3> QED
      BY <2>2, <2>3, <3>1, <3>2
  <2>4. CASE w # 0
    <3> DEFINE v == w - 1
    <3>1. v \in Nat /\ v \in 0 .. 15 /\ l + v <= 15 /\ w = v + 1 /\ ~(w <= v) /\ l + v <= 16
      BY <2>2, <2>4
    <3>2. Eq(v) <=> All(v)
      <4>1. v \notin T
        BY <2>1, <3>1
      <4>2. v \in Nat /\ l + v <= 16
        BY <3>1
      <4> HIDE DEF Eq, All, v
      <4> QED
        BY <4>1, <4>2
    <3>3. All(w) <=> All(v) /\ Bit(l + v, x) = Bit(l + v, y)
      <4>1. w \in Nat /\ v \in Nat /\ w = v + 1
        BY <3>1
      <4> HIDE DEF v
      <4>2. \A b : b \in l .. l + w - 1 <=> (b \in l .. l + v - 1 \/ b = l + v)
        BY <4>1
      <4> QED
        BY <4>2
    <3>4. Eq(w) <=> Eq(v) /\ Bit(l + v, x) = Bit(l + v, y)
      <4> DEFINE cx == BitRange(l, v, x)
                 cy == BitRange(l, v, y)
                 bx == Bit(l + v, x)
                 by == Bit(l + v, y)
                 W == Pow2[v]
      <4>0. v \in 0 .. 15 /\ l + v <= 15 /\ w = v + 1
        BY <3>1
      <4>1. BitRange(l, w, x) = cx + W * bx /\ cx \in 0 .. W - 1 /\ bx \in {0, 1}
        <5> HIDE DEF v
        <5> QED
          BY <4>0, CutStep
      <4>2. BitRange(l, w, y) = cy + W * by /\ cy \in 0 .. W - 1 /\ by \in {0, 1}
        <5> HIDE DEF v
        <5> QED
          BY <4>0, CutStep
      <4>3. W \in Nat \ {0}
        BY <3>1, Pow2Facts
      <4>4. cx + W * bx = cy + W * by <=> cx = cy /\ bx = by
        <5>1. W * bx = (IF bx = 0 THEN 0 ELSE W) /\ W * by = (IF by = 0 THEN 0 ELSE W)
          <6> HIDE DEF cx, cy, W, bx, by
          <6> QED
            BY <4>1, <4>2, <4>3
        <5> DEFINE p == W * bx
                   q == W * by
        <5>2. p = (IF bx = 0 THEN 0 ELSE W) /\ q = (IF by = 0 THEN 0 ELSE W)
          BY <5>1
        <5> HIDE DEF cx, cy, W, bx, by, p, q
        <5>3. cx + p = cy + q <=> cx = cy /\ bx = by
          BY <4>1, <4>2, <4>3, <5>2
        <5> QED
          BY <5>3 DEF p, q
      <4> QED
        BY <4>1, <4>2, <4>4
    <3> HIDE DEF Eq, All, v
    <3> QED
      BY <2>2, <3>2, <3>3, <3>4
  <2> QED
    BY <2>3, <2>4
<1>2. n \in Nat /\ n \notin T
  BY <1>1
<1>3. Eq(n) <=> All(n)
  <2> HIDE DEF Eq, All
  <2> QED
    BY <1>2
<1> QED
  BY <1>3

(* A bit field is a range of bits. *)
LEMMA FieldBits ==
  ASSUME NEW d, GoodConst(d), NEW x \in Int, NEW y \in Int
  PROVE  /\ Field(d, x) = Field(d, y) <=> \A b \in d.lo .. d.hi : Bit(b, x) = Bit(b, y)
         /\ Field(d, x) \in 0 .. Pow2[Width(d)] - 1
<1> DEFINE l == d.lo
           h == d.hi
           n == Width(d)
<1>1. l \in 0 .. 15 /\ h \in 0 .. 15 /\ l <= h /\ n = h - l + 1
  BY DEF GoodConst, Width
<1>2. \A z : Field(d, z) = BitRange(l, n, z)
  BY DEF Field, BitRange, Quot
<1>p. Pow2[n] \in Nat \ {0}
  BY WidthFacts
<1>q. Pow2[l] \in Nat \ {0}
  BY WidthFacts
<1>r. Field(d, x) \in 0 .. Pow2[n] - 1
  <2> DEFINE q == x \div Pow2[l]
  <2>1. Field(d, x) = q % Pow2[n]
    BY DEF Field
  <2>2. q \in Int
    BY <1>q
  <2> HIDE DEF q, n
  <2> QED
    BY <1>p, <2>1, <2>2
<1> HIDE DEF l, h, n
<1>3. n \in 0 .. 16 /\ l + n <= 16 /\ l + n - 1 = h
  BY <1>1
<1>4. BitRange(l, n, x) = BitRange(l, n, y) <=> \A b \in l .. l + n - 1 : Bit(b, x) = Bit(b, y)
  BY <1>1, <1>3, CutBits
<1>5. Field(d, x) = Field(d, y) <=> \A b \in l .. h : Bit(b, x) = Bit(b, y)
  BY <1>2, <1>3, <1>4
<1> QED
  BY <1>5, <1>r DEF l, h, n


(* The word after a bit field of it was set, through another field of it. *)
LEMMA SetBitsWord ==
  ASSUME NEW c, GoodConst(c), c.class = "Bits", NEW d, GoodConst(d), d.class = "Bits",
         d.at = c.at, d.ty = c.ty, d.hi < 8 * Size(d.ty), NEW t \in Held, NEW v \in Int
  PROVE  LET raw == read_raw(t, c.at, c.ty)
             new == raw + ((v % Pow2[Width(c)]) - Field(c, raw)) * Pow2[c.lo]
         IN raw \in Int /\ new \in Int /\ Raw(d, SetBits(c, t, v)) = <<Field(d, new)>>
<1> DEFINE raw == read_raw(t, c.at, c.ty)
           f == Field(c, raw)
           W == Pow2[Width(c)]
           P == Pow2[c.lo]
           new == raw + ((v % W) - f) * P
           j == 8 * Size(d.ty)
           u == write_raw(t, c.at, c.ty, new)
           back == read_raw(u, c.at, c.ty)
<1>1. raw \in Int /\ c.at \in Nat \ {0} /\ c.at + Size(c.ty) - 1 <= TuneLen /\ c.ty \in Types
  BY Places, ReadType DEF GoodConst
<1>2. f \in Nat /\ W \in Nat \ {0} /\ P \in Nat \ {0}
  BY <1>1, FieldType, WidthFacts
<1>3. SetBits(c, t, v) = u
  BY DEF SetBits
<1>4. new \in Int
  <2> HIDE DEF W, P, f, raw
  <2>1. v % W \in Int
    BY <1>2
  <2> QED
    BY <1>1, <1>2, <2>1
<1> HIDE DEF new
<1>6. PICK k \in Int : back = new + k * Pow2[j]
  BY <1>1, <1>4, ReadBack
<1>7. Field(d, new + k * Pow2[j]) = Field(d, new)
  <2>1. j \in 0 .. 16 /\ d.hi < j
    BY DEF Size
  <2> HIDE DEF j
  <2> QED
    BY <1>4, <1>6, <2>1, FieldIgnores
<1>8. Raw(d, u) = <<Field(d, back)>>
  BY DEF Raw
<1>9. Raw(d, u) = <<Field(d, new)>>
  BY <1>6, <1>7, <1>8
<1> QED
  BY <1>1, <1>3, <1>4, <1>9 DEF new, W, P, f, raw

(* A field set holds what it was set to. *)
LEMMA FieldHit ==
  ASSUME NEW c, GoodConst(c), NEW raw \in Int, NEW v \in 0 .. Pow2[Width(c)] - 1
  PROVE  Field(c, raw + (v - Field(c, raw)) * Pow2[c.lo]) = v
<1> DEFINE P == Pow2[c.lo]
           W == Pow2[Width(c)]
           x == raw \div P
           r == raw % P
           H == x \div W
           F == x % W
           y == raw + (v - F) * P
<1>f. Field(c, raw) = F /\ Field(c, y) = (y \div P) % W
  BY DEF Field
<1>5. P \in Nat \ {0} /\ W \in Nat \ {0}
  BY WidthFacts
<1>v. v \in 0 .. W - 1 /\ v \in Int
  OBVIOUS
<1> HIDE DEF P, W
<1>7. x \in Int /\ r \in 0 .. P - 1 /\ raw = P * x + r
  BY <1>5
<1> HIDE DEF x, r
<1>8. H \in Int /\ F \in 0 .. W - 1 /\ x = W * H + F
  BY <1>5, <1>7
<1>y. y = raw + (v - F) * P
  OBVIOUS
<1> HIDE DEF H, F, y
<1> DEFINE g == H * W
<1>9. g \in Int /\ x = g + F /\ F \in Int
  BY <1>5, <1>8
<1> HIDE DEF g
<1>10. y = (g + v) * P + r /\ g + v \in Int /\ y \in Int
  <2>1. raw = (g + F) * P + r
    BY <1>5, <1>7, <1>9
  <2>2. (g + F) * P + (v - F) * P = (g + v) * P
    BY <1>5, <1>9, <1>v
  <2>3. (g + v) * P \in Int /\ (v - F) * P \in Int /\ (g + F) * P \in Int
    BY <1>5, <1>9, <1>v
  <2> QED
    BY <1>7, <1>9, <1>v, <1>y, <2>1, <2>2, <2>3
<1>11. y \div P = g + v
  BY <1>5, <1>7, <1>10, DivMod
<1>12. (g + v) % W = v
  BY <1>5, <1>8, <1>10, <1>v, DivMod DEF g
<1>13. Field(c, y) = v
  BY <1>11, <1>12, <1>f
<1> QED
  BY <1>13, <1>f DEF y, P

(* The bits outside a field that is set stay. *)
LEMMA BitApart ==
  ASSUME NEW c, GoodConst(c), NEW raw \in Int, NEW v \in 0 .. Pow2[Width(c)] - 1,
         NEW b \in 0 .. 15, b \notin c.lo .. c.hi
  PROVE  Bit(b, raw + (v - Field(c, raw)) * Pow2[c.lo]) = Bit(b, raw)
<1> DEFINE d == [class |-> c.class, ty |-> c.ty, name |-> c.name, lo |-> b, hi |-> b, at |-> c.at,
                 n |-> c.n, scale |-> c.scale, tr |-> c.tr, min |-> c.min, max |-> c.max,
                 labels |-> c.labels]
           W == Pow2[Width(c)]
           f == Field(c, raw)
<1>1. GoodConst(d) /\ d.lo = b /\ d.hi = b
  BY DEF GoodConst, ByteSize
<1>2. \A x : Field(d, x) = Bit(b, x)
  <2>1. Width(d) = 1
    BY DEF Width
  <2>2. Pow2[1] = 2
    BY Pow2Step
  <2> QED
    BY <2>1, <2>2 DEF Field, Bit, Quot
<1> HIDE DEF d
<1>3. c.lo \in 0 .. 15 /\ c.hi \in 0 .. 15
  BY DEF GoodConst
<1>4. CASE c.hi < b
  BY <1>1, <1>2, <1>4, FieldAbove
<1>5. CASE b < c.lo
  <2> DEFINE k == v - f
  <2>1. f \in Nat /\ W \in Nat \ {0}
    BY FieldType, WidthFacts
  <2>2. k \in Int /\ c.lo \in 0 .. 16
    <3> HIDE DEF f, W
    <3>1. v \in 0 .. W - 1
      BY DEF W
    <3> QED
      BY <1>3, <2>1, <3>1
  <2> HIDE DEF k
  <2>3. Field(d, raw + k * Pow2[c.lo]) = Field(d, raw)
    BY <1>1, <1>5, <2>2, FieldIgnores
  <2> QED
    BY <1>2, <2>3 DEF k, f
<1> QED
  BY <1>3, <1>4, <1>5

(* Two fields of one word, set from one tune, do not undo each other. *)
LEMMA FieldKeep ==
  ASSUME NEW c, GoodConst(c), NEW d, GoodConst(d), NEW raw \in Int, NEW w \in Int,
         Field(d, raw) = Field(d, w)
  PROVE  Field(d, raw + (Field(c, w) - Field(c, raw)) * Pow2[c.lo]) = Field(d, w)
<1> DEFINE v == Field(c, w)
           new == raw + (v - Field(c, raw)) * Pow2[c.lo]
<1>1. v \in 0 .. Pow2[Width(c)] - 1
  BY FieldBits
<1>2. new \in Int
  <2> DEFINE f == Field(c, raw)
             P == Pow2[c.lo]
  <2>1. f \in Nat /\ P \in Nat \ {0} /\ v \in Nat
    BY FieldType, WidthFacts
  <2> HIDE DEF f, P, v
  <2>2. raw + (v - f) * P \in Int
    BY <2>1
  <2> QED
    BY <2>2 DEF f, P
<1> HIDE DEF v
<1>3. Field(c, new) = Field(c, w)
  BY <1>1, FieldHit DEF v
<1> HIDE DEF new
<1>4. \A b \in c.lo .. c.hi : Bit(b, new) = Bit(b, w)
  BY <1>2, <1>3, FieldBits
<1>5. \A b \in d.lo .. d.hi : Bit(b, raw) = Bit(b, w)
  BY FieldBits
<1>6. \A b \in 0 .. 15 : b \notin c.lo .. c.hi => Bit(b, new) = Bit(b, raw)
  BY <1>1, BitApart DEF new
<1>7. \A b \in d.lo .. d.hi : b \in 0 .. 15
  <2>1. d.lo \in 0 .. 15 /\ d.hi \in 0 .. 15
    BY DEF GoodConst
  <2> QED
    BY <2>1
<1>8. \A b \in d.lo .. d.hi : Bit(b, new) = Bit(b, w)
  BY <1>4, <1>5, <1>6, <1>7
<1>9. Field(d, new) = Field(d, w)
  BY <1>2, <1>8, FieldBits
<1> QED
  BY <1>9 DEF new, v


(* The bytes of a tune are bytes. *)
LEMMA HeldBytes ==
  ASSUME NEW t \in Held, NEW at \in Nat \ {0}, NEW ty \in Types, at + Size(ty) - 1 <= TuneLen
  PROVE  t[at] \in 0 .. 255 /\ (Size(ty) = 2 => t[at + 1] \in 0 .. 255)
<1>0. TuneLen \in Nat /\ \A b \in 1 .. TuneLen : t[b] \in 0 .. 255
  BY MsqAssumption DEF Held
<1>1. Size(ty) \in {1, 2}
  BY DEF Size
<1>2. at \in 1 .. TuneLen /\ (Size(ty) = 2 => at + 1 \in 1 .. TuneLen)
  BY <1>0, <1>1
<1> QED
  BY <1>0, <1>2

(* The bytes follow from what is read of them. *)
LEMMA ReadBytes ==
  ASSUME NEW t \in Held, NEW u \in Held, NEW at \in Nat \ {0}, NEW ty \in Types,
         at + Size(ty) - 1 <= TuneLen, read_raw(t, at, ty) = read_raw(u, at, ty)
  PROVE  \A b \in at .. at + Size(ty) - 1 : t[b] = u[b]
<1>1. t[at] \in 0 .. 255 /\ (Size(ty) = 2 => t[at + 1] \in 0 .. 255)
  BY HeldBytes
<1>2. u[at] \in 0 .. 255 /\ (Size(ty) = 2 => u[at + 1] \in 0 .. 255)
  BY HeldBytes
<1>3. CASE ty = "U16"
  <2>1. Size(ty) = 2 /\ ~Signed(ty)
    BY <1>3 DEF Size, Signed
  <2>2. t[at] + 256 * t[at + 1] = u[at] + 256 * u[at + 1]
    BY <2>1 DEF read_raw
  <2> DEFINE a == t[at]
             b == t[at + 1]
             c == u[at]
             d == u[at + 1]
  <2>3. a \in 0 .. 255 /\ b \in 0 .. 255 /\ c \in 0 .. 255 /\ d \in 0 .. 255
    BY <1>1, <1>2, <2>1
  <2>4. a + 256 * b = c + 256 * d
    BY <2>2
  <2> HIDE DEF a, b, c, d
  <2>5. a = c /\ b = d
    BY <2>3, <2>4
  <2>6. \A p \in at .. at + 2 - 1 : p = at \/ p = at + 1
    OBVIOUS
  <2> QED
    BY <2>1, <2>5, <2>6 DEF a, b, c, d
<1>4. CASE ty # "U16"
  <2>1. Size(ty) = 1
    BY <1>4 DEF Size
  <2> DEFINE a == t[at]
             c == u[at]
  <2>2. (IF Signed(ty) /\ a > 127 THEN a - 256 ELSE a) = (IF Signed(ty) /\ c > 127 THEN c - 256 ELSE c)
    BY <2>1 DEF read_raw
  <2>3. a \in 0 .. 255 /\ c \in 0 .. 255
    BY <1>1, <1>2
  <2> HIDE DEF a, c
  <2>4. a = c
    BY <2>2, <2>3
  <2>5. \A p \in at .. at + 1 - 1 : p = at
    OBVIOUS
  <2> QED
    BY <2>1, <2>4, <2>5 DEF a, c
<1> QED
  BY <1>3, <1>4

(* What is read may be written back. *)
LEMMA WriteSame ==
  ASSUME NEW t \in Held, NEW at \in Nat \ {0}, NEW ty \in Types, at + Size(ty) - 1 <= TuneLen
  PROVE  write_raw(t, at, ty, read_raw(t, at, ty)) = t
<1>0. TuneLen \in Nat /\ t \in [1 .. TuneLen -> 0 .. 255]
  BY MsqAssumption DEF Held
<1>1. t[at] \in 0 .. 255 /\ (Size(ty) = 2 => t[at + 1] \in 0 .. 255)
  BY HeldBytes
<1>3. CASE ty = "U16"
  <2>1. Size(ty) = 2 /\ ~Signed(ty)
    BY <1>3 DEF Size, Signed
  <2> DEFINE a == t[at]
             b == t[at + 1]
             r == a + 256 * b
  <2>2. read_raw(t, at, ty) = r
    BY <2>1 DEF read_raw
  <2>3. a \in 0 .. 255 /\ b \in 0 .. 255
    BY <1>1, <2>1
  <2>4. write_raw(t, at, ty, r) = [t EXCEPT ![at] = r % 256, ![at + 1] = (r \div 256) % 256]
    BY <2>1 DEF write_raw
  <2>5. r % 256 = a /\ (r \div 256) % 256 = b
    <3> HIDE DEF a, b
    <3> QED
      BY <2>3
  <2>6. write_raw(t, at, ty, r) = [t EXCEPT ![at] = a, ![at + 1] = b]
    BY <2>4, <2>5
  <2>7. [t EXCEPT ![at] = t[at], ![at + 1] = t[at + 1]] = t
    BY <1>0
  <2> QED
    BY <2>2, <2>6, <2>7
<1>4. CASE ty # "U16"
  <2>1. Size(ty) = 1
    BY <1>4 DEF Size
  <2> DEFINE a == t[at]
             r == IF Signed(ty) /\ a > 127 THEN a - 256 ELSE a
  <2>2. read_raw(t, at, ty) = r
    BY <2>1 DEF read_raw
  <2>3. a \in 0 .. 255
    BY <1>1
  <2>4. write_raw(t, at, ty, r) = [t EXCEPT ![at] = r % 256]
    BY <2>1 DEF write_raw
  <2>5. r % 256 = a
    <3>1. r = a \/ r = a - 256
      OBVIOUS
    <3> HIDE DEF a, r
    <3> QED
      BY <2>3, <3>1
  <2>6. write_raw(t, at, ty, r) = [t EXCEPT ![at] = a]
    BY <2>4, <2>5
  <2>7. [t EXCEPT ![at] = t[at]] = t
    BY <1>0
  <2> QED
    BY <2>2, <2>6, <2>7
<1> QED
  BY <1>3, <1>4

(* A value in the range of its type is read back as it was written. *)
LEMMA ReadHit ==
  ASSUME NEW t \in Held, NEW at \in Nat \ {0}, NEW ty \in Types, at + Size(ty) - 1 <= TuneLen,
         NEW r, InRange(ty, r)
  PROVE  read_raw(write_raw(t, at, ty, r), at, ty) = r
<1>0. r \in Int
  BY DEF InRange
<1> DEFINE u == write_raw(t, at, ty, r)
           back == read_raw(u, at, ty)
           M == Pow2[8 * Size(ty)]
<1>1. PICK k \in Int : back = r + k * M
  BY <1>0, ReadBack
<1>2. u \in Held
  BY <1>0, WriteType
<1>3. InRange(ty, back) /\ back \in Int
  <2> HIDE DEF u
  <2> QED
    BY <1>2, ReadType
<1>4. M = IF ty = "U16" THEN 65536 ELSE 256
  <2>1. 8 * Size(ty) = IF ty = "U16" THEN 16 ELSE 8
    BY DEF Size
  <2> QED
    BY <2>1, Pow2Bytes
<1> HIDE DEF back, u
<1> DEFINE lo == type_range(ty)[1]
           hi == type_range(ty)[2]
<1>5. lo \in Int /\ hi \in Int /\ hi - lo = M - 1
  <2>1. CASE ty = "U16"
    BY <1>4, <2>1 DEF type_range
  <2>2. CASE ty = "S08"
    BY <1>4, <2>2 DEF type_range
  <2>3. CASE ty = "U08"
    BY <1>4, <2>3 DEF type_range
  <2> QED
    BY <2>1, <2>2, <2>3 DEF Types
<1>6. lo <= r /\ r <= hi /\ lo <= back /\ back <= hi
  BY <1>3 DEF InRange
<1>7. M \in {256, 65536}
  BY <1>4
<1> HIDE DEF lo, hi, M
<1>8. k * M \in Int /\ k * M <= M - 1 /\ k * M >= -(M - 1)
  <2>1. k * M \in Int
    BY <1>7
  <2> DEFINE p == k * M
  <2>2. back = r + p /\ p \in Int
    BY <1>1, <2>1
  <2> HIDE DEF p
  <2>3. p <= M - 1 /\ p >= -(M - 1)
    BY <1>0, <1>3, <1>5, <1>6, <1>7, <2>2
  <2> QED
    BY <2>1, <2>3 DEF p
<1>9. k = 0
  <2>1. CASE M = 256
    BY <1>8, <2>1
  <2>2. CASE M = 65536
    BY <1>8, <2>2
  <2> QED
    BY <1>7, <2>1, <2>2
<1>10. back = r
  BY <1>0, <1>1, <1>7, <1>9
<1> QED
  BY <1>10 DEF back, u

(* The bytes of a scalar or an array follow from its raw values. *)
LEMMA RawBytes ==
  ASSUME NEW c, GoodConst(c), c.class \in {"Scalar", "Array"}, NEW t \in Held, NEW u \in Held,
         Raw(c, t) = Raw(c, u)
  PROVE  \A b \in Bytes(c) : t[b] = u[b]
<1> DEFINE z == Size(c.ty)
           a == c.at
           n == c.n
<1>0. z \in {1, 2} /\ a \in Nat \ {0} /\ n \in Nat \ {0} /\ c.ty \in Types
  BY DEF GoodConst, Size
<1>1. CASE c.class = "Scalar"
  <2>1. Bytes(c) = a .. a + Size(c.ty) - 1 /\ a + Size(c.ty) - 1 <= TuneLen
    BY <1>1, Places DEF Bytes, ByteSize
  <2>2. read_raw(t, a, c.ty) = read_raw(u, a, c.ty)
    BY <1>1 DEF Raw
  <2> HIDE DEF a
  <2> QED
    BY <1>0, <2>1, <2>2, ReadBytes
<1>2. CASE c.class = "Array"
  <2>1. Bytes(c) = a .. a + n * z - 1
    BY <1>2 DEF Bytes, ByteSize
  <2>2. \A i \in 1 .. n : /\ a + (i - 1) * z \in Nat \ {0}
                          /\ a + (i - 1) * z + Size(c.ty) - 1 <= TuneLen
    BY <1>2, Places
  <2>3. \A i \in 1 .. n : read_raw(t, a + (i - 1) * z, c.ty) = read_raw(u, a + (i - 1) * z, c.ty)
    <3>1. /\ Raw(c, t) = [i \in 1 .. n |-> read_raw(t, a + (i - 1) * z, c.ty)]
          /\ Raw(c, u) = [i \in 1 .. n |-> read_raw(u, a + (i - 1) * z, c.ty)]
      BY <1>2 DEF Raw
    <3> DEFINE F(i) == read_raw(t, a + (i - 1) * z, c.ty)
               G(i) == read_raw(u, a + (i - 1) * z, c.ty)
    <3>2. [i \in 1 .. n |-> F(i)] = [i \in 1 .. n |-> G(i)]
      BY <3>1
    <3> HIDE DEF F, G, n
    <3>3. ASSUME NEW i \in 1 .. n PROVE F(i) = G(i)
      <4>1. [j \in 1 .. n |-> F(j)][i] = F(i) /\ [j \in 1 .. n |-> G(j)][i] = G(i)
        OBVIOUS
      <4> QED
        BY <3>2, <4>1
    <3> QED
      BY <3>3 DEF F, G
  <2>4. ASSUME NEW b \in Bytes(c)
        PROVE  \E i \in 1 .. n : b \in a + (i - 1) * z .. a + (i - 1) * z + z - 1
    <3> HIDE DEF z, a, n
    <3>1. b \in a .. a + n * z - 1
      BY <2>1
    <3>2. CASE z = 1
      <4> DEFINE i == b - a + 1
      <4>1. i \in 1 .. n /\ b = a + (i - 1)
        BY <1>0, <3>1, <3>2
      <4> HIDE DEF i
      <4>2. b \in a + (i - 1) * 1 .. a + (i - 1) * 1 + 1 - 1
        BY <1>0, <4>1
      <4> QED
        BY <3>2, <4>1, <4>2
    <3>3. CASE z = 2
      <4> DEFINE q == (b - a) \div 2
      <4>1. b - a \in Nat /\ b - a <= 2 * n - 1
        BY <1>0, <3>1, <3>3
      <4>2. q \in Nat /\ (b - a = 2 * q \/ b - a = 2 * q + 1)
        BY <4>1
      <4> HIDE DEF q
      <4>3. q + 1 \in 1 .. n /\ b \in a + ((q + 1) - 1) * 2 .. a + ((q + 1) - 1) * 2 + 2 - 1
        BY <1>0, <3>1, <4>1, <4>2
      <4> QED
        BY <3>3, <4>3
    <3> QED
      BY <1>0, <3>2, <3>3
  <2> HIDE DEF a, n
  <2>5. ASSUME NEW b \in Bytes(c) PROVE t[b] = u[b]
    <3>1. PICK i \in 1 .. n : b \in a + (i - 1) * z .. a + (i - 1) * z + z - 1
      BY <2>4
    <3> DEFINE o == a + (i - 1) * z
    <3>2. /\ o \in Nat \ {0} /\ o + Size(c.ty) - 1 <= TuneLen
          /\ read_raw(t, o, c.ty) = read_raw(u, o, c.ty) /\ b \in o .. o + Size(c.ty) - 1
      BY <2>2, <2>3, <3>1
    <3> HIDE DEF o
    <3> QED
      BY <1>0, <3>2, ReadBytes
  <2> QED
    BY <2>5
<1> QED
  BY <1>1, <1>2

(* Setting a bit field to what it holds changes nothing. *)
LEMMA SetBitsSame ==
  ASSUME NEW c, GoodConst(c), c.class = "Bits", NEW t \in Held
  PROVE  SetBits(c, t, Raw(c, t)[1]) = t
<1> DEFINE raw == read_raw(t, c.at, c.ty)
           f == Field(c, raw)
           W == Pow2[Width(c)]
           P == Pow2[c.lo]
<1>1. raw \in Int /\ c.at \in Nat \ {0} /\ c.at + Size(c.ty) - 1 <= TuneLen /\ c.ty \in Types
  BY Places, ReadType DEF GoodConst
<1>2. Raw(c, t)[1] = f
  BY DEF Raw
<1>3. f \in 0 .. W - 1 /\ W \in Nat \ {0} /\ P \in Nat \ {0}
  <2> HIDE DEF raw
  <2> QED
    BY <1>1, FieldBits, WidthFacts
<1>4. SetBits(c, t, f) = write_raw(t, c.at, c.ty, raw + ((f % W) - f) * P)
  BY DEF SetBits
<1>5. raw + ((f % W) - f) * P = raw
  <2> HIDE DEF raw, f, W, P
  <2>1. f % W = f
    BY <1>3
  <2>2. f - f = 0 /\ 0 * P = 0
    BY <1>3
  <2> QED
    BY <1>1, <2>1, <2>2
<1>6. write_raw(t, c.at, c.ty, raw) = t
  BY <1>1, WriteSame
<1> QED
  BY <1>2, <1>4, <1>5, <1>6


(* What holds at first and is kept by every step holds in the end. *)
LEMMA CountUp ==
  ASSUME NEW n \in Nat, NEW Q, 0 \in Q, \A k \in 1 .. n : k - 1 \in Q => k \in Q
  PROVE  \A k \in 0 .. n : k \in Q
<1> DEFINE g == [k \in 0 .. n |-> k]
<1>1. \A k \in 0 .. n : g[k] = k
  OBVIOUS
<1>2. 0 \in 0 .. n /\ g[0] = 0
  OBVIOUS
<1>3. \A k \in 0 + 1 .. n : k \in 1 .. n /\ g[k] = k /\ g[k - 1] = k - 1
  OBVIOUS
<1> HIDE DEF g
<1>4. \A k \in 0 + 1 .. n : g[k - 1] \in Q => g[k] \in Q
  BY <1>3
<1>5. \A k \in 0 .. n : g[k] \in Q
  BY <1>2, <1>4, RunType
<1> QED
  BY <1>1, <1>5

(* The bytes of an element of an array. *)
ElementBytes(c, i) == ElementAt(c, i) .. ElementAt(c, i) + Size(c.ty) - 1

(* The elements of an array lie in its bytes, side by side. *)
LEMMA Elements ==
  ASSUME NEW c, GoodConst(c), c.class = "Array", NEW i \in 1 .. c.n
  PROVE  /\ ElementAt(c, i) \in Nat \ {0} /\ ElementAt(c, i) + Size(c.ty) - 1 <= TuneLen
         /\ ElementBytes(c, i) \subseteq Bytes(c) /\ ElementBytes(c, i) \subseteq 1 .. TuneLen
         /\ \A j \in 1 .. c.n : i # j => ElementBytes(c, j) \cap ElementBytes(c, i) = {}
<1> DEFINE z == Size(c.ty)
           a == c.at
           n == c.n
           o(k) == ElementAt(c, k)
           B(k) == ElementBytes(c, k)
           A == Bytes(c)
           m == n * z
<1>0. /\ z \in {1, 2} /\ a \in Nat \ {0} /\ n \in Nat \ {0} /\ i \in 1 .. n
      /\ TuneLen \in Nat /\ a + m - 1 <= TuneLen
  BY MsqAssumption DEF GoodConst, Size, ByteSize
<1>1. A = a .. a + m - 1
  BY DEF Bytes, ByteSize
<1>2. \A k : o(k) = a + (k - 1) * z /\ B(k) = o(k) .. o(k) + z - 1
  BY DEF ElementAt, ElementBytes
<1>5. m \in Int /\ (z = 1 => m = n) /\ (z = 2 => m = 2 * n)
  <2> HIDE DEF z, n
  <2> QED
    BY <1>0
<1> HIDE DEF z, a, n, o, B, A, m
<1>3. CASE z = 1
  <2>1. \A k \in Int : o(k) = a + k - 1 /\ B(k) = o(k) .. o(k)
    BY <1>0, <1>2, <1>3
  <2>2. m = n
    BY <1>3, <1>5
  <2>3. \A k \in 1 .. n : o(k) \in Nat \ {0} /\ B(k) = {o(k)} /\ o(k) = a + k - 1
    BY <1>0, <2>1
  <2>4. o(i) \in A /\ o(i) \in 1 .. TuneLen
    BY <1>0, <1>1, <2>2, <2>3
  <2>5. \A j \in 1 .. n : i # j => o(i) # o(j)
    BY <1>0, <2>3
  <2>6. o(i) + z - 1 <= TuneLen
    BY <1>0, <1>3, <2>3, <2>4
  <2> QED
    BY <1>0, <2>3, <2>4, <2>5, <2>6 DEF o, B, A, n, z
<1>4. CASE z = 2
  <2>1. \A k \in Int : o(k) = a + 2 * k - 2 /\ B(k) = o(k) .. o(k) + 1
    BY <1>0, <1>2, <1>4
  <2>2. m = 2 * n
    BY <1>4, <1>5
  <2>3. \A k \in 1 .. n : /\ o(k) \in Nat \ {0} /\ B(k) = {o(k), o(k) + 1} /\ o(k) = a + 2 * k - 2
                          /\ k \in Int
    <3>1. \A p \in Int : p .. p + 1 = {p, p + 1}
      OBVIOUS
    <3>2. ASSUME NEW k \in 1 .. n
          PROVE  o(k) \in Nat \ {0} /\ B(k) = {o(k), o(k) + 1} /\ o(k) = a + 2 * k - 2 /\ k \in Int
      <4> DEFINE p == o(k)
      <4>1. k \in Int /\ k >= 1
        BY <1>0
      <4>2. p = a + 2 * k - 2 /\ B(k) = p .. p + 1
        BY <2>1, <4>1
      <4> HIDE DEF p
      <4>3. p \in Int /\ p >= 1
        BY <1>0, <4>1, <4>2
      <4> QED
        BY <3>1, <4>1, <4>2, <4>3 DEF p
    <3> QED
      BY <3>2
  <2>4. \A b \in {o(i), o(i) + 1} : b \in A /\ b \in 1 .. TuneLen
    BY <1>0, <1>1, <2>2, <2>3
  <2>5. ASSUME NEW j \in 1 .. n, i # j
        PROVE  o(i) # o(j) /\ o(i) + 1 # o(j) /\ o(i) # o(j) + 1 /\ o(i) + 1 # o(j) + 1
    BY <1>0, <2>3, <2>5
  <2>6. o(i) + z - 1 <= TuneLen
    BY <1>0, <1>4, <2>3, <2>4
  <2>7. \A j \in 1 .. n : i # j => B(j) \cap B(i) = {}
    BY <1>0, <2>3, <2>5
  <2> QED
    BY <1>0, <2>3, <2>4, <2>6, <2>7 DEF o, B, A, n, z
<1> QED
  BY <1>0, <1>3, <1>4

(* An array of a file writes bytes of its own. *)
LEMMA ArrayFrame ==
  ASSUME KnownScales, NEW x \in Names, Const(x).class = "Array", NEW t \in Held,
         NEW vs \in Seq(Int), Len(vs) = Const(x).n, NEW g, ArrayRun(g, x, t, vs),
         NEW k \in 0 .. Const(x).n
  PROVE  \A b \in 1 .. TuneLen : b \notin Bytes(Const(x)) => g[k][b] = t[b]
<1> DEFINE c == Const(x)
           n == c.n
           Q == {i \in 0 .. n : \A b \in 1 .. TuneLen : b \notin Bytes(c) => g[i][b] = t[b]}
<1>0. n \in Nat /\ GoodConst(c) /\ c.ty \in Types
  BY ConstIs DEF GoodConst
<1>1. 0 \in Q
  BY <1>0 DEF ArrayRun
<1>2. ASSUME NEW i \in 1 .. n, i - 1 \in Q PROVE i \in Q
  <2> DEFINE o == ElementAt(c, i)
             y == g[i - 1]
             w == Encoded(c, y, vs[i])
  <2>1. o \in Nat \ {0} /\ o .. o + Size(c.ty) - 1 \subseteq Bytes(c)
    BY <1>0, Elements DEF ElementBytes
  <2>2. i - 1 \in 0 .. n /\ i \in 0 .. n
    BY <1>0
  <2>3. y \in Held /\ vs[i] \in Int
    BY <2>2, ElementOfSeq DEF ArrayRun
  <2>5. g[i] = FileSetsAt(c, y, i, vs[i])
    BY DEF ArrayRun
  <2>7. \A b \in 1 .. TuneLen : b \notin Bytes(c) => y[b] = t[b]
    BY <1>2
  <2> HIDE DEF y
  <2>4. HasScale(c, y) => w \in Int /\ g[i] = write_raw(y, o, c.ty, w)
    <3> DEFINE v == vs[i]
    <3>1. v \in Int /\ g[i] = FileSetsAt(c, y, i, v)
      BY <2>3, <2>5
    <3> HIDE DEF v
    <3>2. HasScale(c, y) => FileSetsAt(c, y, i, v) = write_raw(y, ElementAt(c, i), c.ty, Encoded(c, y, v))
      BY FileSetsIs
    <3>3. HasScale(c, y) => Encoded(c, y, v) \in Int
      BY <2>3, <3>1, FileSetsIs
    <3> QED
      BY <3>1, <3>2, <3>3 DEF v
  <2>8. ~HasScale(c, y) => g[i] = y
    BY <2>5, FileSetsIs
  <2> HIDE DEF w, o
  <2>6. ASSUME NEW b \in 1 .. TuneLen, b \notin Bytes(c) PROVE g[i][b] = t[b]
    <3>1. b \notin o .. o + Size(c.ty) - 1
      BY <2>1, <2>6
    <3>2. HasScale(c, y) => write_raw(y, o, c.ty, w)[b] = y[b]
      BY <2>1, <2>3, <2>4, <3>1, WriteFrame
    <3> QED
      BY <2>4, <2>6, <2>7, <2>8, <3>2
  <2> QED
    BY <2>2, <2>6
<1> HIDE DEF Q
<1>3. \A i \in 0 .. n : i \in Q
  <2> HIDE DEF n
  <2> QED
    BY <1>0, <1>1, <1>2, CountUp
<1>4. k \in Q
  BY <1>3
<1> QED
  BY <1>4 DEF Q

(* An array of a saved file is restored, if its scale is that of the saved   *)
(* tune while it is written.                                                 *)
LEMMA ArrayHit ==
  ASSUME FineScales, NEW x \in Names, Const(x).class = "Array", NEW t \in Held, NEW s \in Held,
         HasScale(Const(x), s), NEW vs \in Seq(Int), Len(vs) = Const(x).n,
         \A i \in 1 .. Const(x).n :
           vs[i] = Written(Const(x), Raw(Const(x), s)[i], Scale(Const(x), s)),
         \A u \in Held : (\A b \in 1 .. TuneLen : b \notin Bytes(Const(x)) => u[b] = t[b])
                           => Scale(Const(x), u) = Scale(Const(x), s)
  PROVE  Raw(Const(x), ApplyArray(Const(x), t, vs, FALSE)) = Raw(Const(x), s)
<1> DEFINE c == Const(x)
           n == c.n
           R == Raw(c, s)
           S == Scale(c, s)
           o(i) == ElementAt(c, i)
<1>p. KnownScales
  BY FineKnown
<1>0. n \in Nat /\ GoodConst(c) /\ c.ty \in Types /\ c.class = "Array"
  BY ConstIs DEF GoodConst
<1>1. PICK g : ArrayRun(g, x, t, vs) /\ g[n] = ApplyArray(c, t, vs, FALSE)
  BY <1>p, ArrayRuns
<1>r. R \in [1 .. n -> Int] /\ \A i \in 1 .. n : InRange(c.ty, R[i])
  BY RawFacts
<1>s. S \in Nat /\ S >= 3
  BY ScaleType
<1>2. ASSUME NEW i \in 1 .. n
      PROVE  /\ g[i - 1] \in Held /\ g[i] = write_raw(g[i - 1], o(i), c.ty, R[i])
  <2> DEFINE y == g[i - 1]
             w == vs[i]
             r == R[i]
  <2>1. i - 1 \in 0 .. n
    BY <1>0
  <2>2. \A b \in 1 .. TuneLen : b \notin Bytes(Const(x)) => g[i - 1][b] = t[b]
    BY <1>p, <1>1, <2>1, ArrayFrame
  <2>8. y \in Held /\ g[i] = FileSetsAt(c, y, i, w)
    BY <1>1, <2>1 DEF ArrayRun
  <2>4. Scale(c, y) = S /\ HasScale(c, y)
    BY <2>2, <2>8 DEF HasScale
  <2>3. y \in Held /\ g[i] = write_raw(y, o(i), c.ty, Encoded(c, y, w))
    BY <2>4, <2>8, FileSetsIs
  <2>5. w = Written(c, r, S) /\ InRange(c.ty, r)
    BY <1>r
  <2> HIDE DEF y, w, r, S
  <2>6. Encodes(x, y, S, r)
    BY <1>s, <2>4, <2>5 DEF Encodes
  <2>7. Encoded(c, y, w) = r
    BY <2>5, <2>6, EncodeBack
  <2> QED
    BY <2>3, <2>7 DEF y, r
<1> DEFINE Q == {k \in 0 .. n : \A i \in 1 .. k : read_raw(g[k], o(i), c.ty) = R[i]}
<1>3. 0 \in Q
  BY <1>0
<1>4. ASSUME NEW k \in 1 .. n, k - 1 \in Q PROVE k \in Q
  <2> DEFINE q == o(k)
             y == g[k - 1]
             r == R[k]
  <2>1. k \in 0 .. n /\ k - 1 \in 0 .. n
    BY <1>0
  <2>2. /\ q \in Nat \ {0} /\ q + Size(c.ty) - 1 <= TuneLen
    BY <1>0, Elements
  <2>3. y \in Held /\ g[k] = write_raw(y, q, c.ty, r) /\ InRange(c.ty, r) /\ r \in Int
    BY <1>2, <1>r
  <2>4. ASSUME NEW i \in 1 .. k PROVE read_raw(g[k], o(i), c.ty) = R[i]
    <3>1. i \in 1 .. n
      BY <1>0
    <3>4. CASE i = k
      <4> HIDE DEF q, y, r, o, R
      <4>1. read_raw(write_raw(y, q, c.ty, r), q, c.ty) = r
        BY <1>0, <2>2, <2>3, ReadHit
      <4> QED
        BY <2>3, <3>4, <4>1 DEF q, r
    <3>5. CASE i # k
      <4> DEFINE p == o(i)
      <4>1. i \in 1 .. k - 1
        BY <1>0, <3>5
      <4>2. read_raw(y, p, c.ty) = R[i]
        BY <1>4, <4>1
      <4>3. /\ p \in Nat /\ q \in Nat /\ p .. p + Size(c.ty) - 1 \subseteq 1 .. TuneLen
        BY <1>0, <2>2, <3>1, Elements DEF ElementBytes
      <4>4. ElementBytes(c, i) \cap ElementBytes(c, k) = {}
        BY <1>0, <3>1, <3>5, Elements
      <4>5. \A b \in p .. p + Size(c.ty) - 1 : b \notin q .. q + Size(c.ty) - 1
        BY <4>4 DEF ElementBytes
      <4> HIDE DEF p, q, o, R, y, r
      <4>6. \A b \in p .. p + Size(c.ty) - 1 : g[k][b] = y[b]
        <5> DEFINE ty == c.ty
                   u == write_raw(y, q, ty, r)
        <5>1. \A b \in 1 .. TuneLen : b \notin q .. q + Size(ty) - 1 => u[b] = y[b]
          <6> HIDE DEF ty
          <6> QED
            BY <2>3, <4>3, WriteFrame
        <5> HIDE DEF u
        <5> QED
          BY <2>3, <4>3, <4>5, <5>1 DEF u
      <4>7. read_raw(g[k], p, c.ty) = read_raw(y, p, c.ty)
        <5> DEFINE ty == c.ty
                   u == g[k]
        <5>1. ty \in Types /\ \A b \in p .. p + Size(ty) - 1 : u[b] = y[b]
          BY <1>0, <4>6
        <5> HIDE DEF ty, u
        <5>2. read_raw(u, p, ty) = read_raw(y, p, ty)
          BY <4>3, <5>1, ReadFrame
        <5> QED
          BY <5>2 DEF ty, u
      <4> QED
        BY <4>2, <4>7 DEF p
    <3> QED
      BY <3>4, <3>5
  <2> QED
    BY <2>1, <2>4
<1> HIDE DEF Q
<1>5. n \in Q
  <2>1. \A k \in 0 .. n : k \in Q
    <3> HIDE DEF n
    <3> QED
      BY <1>0, <1>3, <1>4, CountUp
  <2> QED
    BY <1>0, <2>1
<1>6. \A i \in 1 .. n : read_raw(g[n], o(i), c.ty) = R[i]
  BY <1>5 DEF Q
<1>7. Raw(c, g[n]) = [i \in 1 .. n |-> read_raw(g[n], o(i), c.ty)]
  BY DEF Raw, ElementAt
<1>8. Raw(c, g[n]) = R
  <2>1. R = [i \in 1 .. n |-> R[i]]
    BY <1>r
  <2> HIDE DEF c, n, R, o
  <2> QED
    BY <1>6, <1>7, <2>1
<1> QED
  BY <1>1, <1>8


(* The raw value of a bit field fits its width. *)
LEMMA BitsRange ==
  ASSUME NEW c, GoodConst(c), c.class = "Bits", NEW t \in Held
  PROVE  /\ read_raw(t, c.at, c.ty) \in Int
         /\ Raw(c, t) = <<Field(c, read_raw(t, c.at, c.ty))>>
         /\ Raw(c, t)[1] \in 0 .. Pow2[Width(c)] - 1
<1> DEFINE raw == read_raw(t, c.at, c.ty)
<1>1. raw \in Int
  BY Places, ReadType DEF GoodConst
<1>2. Raw(c, t) = <<Field(c, raw)>>
  BY DEF Raw
<1> HIDE DEF raw
<1>3. Field(c, raw) \in 0 .. Pow2[Width(c)] - 1
  BY <1>1, FieldBits
<1> QED
  BY <1>1, <1>2, <1>3 DEF raw

(* A saved bit field is set to the slot of its label. *)
LEMMA ApplyBits ==
  ASSUME FineScales, NEW x \in Names, NEW s \in Held, NEW t \in Held, Const(x).class = "Bits"
  PROVE  LET v == Slot(Const(x), Raw(Const(x), s)[1])
         IN /\ v \in 0 .. Pow2[Width(Const(x))] - 1
            /\ ApplyOne(t, <<x, Saved(Const(x), s)>>) = SetBits(Const(x), t, v)
<1> DEFINE c == Const(x)
           k == Raw(c, s)[1]
           v == Slot(c, k)
           e == <<x, Saved(c, s)>>
<1>0. GoodConst(c) /\ c.labels \in Seq(STRING)
  BY ConstIs DEF GoodConst
<1>1. k \in 0 .. Pow2[Width(c)] - 1 /\ Pow2[Width(c)] \in Nat \ {0}
  BY <1>0, BitsRange, WidthFacts
<1>2. file_bits_index(c, Saved(c, s)) = v
  BY SavedSlot
<1>3. v \in 0 .. Pow2[Width(c)] - 1 /\ v \in Nat
  <2> DEFINE W == Pow2[Width(c)]
  <2> HIDE DEF k, W
  <2>1. k \in Nat
    BY <1>1 DEF W
  <2>2. v \in 0 .. k
    BY <1>0, <2>1, SlotFacts
  <2> HIDE DEF v
  <2> QED
    BY <1>1, <2>1, <2>2 DEF W
<1> HIDE DEF v
<1>4. v # NotFound
  BY <1>3, MsqAssumption
<1>5. Fits(c, Saved(c, s))
  BY <1>2, <1>4 DEF Fits
<1>6. ApplyOne(t, e) = set_constant_impl(c, t, v * One, FALSE)
  <2>1. e[1] = x /\ e[2] = Saved(c, s)
    OBVIOUS
  <2> HIDE DEF e
  <2> QED
    BY <1>2, <1>5, <2>1 DEF ApplyOne
<1>7. RoundDiv(v * One, One) = v
  <2>1. One \in Nat /\ One >= 3 /\ 0 \in {-1, 0, 1} /\ v \in Int
    BY <1>3 DEF One
  <2>2. RoundDiv(v * One + 0, One) = v
    BY <2>1, RoundDivNear
  <2>3. v * One + 0 = v * One
    BY <1>3, OneFact
  <2> QED
    BY <2>2, <2>3
<1>8. AtLeast(v, 0) = v
  BY <1>3 DEF AtLeast
<1>9. set_constant_impl(c, t, v * One, FALSE) = SetBits(c, t, v)
  BY <1>7, <1>8 DEF set_constant_impl
<1> QED
  BY <1>3, <1>6, <1>9 DEF v


(* A saved scalar is written with the scale that the tune has by then. *)
LEMMA ApplyScalar ==
  ASSUME FineScales, NEW x \in Names, NEW s \in Held, NEW t \in Held, Const(x).class = "Scalar",
         Resolves(Const(x), s)
  PROVE  LET c == Const(x)
             w == Encoded(c, t, Written(c, Raw(c, s)[1], Scale(c, s)))
             u == ApplyOne(t, <<x, Saved(c, s)>>)
         IN /\ HasScale(c, t) => w \in Int /\ u = write_raw(t, c.at, c.ty, w)
            /\ ~HasScale(c, t) => u = t
            /\ HasScale(c, s) /\ Scale(c, t) = Scale(c, s) => w = Raw(c, s)[1]
<1> DEFINE c == Const(x)
           S == Scale(c, s)
           r == Raw(c, s)[1]
           v == Written(c, r, S)
           e == <<x, Saved(c, s)>>
           w == Encoded(c, t, v)
<1>0. c.tr \in Int /\ c.ty \in Types
  BY ConstIs DEF GoodConst
<1>1. S \in Nat /\ InRange(c.ty, r) /\ (HasScale(c, s) => S >= 3)
  BY FineKnown, ScaleNumber, ScaleType, RawFacts DEF Resolves
<1>2. Saved(c, s) = Num(v)
  BY FineKnown, SavedFacts
<1>3. v \in Int
  <2> HIDE DEF S, r
  <2> QED
    BY <1>0, <1>1, WrittenType
<1>4. HasScale(c, t) => w \in Int
  <2> HIDE DEF v
  <2> QED
    BY <1>3, FineKnown, FileSetsIs
<1>5. ApplyOne(t, e) = IF HasScale(c, t) THEN write_raw(t, c.at, c.ty, w) ELSE t
  <2> HIDE DEF v
  <2>1. e[1] = x /\ e[2] = Num(v)
    BY <1>2
  <2>2. Fits(c, Num(v)) /\ Num(v).v = v
    BY DEF Fits, Num
  <2> HIDE DEF e
  <2>3. ApplyOne(t, e) = set_constant_impl(c, t, v, FALSE)
    BY <2>1, <2>2 DEF ApplyOne
  <2> QED
    BY <2>3 DEF set_constant_impl, Encoded
<1>6. ASSUME HasScale(c, s), Scale(c, t) = S PROVE w = r
  <2> HIDE DEF S, r
  <2>1. Encodes(x, t, S, r)
    BY <1>1, <1>6 DEF Encodes
  <2>2. Encoded(c, t, Written(c, r, S)) = r
    BY <2>1, EncodeBack
  <2> QED
    BY <2>2
<1> HIDE DEF w, S, r, e
<1> QED
  BY <1>4, <1>5, <1>6 DEF w, v, S, r, e

(* A saved array of several elements is applied element by element. *)
LEMMA ApplyElements ==
  ASSUME FineScales, NEW x \in Names, NEW s \in Held, NEW t \in Held, Const(x).class = "Array",
         Const(x).n > 1, Resolves(Const(x), s)
  PROVE  \E vs \in Seq(Int) :
           /\ Len(vs) = Const(x).n
           /\ \A i \in 1 .. Const(x).n :
                vs[i] = Written(Const(x), Raw(Const(x), s)[i], Scale(Const(x), s))
           /\ ApplyOne(t, <<x, Saved(Const(x), s)>>) = ApplyArray(Const(x), t, vs, FALSE)
<1> DEFINE c == Const(x)
           n == c.n
           S == Scale(c, s)
           R == Raw(c, s)
           vs == [i \in 1 .. n |-> Written(c, R[i], S)]
           e == <<x, Saved(c, s)>>
<1>0. n \in Nat /\ n # 1 /\ c.tr \in Int /\ c.ty \in Types
  BY ConstIs DEF GoodConst
<1>1. S \in Nat /\ \A i \in 1 .. n : InRange(c.ty, R[i])
  BY FineKnown, ScaleNumber, RawFacts DEF Resolves
<1>2. Saved(c, s) = parse_body(vs)
  BY FineKnown, SavedFacts
<1>3. ASSUME NEW i \in 1 .. n PROVE Written(c, R[i], S) \in Int
  <2> DEFINE r == R[i]
  <2>1. InRange(c.ty, r)
    BY <1>1
  <2> HIDE DEF r, S
  <2>2. Written(c, r, S) \in Int
    BY <1>0, <1>1, <2>1, WrittenType
  <2> QED
    BY <2>2 DEF r
<1>4. vs \in Seq(Int) /\ Len(vs) = n
  <2>1. vs \in [1 .. n -> Int]
    BY <1>3
  <2> HIDE DEF vs, n
  <2> QED
    BY <1>0, <2>1, FunIsSeq
<1>5. \A i \in 1 .. n : vs[i] = Written(c, R[i], S)
  OBVIOUS
<1> HIDE DEF vs
<1>6. ApplyOne(t, e) = ApplyArray(c, t, vs, FALSE)
  <2>1. e[1] = x /\ e[2] = Arr(vs)
    BY <1>0, <1>2, <1>4 DEF parse_body
  <2>2. Fits(c, Arr(vs)) /\ Arr(vs).vs = vs
    BY <1>4 DEF Fits, Arr
  <2> HIDE DEF e
  <2> QED
    BY <2>1, <2>2 DEF ApplyOne
<1> QED
  BY <1>4, <1>5, <1>6

(* An array of one element is read back as a number, and not applied. *)
LEMMA ApplySingle ==
  ASSUME FineScales, NEW x \in Names, NEW s \in Held, NEW t, Const(x).class = "Array",
         Const(x).n = 1, Resolves(Const(x), s)
  PROVE  ApplyOne(t, <<x, Saved(Const(x), s)>>) = t
<1> DEFINE c == Const(x)
           vs == [i \in 1 .. c.n |-> Written(c, Raw(c, s)[i], Scale(c, s))]
           e == <<x, Saved(c, s)>>
<1>1. Saved(c, s) = parse_body(vs)
  BY FineKnown, SavedFacts
<1>2. Len(vs) = 1
  OBVIOUS
<1>3. e[1] = x /\ e[2] = Saved(c, s)
  OBVIOUS
<1> HIDE DEF vs, e
<1>4. e[2].kind = "num"
  <2>1. parse_body(vs) = Num(vs[1])
    BY <1>2 DEF parse_body
  <2>2. Num(vs[1]).kind = "num"
    BY DEF Num
  <2> QED
    BY <1>1, <1>3, <2>1, <2>2
<1>5. ~Fits(c, e[2])
  BY <1>4 DEF Fits
<1>6. ApplyOne(t, e) = t
  BY <1>3, <1>5 DEF ApplyOne
<1> QED
  BY <1>6 DEF e

(* A saved string is not applied. *)
LEMMA ApplyString ==
  ASSUME NEW x \in Names, NEW s, NEW t, Const(x).class = "String"
  PROVE  ApplyOne(t, <<x, Saved(Const(x), s)>>) = t
<1> DEFINE e == <<x, Saved(Const(x), s)>>
<1>1. e[1] = x
  OBVIOUS
<1> HIDE DEF e
<1>2. ~Fits(Const(x), e[2])
  BY DEF Fits
<1>3. ApplyOne(t, e) = t
  BY <1>1, <1>2 DEF ApplyOne
<1> QED
  BY <1>3 DEF e

(* A saved constant is applied to bytes of its own. *)
LEMMA ApplyFrame ==
  ASSUME FineScales, NEW x \in Names, NEW s \in Held, NEW t \in Held, Resolves(Const(x), s)
  PROVE  /\ ApplyOne(t, <<x, Saved(Const(x), s)>>) \in Held
         /\ \A b \in 1 .. TuneLen : b \notin Bytes(Const(x)) =>
              ApplyOne(t, <<x, Saved(Const(x), s)>>)[b] = t[b]
<1> DEFINE c == Const(x)
           e == <<x, Saved(c, s)>>
           u == ApplyOne(t, e)
           Frame == \A b \in 1 .. TuneLen : b \notin Bytes(c) => u[b] = t[b]
<1>0. GoodConst(c) /\ c.class \in Classes /\ c.at \in Nat /\ KnownScales
  BY ConstIs, FineKnown DEF GoodConst
<1>1. u \in Held
  <2>1. IsValue(e[2])
    BY <1>0, SavedFacts
  <2> HIDE DEF e
  <2> QED
    BY <1>0, <2>1, ApplyOneType
<1>2. ASSUME NEW w \in Int, c.class \in {"Scalar", "Bits"}, NEW b \in 1 .. TuneLen, b \notin Bytes(c)
      PROVE  write_raw(t, c.at, c.ty, w)[b] = t[b]
  <2>1. Bytes(c) = c.at .. c.at + Size(c.ty) - 1
    BY <1>2 DEF Bytes, ByteSize
  <2> DEFINE a == c.at
             ty == c.ty
  <2>2. a \in Nat /\ b \notin a .. a + Size(ty) - 1
    BY <1>0, <1>2, <2>1
  <2> HIDE DEF a, ty
  <2>3. write_raw(t, a, ty, w)[b] = t[b]
    BY <2>2, WriteFrame
  <2> QED
    BY <2>3 DEF a, ty
<1>3. ASSUME c.class = "Scalar" PROVE Frame
  <2>1. CASE ~HasScale(c, t)
    BY <1>3, <2>1, ApplyScalar
  <2>2. CASE HasScale(c, t)
    <3>1. PICK w \in Int : u = write_raw(t, c.at, c.ty, w)
      BY <1>3, <2>2, ApplyScalar
    <3>2. \A b \in 1 .. TuneLen : b \notin Bytes(c) => write_raw(t, c.at, c.ty, w)[b] = t[b]
      BY <1>2, <1>3
    <3> HIDE DEF u
    <3> QED
      BY <3>1, <3>2
  <2> QED
    BY <2>1, <2>2
<1>4. ASSUME c.class = "Bits" PROVE Frame
  <2> DEFINE v == Slot(c, Raw(c, s)[1])
             raw == read_raw(t, c.at, c.ty)
             W == Pow2[Width(c)]
             f == Field(c, raw)
             P == Pow2[c.lo]
             w == raw + ((v % W) - f) * P
  <2>1. v \in 0 .. W - 1 /\ u = SetBits(c, t, v)
    BY <1>4, ApplyBits
  <2>2. raw \in Int /\ W \in Nat \ {0} /\ P \in Nat \ {0}
    BY <1>0, <1>4, BitsRange, WidthFacts
  <2>3. f \in Nat
    <3> HIDE DEF raw
    <3> QED
      BY <1>0, <2>2, FieldType
  <2>4. w \in Int
    <3> HIDE DEF v, raw, W, f, P
    <3>1. v % W \in Int
      BY <2>1, <2>2
    <3> QED
      BY <2>2, <2>3, <3>1
  <2>5. u = write_raw(t, c.at, c.ty, w)
    BY <2>1 DEF SetBits
  <2> HIDE DEF w
  <2>6. \A b \in 1 .. TuneLen : b \notin Bytes(c) => write_raw(t, c.at, c.ty, w)[b] = t[b]
    BY <1>2, <1>4, <2>4
  <2> HIDE DEF u
  <2> QED
    BY <2>5, <2>6
<1>5. ASSUME c.class = "Array" PROVE Frame
  <2>1. CASE c.n = 1
    BY <1>5, <2>1, ApplySingle
  <2>2. CASE c.n # 1
    <3>1. c.n > 1
      BY <1>0, <2>2 DEF GoodConst
    <3>2. PICK vs \in Seq(Int) : Len(vs) = c.n /\ u = ApplyArray(c, t, vs, FALSE)
      BY <1>5, <3>1, ApplyElements
    <3>3. PICK g : ArrayRun(g, x, t, vs) /\ g[c.n] = ApplyArray(c, t, vs, FALSE)
      BY <1>0, <3>2, ArrayRuns
    <3> DEFINE k == c.n
    <3>4. k \in 0 .. Const(x).n /\ Len(vs) = Const(x).n
      BY <1>0, <3>2 DEF GoodConst
    <3>6. u = g[k]
      BY <3>2, <3>3
    <3> HIDE DEF k, u
    <3>5. \A b \in 1 .. TuneLen : b \notin Bytes(Const(x)) => g[k][b] = t[b]
      BY <1>0, <1>5, <3>3, <3>4, ArrayFrame
    <3> QED
      BY <3>5, <3>6
  <2> QED
    BY <2>1, <2>2
<1>6. ASSUME c.class = "String" PROVE Frame
  BY <1>6, ApplyString
<1> QED
  <2>1. Frame
    <3> HIDE DEF Frame
    <3> QED
      BY <1>0, <1>3, <1>4, <1>5, <1>6 DEF Classes
  <2> QED
    BY <1>1, <2>1


(* Owners have bytes of their own, bit fields aside. *)
LEMMA OwnersApart ==
  ASSUME NEW i \in Owners, NEW j \in Owners, i # j, Def[i].class # "Bits", Def[j].class # "Bits"
  PROVE  Bytes(Def[i]) \cap Bytes(Def[j]) = {}
<1> DEFINE N == Len(Def)
           Clear(x) == \A k, l \in x :
             k # l /\ Def[k].class # "Bits" /\ Def[l].class # "Bits" => ~Overlaps(Def[k], Def[l])
           S == {x \in SUBSET (1 .. N) : Clear(x)}
<1>0. N \in Nat /\ DOMAIN Def = 1 .. N
  BY DefGood
<1>1. PICK g : /\ g[0] = {} /\ g[N] = Owners
               /\ \A k \in 1 .. N :
                    g[k] = IF Skip(g[k - 1], k) THEN g[k - 1] ELSE g[k - 1] \cup {k}
  BY OwnersRun
<1>2. g[0] \in S
  BY <1>1
<1>3. ASSUME NEW k \in 1 .. N, g[k - 1] \in S PROVE g[k] \in S
  <2> DEFINE x == g[k - 1]
  <2>1. x \in SUBSET (1 .. N) /\ Clear(x)
    BY <1>3
  <2>2. CASE Skip(x, k)
    BY <1>1, <1>3, <2>2
  <2>3. CASE ~Skip(x, k)
    <3>1. g[k] = x \cup {k}
      BY <1>1, <2>3
    <3> HIDE DEF x
    <3>2. \A c, d : Overlaps(c, d) => Overlaps(d, c)
      BY DEF Overlaps
    <3>3. Def[k].class # "Bits" =>
            \A l \in x : Def[l].class # "Bits" => ~Overlaps(Def[l], Def[k])
      BY <2>3 DEF Skip
    <3>4. Clear(x \cup {k})
      BY <2>1, <3>2, <3>3
    <3> QED
      BY <2>1, <3>1, <3>4
  <2> QED
    BY <2>2, <2>3
<1>4. 0 \in 0 .. N /\ N \in 0 .. N /\ 0 + 1 .. N = 1 .. N
  BY <1>0
<1> HIDE DEF N, S
<1>9. \A k \in 0 + 1 .. N : g[k - 1] \in S => g[k] \in S
  BY <1>3, <1>4
<1>5. \A k \in 0 .. N : g[k] \in S
  BY <1>0, <1>2, <1>4, <1>9, RunType
<1>6. Owners \in S
  BY <1>1, <1>4, <1>5
<1>7. ~Overlaps(Def[i], Def[j])
  BY <1>6 DEF S
<1>8. i \in DOMAIN Def /\ j \in DOMAIN Def
  BY OwnersFacts
<1> QED
  BY <1>7, <1>8, TuneValuesAssumption DEF Overlaps

(* Constants lie in the tune. *)
LEMMA BytesIn ==
  ASSUME NEW c, GoodConst(c)
  PROVE  Bytes(c) \subseteq 1 .. TuneLen
<1> DEFINE a == c.at
           m == ByteSize(c)
<1>1. TuneLen \in Nat /\ a \in Nat \ {0} /\ m \in Int /\ a + m - 1 <= TuneLen
  BY MsqAssumption DEF GoodConst, ByteSize, Size
<1>2. Bytes(c) = a .. a + m - 1
  BY DEF Bytes
<1> HIDE DEF a, m
<1> QED
  BY <1>1, <1>2

(* No two slots of the list bear one label. *)
LabelsOnce(c) == \A k \in Nat : Slot(c, k) = k
(* A bit field that shares bits with a constant agrees with it on them:      *)
(* both are fields of one word, or the constant is written over the field    *)
(* with a scale of its own.                                                  *)
SharesWell(c, d) ==
  \/ Apart(c, d)
  \/ LabelsOnce(c) /\ d.class = "Bits" /\ LabelsOnce(d) /\ d.at = c.at /\ d.ty = c.ty
  \/ LabelsOnce(c) /\ d.class \in {"Scalar", "Array"} /\ d.scale # 0 /\ Bytes(c) \subseteq Bytes(d)
(* Constants that are saved agree on the bits they share. *)
WellLaid ==
  \A i \in BitFields : \A j \in Owners :
    i # j /\ Def[j].class # "String" => SharesWell(Def[i], Def[j])

(* An entry of a saved file, applied. *)
Applied(t, s, i) == ApplyOne(t, EntryOf(s, i))

(* What can be restored was saved. *)
LEMMA RestorableSaved ==
  ASSUME NEW s, NEW i \in Owners, Restorable(Def[i], s)
  PROVE  i \in SavedOf(s) /\ Resolves(Def[i], s) /\ Def[i].class # "String"
BY DEF Restorable, SavedOf, Resolves, HasScale, NoScale

(* Applied, a constant of the file is what it was. *)
LEMMA ApplyHit ==
  ASSUME FineScales, WellLaid, NEW s \in Held, NEW t \in Held, NEW i \in Owners,
         Restorable(Def[i], s), Def[i].class = "Bits" \/ Def[i].scale # 0 \/ Settled(t, s)
  PROVE  Same(Def[i], Applied(t, s, i), s)
<1> DEFINE x == Def[i].name
           c == Const(x)
           u == Applied(t, s, i)
<1>0. x \in Names /\ c = Def[i] /\ GoodConst(c) /\ c.class \in {"Scalar", "Bits", "Array"}
      /\ i \in DOMAIN Def
  <2>1. i \in DOMAIN Def
    BY OwnersFacts
  <2>2. Def[i].class \in {"Scalar", "Bits", "Array"}
    BY DEF Restorable
  <2> QED
    BY <2>1, <2>2, ConstIs
<1>u. u = ApplyOne(t, <<x, Saved(c, s)>>) /\ Def[i] = c
  BY <1>0 DEF Applied, EntryOf
<1>r. Restorable(c, s) /\ Resolves(c, s)
  BY <1>0, RestorableSaved
<1> HIDE DEF x
<1> SUFFICES Same(c, u, s)
  BY <1>u
<1>1. CASE c.class = "Bits"
  <2> DEFINE v == Slot(c, Raw(c, s)[1])
             raw == read_raw(t, c.at, c.ty)
             W == Pow2[Width(c)]
  <2>1. v \in 0 .. W - 1 /\ u = SetBits(c, t, v)
    BY <1>0, <1>1, <1>u, ApplyBits
  <2>2. W \in Nat \ {0}
    BY <1>0, WidthFacts
  <2>3. v % W = v /\ v \in Int
    <3> HIDE DEF v, W
    <3> QED
      BY <2>1, <2>2
  <2>4. raw \in Int /\ c.hi < 8 * Size(c.ty)
    BY <1>0, <1>1, <1>u, BitsRange, MsqAssumption
  <2> DEFINE new == raw + (v - Field(c, raw)) * Pow2[c.lo]
  <2>5. Raw(c, SetBits(c, t, v)) = <<Field(c, new)>>
    <3> HIDE DEF v
    <3>1. Raw(c, SetBits(c, t, v)) = <<Field(c, raw + ((v % W) - Field(c, raw)) * Pow2[c.lo])>>
      BY <1>0, <1>1, <2>3, <2>4, SetBitsWord
    <3> QED
      BY <2>3, <3>1
  <2>6. Field(c, new) = v
    <3> HIDE DEF v, raw
    <3> QED
      BY <1>0, <2>1, <2>4, FieldHit
  <2> HIDE DEF new, u
  <2>7. Raw(c, u)[1] = v
    BY <2>1, <2>5, <2>6
  <2> QED
    BY <1>1, <2>7 DEF Same
<1>2. CASE c.class # "Bits"
  <2>1. ASSUME NEW y \in Held, \A b \in 1 .. TuneLen : b \notin Bytes(c) => y[b] = t[b]
        PROVE  Scale(c, y) = Scale(c, s)
    <3>1. CASE c.scale # 0
      BY <3>1 DEF Scale
    <3>2. CASE c.scale = 0
      <4>1. ScaleOf(BitsOf(t)) = ScaleOf(BitsOf(s))
        BY <1>2, <1>u, <3>2 DEF Settled
      <4>2. ASSUME NEW k \in BitFields
            PROVE  BitsOf(y)[Def[k].name] = BitsOf(t)[Def[k].name]
        <5>1. SharesWell(Def[k], c) /\ GoodConst(Def[k]) /\ Def[k].class = "Bits"
          BY <1>0, <1>2, <1>u, DefGood DEF WellLaid, BitFields
        <5>2. Bytes(Def[k]) \cap Bytes(c) = {}
          BY <1>2, <3>2, <5>1 DEF SharesWell, Apart
        <5>3. Bytes(Def[k]) \subseteq 1 .. TuneLen
          BY <5>1, BytesIn
        <5>4. \A b \in Bytes(Def[k]) : y[b] = t[b]
          BY <2>1, <5>2, <5>3
        <5>5. Raw(Def[k], y) = Raw(Def[k], t)
          BY <5>1, <5>4, RawFrame
        <5>6. /\ Raw(Def[k], y) = <<BitsOf(y)[Def[k].name]>>
              /\ Raw(Def[k], t) = <<BitsOf(t)[Def[k].name]>>
          BY BitsType
        <5> DEFINE a == BitsOf(y)[Def[k].name]
                   d == BitsOf(t)[Def[k].name]
        <5>7. <<a>> = <<d>>
          BY <5>5, <5>6
        <5> HIDE DEF a, d
        <5>8. a = d
          BY <5>7
        <5> QED
          BY <5>8 DEF a, d
      <4>3. BitsOf(y) = BitsOf(t)
        <5>1. BitsOf(y) \in BitValues /\ BitsOf(t) \in BitValues
          BY BitsType
        <5> HIDE DEF c
        <5> DEFINE a == BitsOf(y)
                   d == BitsOf(t)
        <5>2. a \in BitValues /\ d \in BitValues /\ \A k \in BitFields : a[Def[k].name] = d[Def[k].name]
          BY <4>2, <5>1
        <5> HIDE DEF a, d
        <5>3. a = d
          <6> DEFINE D == {Def[k].name : k \in BitFields}
          <6>1. \A n \in D : a[n] = d[n]
            BY <5>2
          <6>2. a \in [D -> Nat] /\ d \in [D -> Nat]
            BY <5>2 DEF BitValues
          <6> HIDE DEF D
          <6> QED
            BY <6>1, <6>2
        <5> QED
          BY <5>3 DEF a, d
      <4> QED
        BY <3>2, <4>1, <4>3 DEF Scale
    <3> QED
      BY <3>1, <3>2
  <2>2. CASE c.class = "Scalar"
    <3> DEFINE w == Encoded(c, t, Written(c, Raw(c, s)[1], Scale(c, s)))
               r == Raw(c, s)[1]
    <3>1. Scale(c, t) = Scale(c, s) /\ HasScale(c, s) /\ HasScale(c, t)
      BY <1>r, <2>1, <2>2 DEF Restorable, HasScale
    <3>2. w = r /\ u = write_raw(t, c.at, c.ty, w)
      BY <1>0, <1>r, <1>u, <2>2, <3>1, ApplyScalar
    <3>3. Raw(c, s) = <<r>> /\ InRange(c.ty, r) /\ Raw(c, u) = <<read_raw(u, c.at, c.ty)>>
      BY <1>0, <2>2, RawFacts DEF Raw
    <3>4. c.at \in Nat \ {0} /\ c.ty \in Types /\ c.at + Size(c.ty) - 1 <= TuneLen
      BY <1>0, <2>2, Places DEF GoodConst
    <3>5. u = write_raw(t, c.at, c.ty, r)
      BY <3>2
    <3> DEFINE a == c.at
               ty == c.ty
    <3> HIDE DEF r, w, u, a, ty
    <3>6. read_raw(write_raw(t, a, ty, r), a, ty) = r
      BY <3>3, <3>4, ReadHit DEF a, ty
    <3> QED
      BY <2>2, <3>3, <3>5, <3>6 DEF Same, a, ty
  <2>3. CASE c.class = "Array"
    <3>1. c.n > 1 /\ HasScale(c, s)
      BY <1>0, <1>r, <2>3 DEF Restorable, GoodConst
    <3>2. PICK vs \in Seq(Int) :
            /\ Len(vs) = c.n
            /\ \A k \in 1 .. c.n : vs[k] = Written(c, Raw(c, s)[k], Scale(c, s))
            /\ u = ApplyArray(c, t, vs, FALSE)
      BY <1>0, <1>r, <1>u, <2>3, <3>1, ApplyElements
    <3>3. Raw(c, ApplyArray(c, t, vs, FALSE)) = Raw(c, s)
      BY <1>0, <2>1, <2>3, <3>1, <3>2, ArrayHit
    <3> HIDE DEF u
    <3> QED
      BY <1>2, <3>2, <3>3 DEF Same
  <2> QED
    BY <1>0, <1>2, <2>2, <2>3
<1> QED
  BY <1>1, <1>2


(* An owner of the definition, applied. *)
LEMMA OwnerIs ==
  ASSUME NEW i \in Owners
  PROVE  /\ i \in DOMAIN Def /\ GoodConst(Def[i]) /\ Def[i].name \in Names
         /\ Const(Def[i].name) = Def[i] /\ (Def[i].class = "Bits" => i \in BitFields)
         /\ \A s, t : Applied(t, s, i) = ApplyOne(t, <<Def[i].name, Saved(Const(Def[i].name), s)>>)
<1>1. i \in DOMAIN Def
  BY OwnersFacts
<1> QED
  BY <1>1, ConstIs, DefGood DEF BitFields, Applied, EntryOf

(* What the INI keeps out of tune files is not an owner. *)
LEMMA OwnerSaved == \A i \in Owners : ~Def[i].nosave
<1> DEFINE N == Len(Def)
           S == {x \in SUBSET (1 .. N) : \A i \in x : ~Def[i].nosave}
<1>0. N \in Nat
  BY DefGood
<1>1. PICK g : /\ g[0] = {} /\ g[N] = Owners
               /\ \A k \in 1 .. N :
                    g[k] = IF Skip(g[k - 1], k) THEN g[k - 1] ELSE g[k - 1] \cup {k}
  BY OwnersRun
<1>2. g[0] \in S
  BY <1>1
<1>3. ASSUME NEW k \in 1 .. N, g[k - 1] \in S PROVE g[k] \in S
  <2>1. CASE Skip(g[k - 1], k)
    BY <1>1, <1>3, <2>1
  <2>2. CASE ~Skip(g[k - 1], k)
    <3>1. ~Def[k].nosave
      BY <2>2 DEF Skip
    <3>2. g[k] = g[k - 1] \cup {k}
      BY <1>1, <2>2
    <3> QED
      BY <1>3, <3>1, <3>2
  <2> QED
    BY <2>1, <2>2
<1>4. 0 \in 0 .. N /\ N \in 0 .. N /\ 0 + 1 .. N = 1 .. N
  BY <1>0
<1> HIDE DEF N, S
<1>5. \A k \in 0 + 1 .. N : g[k - 1] \in S => g[k] \in S
  BY <1>3, <1>4
<1>6. \A k \in 0 .. N : g[k] \in S
  BY <1>0, <1>2, <1>4, <1>5, RunType
<1>7. Owners \in S
  BY <1>1, <1>4, <1>6
<1> QED
  BY <1>7 DEF S

(* Applied, a constant of the file leaves alone what shares no byte with it. *)
LEMMA ApplyApart ==
  ASSUME FineScales, WellLaid, NEW s \in Held, NEW t \in Held, NEW i \in SavedOf(s)
  PROVE  /\ Applied(t, s, i) \in Held
         /\ \A c : GoodConst(c) /\ Bytes(Def[i]) \cap Bytes(c) = {}
                     => Raw(c, Applied(t, s, i)) = Raw(c, t)
<1> DEFINE x == Def[i].name
           u == Applied(t, s, i)
<1>1. x \in Names /\ Const(x) = Def[i] /\ u = ApplyOne(t, <<x, Saved(Const(x), s)>>)
      /\ Resolves(Const(x), s)
  BY OwnerIs DEF SavedOf
<1> HIDE DEF x
<1>2. /\ ApplyOne(t, <<x, Saved(Const(x), s)>>) \in Held
      /\ \A b \in 1 .. TuneLen : b \notin Bytes(Const(x)) =>
           ApplyOne(t, <<x, Saved(Const(x), s)>>)[b] = t[b]
  BY <1>1, ApplyFrame
<1> HIDE DEF u
<1>3. u \in Held /\ \A b \in 1 .. TuneLen : b \notin Bytes(Def[i]) => u[b] = t[b]
  BY <1>1, <1>2
<1>4. ASSUME NEW c, GoodConst(c), Bytes(Def[i]) \cap Bytes(c) = {} PROVE Raw(c, u) = Raw(c, t)
  <2>1. Bytes(c) \subseteq 1 .. TuneLen
    BY <1>4, BytesIn
  <2>2. \A b \in Bytes(c) : u[b] = t[b]
    BY <1>3, <1>4, <2>1
  <2> QED
    BY <1>3, <1>4, <2>2, RawFrame
<1> QED
  BY <1>3, <1>4 DEF u

(* Applied, a bit field leaves what is restored as it is. *)
LEMMA BitsKeep ==
  ASSUME FineScales, WellLaid, NEW s \in Held, NEW t \in Held, NEW i \in SavedBits, NEW j \in Owners,
         i # j, Def[j].class # "String", Same(Def[j], t, s)
  PROVE  Same(Def[j], Applied(t, s, i), s)
<1> DEFINE x == Def[i].name
           c == Def[i]
           d == Def[j]
           u == Applied(t, s, i)
           v == Slot(c, Raw(c, s)[1])
           raw == read_raw(t, c.at, c.ty)
           W == Pow2[Width(c)]
<1>1. i \in Owners /\ c.class = "Bits" /\ SharesWell(c, d)
  BY OwnersFacts DEF WellLaid, SavedBits, BitFields
<1>s. i \in SavedOf(s)
  BY <1>1 DEF SavedOf, Resolves
<1>2. /\ GoodConst(c) /\ GoodConst(d) /\ i \in DOMAIN Def /\ j \in DOMAIN Def
      /\ x \in Names /\ Const(x) = c
      /\ u = ApplyOne(t, <<x, Saved(Const(x), s)>>)
  BY <1>1, OwnerIs
<1>3. v \in 0 .. W - 1 /\ u = SetBits(c, t, v)
  <2> HIDE DEF x
  <2>1. LET w == Slot(Const(x), Raw(Const(x), s)[1])
        IN /\ w \in 0 .. Pow2[Width(Const(x))] - 1
           /\ ApplyOne(t, <<x, Saved(Const(x), s)>>) = SetBits(Const(x), t, w)
    BY <1>1, <1>2, ApplyBits
  <2> QED
    BY <1>2, <2>1
<1>4. W \in Nat \ {0} /\ raw \in Int
  BY <1>1, <1>2, BitsRange, WidthFacts
<1>5. v % W = v /\ v \in Int
  <2> HIDE DEF v, W
  <2> QED
    BY <1>3, <1>4
<1> HIDE DEF u
<1> SUFFICES Same(d, u, s)
  BY DEF u
<1>6. ASSUME Raw(d, u) = Raw(d, t) PROVE Same(d, u, s)
  BY <1>6 DEF Same
<1>7. CASE Bytes(c) \cap Bytes(d) = {}
  <2>1. Raw(d, u) = Raw(d, t)
    BY <1>s, <1>2, <1>7, ApplyApart DEF u
  <2> QED
    BY <1>6, <2>1
<1>8. CASE d.class = "Bits" /\ c.at = d.at /\ c.ty = d.ty /\ (c.hi < d.lo \/ d.hi < c.lo)
  <2>1. d.hi < 8 * Size(d.ty)
    BY <1>2, <1>8, MsqAssumption
  <2> HIDE DEF v, c, d
  <2>2. Raw(d, SetBits(c, t, v)) = Raw(d, t)
    BY <1>1, <1>2, <1>5, <1>8, <2>1, SetBitsApart
  <2>3. Raw(d, u) = Raw(d, t)
    BY <1>3, <2>2
  <2> QED
    BY <1>6, <2>3 DEF c, d
<1>9. CASE LabelsOnce(c) /\ d.class = "Bits" /\ LabelsOnce(d) /\ d.at = c.at /\ d.ty = c.ty
  <2> DEFINE w == read_raw(s, c.at, c.ty)
             new == raw + (v - Field(c, raw)) * Pow2[c.lo]
  <2>1. d.hi < 8 * Size(d.ty)
    BY <1>2, <1>9, MsqAssumption
  <2>2. /\ w \in Int /\ Raw(c, s) = <<Field(c, w)>> /\ Raw(d, s) = <<Field(d, w)>>
        /\ Raw(d, t) = <<Field(d, raw)>>
        /\ Raw(c, s)[1] \in 0 .. W - 1 /\ Raw(d, s)[1] \in 0 .. Pow2[Width(d)] - 1
        /\ Pow2[Width(d)] \in Nat \ {0}
    BY <1>1, <1>2, <1>9, BitsRange, WidthFacts
  <2>3. v = Field(c, w)
    <3>1. Raw(c, s)[1] = Field(c, w) /\ Raw(c, s)[1] \in Nat
      BY <1>4, <2>2
    <3> QED
      BY <1>9, <3>1 DEF LabelsOnce
  <2>4. Field(d, raw) = Field(d, w)
    <3>1. Raw(d, t)[1] = Slot(d, Raw(d, s)[1])
      BY <1>9 DEF Same
    <3>2. Raw(d, s)[1] \in Nat
      BY <2>2
    <3>3. Raw(d, t)[1] = Raw(d, s)[1]
      BY <1>9, <3>1, <3>2 DEF LabelsOnce
    <3> HIDE DEF raw, w
    <3> QED
      BY <2>2, <3>3
  <2>5. Raw(d, SetBits(c, t, v)) = <<Field(d, new)>>
    <3> HIDE DEF v, c, d
    <3>1. Raw(d, SetBits(c, t, v)) = <<Field(d, raw + ((v % W) - Field(c, raw)) * Pow2[c.lo])>>
      BY <1>1, <1>2, <1>5, <1>9, <2>1, SetBitsWord
    <3> QED
      BY <1>5, <3>1
  <2>6. Field(d, new) = Field(d, w)
    <3> HIDE DEF v, c, d, raw, w
    <3>1. Field(d, raw + (Field(c, w) - Field(c, raw)) * Pow2[c.lo]) = Field(d, w)
      BY <1>2, <1>4, <2>2, <2>4, FieldKeep
    <3> QED
      BY <2>3, <3>1
  <2> HIDE DEF new, w
  <2>7. Raw(d, u) = Raw(d, s)
    BY <1>3, <2>2, <2>5, <2>6
  <2>8. Raw(d, t) = Raw(d, s)
    BY <2>2, <2>4
  <2>9. Raw(d, u) = Raw(d, t)
    BY <2>7, <2>8
  <2> QED
    BY <1>6, <2>9
<1>10. CASE /\ LabelsOnce(c) /\ d.class \in {"Scalar", "Array"} /\ d.scale # 0
            /\ Bytes(c) \subseteq Bytes(d)
  <2>1. Raw(d, t) = Raw(d, s)
    BY <1>10 DEF Same
  <2>2. \A b \in Bytes(d) : t[b] = s[b]
    <3> HIDE DEF d
    <3> QED
      BY <1>2, <1>10, <2>1, RawBytes
  <2>3. Raw(c, t) = Raw(c, s)
    <3>1. \A b \in Bytes(c) : t[b] = s[b]
      BY <1>10, <2>2
    <3> HIDE DEF c
    <3> QED
      BY <1>2, <3>1, RawFrame
  <2>4. v = Raw(c, t)[1]
    <3>1. Raw(c, s)[1] \in Nat
      <4>1. Raw(c, s)[1] \in 0 .. W - 1
        BY <1>1, <1>2, BitsRange
      <4> QED
        BY <1>4, <4>1
    <3> QED
      BY <1>10, <2>3, <3>1 DEF LabelsOnce
  <2>5. SetBits(c, t, Raw(c, t)[1]) = t
    <3> HIDE DEF c
    <3> QED
      BY <1>1, <1>2, SetBitsSame
  <2> HIDE DEF v
  <2>6. u = t
    BY <1>3, <2>4, <2>5
  <2> QED
    BY <2>6
<1> QED
  BY <1>1, <1>7, <1>8, <1>9, <1>10 DEF SharesWell, Apart

(* So does every other constant. *)
LEMMA ApplyKeep ==
  ASSUME FineScales, WellLaid, NEW s \in Held, NEW t \in Held, NEW i \in SavedOf(s), NEW j \in Owners,
         i # j, Def[j].class # "String", Same(Def[j], t, s)
  PROVE  Same(Def[j], Applied(t, s, i), s)
<1> DEFINE c == Def[i]
           d == Def[j]
           u == Applied(t, s, i)
<1>0. GoodConst(c) /\ GoodConst(d) /\ i \in Owners /\ Resolves(c, s)
  BY OwnerIs DEF SavedOf
<1>1. CASE c.class = "Bits"
  <2>1. i \in SavedBits
    BY <1>0, <1>1, OwnerIs, OwnerSaved DEF SavedBits
  <2> QED
    BY <2>1, BitsKeep
<1>2. CASE c.class = "String"
  <2> DEFINE x == Def[i].name
  <2>1. x \in Names /\ Const(x) = Def[i] /\ u = ApplyOne(t, <<x, Saved(Const(x), s)>>)
    BY <1>0, OwnerIs
  <2> HIDE DEF x, u
  <2>2. u = t
    BY <1>2, <2>1, ApplyString
  <2> QED
    BY <2>2 DEF u
<1>3. CASE c.class \notin {"Bits", "String"} /\ Bytes(c) \cap Bytes(d) = {}
  <2>1. Raw(d, u) = Raw(d, t)
    BY <1>0, <1>3, ApplyApart
  <2> HIDE DEF u
  <2> QED
    BY <2>1 DEF Same, u
<1>4. CASE c.class \notin {"Bits", "String"} /\ Bytes(c) \cap Bytes(d) # {}
  <2>1. d.class = "Bits" /\ j \in BitFields
    BY <1>0, <1>4, OwnersApart, OwnerIs
  <2>2. SharesWell(d, c)
    BY <1>0, <1>4, <2>1 DEF WellLaid
  <2>3. LabelsOnce(d) /\ c.class \in {"Scalar", "Array"} /\ c.scale # 0 /\ Bytes(d) \subseteq Bytes(c)
    BY <1>4, <2>2 DEF SharesWell, Apart
  <2>a. CASE c.class = "Array" /\ c.n = 1
    <3> DEFINE x == Def[i].name
    <3>1. x \in Names /\ Const(x) = Def[i] /\ u = ApplyOne(t, <<x, Saved(Const(x), s)>>)
      BY <1>0, OwnerIs
    <3> HIDE DEF x, u
    <3>2. u = t
      BY <1>0, <2>a, <3>1, ApplySingle
    <3> QED
      BY <3>2 DEF u
  <2>b. CASE ~(c.class = "Array" /\ c.n = 1)
    <3>0. Restorable(c, s)
      <4>1. c.scale \in Nat /\ Scale(c, s) = c.scale
        BY <1>0, <2>3 DEF GoodConst, Scale
      <4> QED
        BY <2>3, <2>b, <4>1 DEF Restorable, HasScale
    <3>4. Same(c, u, s) /\ u \in Held
      BY <1>0, <1>4, <2>3, <3>0, ApplyHit, ApplyApart
    <3> HIDE DEF u
    <3>5. Raw(c, u) = Raw(c, s)
      BY <1>4, <3>4 DEF Same
    <3>6. \A b \in Bytes(c) : u[b] = s[b]
      <4> HIDE DEF c
      <4> QED
        BY <1>0, <2>3, <3>4, <3>5, RawBytes
    <3>7. Raw(d, u) = Raw(d, s)
      <4>1. \A b \in Bytes(d) : u[b] = s[b]
        BY <2>3, <3>6
      <4> HIDE DEF d
      <4> QED
        BY <1>0, <3>4, <4>1, RawFrame
    <3>8. Raw(d, s)[1] \in Nat
      <4>1. Raw(d, s)[1] \in 0 .. Pow2[Width(d)] - 1 /\ Pow2[Width(d)] \in Nat \ {0}
        BY <1>0, <2>1, BitsRange, WidthFacts
      <4> QED
        BY <4>1
    <3>9. Raw(d, u)[1] = Slot(d, Raw(d, s)[1])
      BY <2>3, <3>7, <3>8 DEF LabelsOnce
    <3> QED
      BY <2>1, <3>9 DEF Same, u
  <2> QED
    BY <2>a, <2>b
<1> QED
  BY <1>1, <1>2, <1>3, <1>4


(* The applying of a saved file: one constant after the other, none left out. *)
FileRun(g, n, t, s) ==
  /\ n \in Nat /\ g[0] = t /\ \A k \in 0 .. n : g[k] \in Held
  /\ \A k \in 1 .. n : \E i \in SavedOf(s) : g[k] = Applied(g[k - 1], s, i)
  /\ \A i \in SavedOf(s) : \E k \in 1 .. n : g[k] = Applied(g[k - 1], s, i)

LEMMA FileRuns ==
  ASSUME KnownScales, NEW s \in Held, NEW t \in Held, NEW pc, NEW f, FileOk(f),
         f.entries = save(s, pc).entries
  PROVE  \E g, n : FileRun(g, n, t, s) /\ g[n] = apply(f, t, Names)
<1> DEFINE es == f.entries
           n == Len(es)
<1>1. n \in Nat /\ DOMAIN es = 1 .. n /\ \A k \in 1 .. n : es[k] \in Entries(s)
  <2>1. es \in Seq(Entries(s))
    BY SaveFacts
  <2> HIDE DEF es
  <2> QED
    BY <2>1, LenProperties, ElementOfSeq
<1>2. PICK g : /\ g[0] = t /\ g[n] = apply(f, t, Names) /\ \A k \in 0 .. n : g[k] \in Held
               /\ \A k \in 1 .. n :
                    g[k] = IF es[k][1] \in Names THEN ApplyOne(g[k - 1], es[k]) ELSE g[k - 1]
  BY ApplyRuns
<1>3. ASSUME NEW k \in 1 .. n, NEW i \in SavedOf(s), es[k] = EntryOf(s, i)
      PROVE  g[k] = Applied(g[k - 1], s, i)
  <2>1. EntryOf(s, i)[1] \in Names
    BY OwnerIs DEF EntryOf, SavedOf
  <2> HIDE DEF es, n
  <2> QED
    BY <1>2, <1>3, <2>1 DEF Applied
<1>4. ASSUME NEW k \in 1 .. n PROVE \E i \in SavedOf(s) : g[k] = Applied(g[k - 1], s, i)
  <2>1. PICK i \in SavedOf(s) : es[k] = EntryOf(s, i)
    BY <1>1 DEF Entries
  <2> QED
    BY <1>3, <2>1
<1>5. ASSUME NEW i \in SavedOf(s) PROVE \E k \in 1 .. n : g[k] = Applied(g[k - 1], s, i)
  <2>1. PICK k \in 1 .. n : es[k] = EntryOf(s, i)
    BY <1>1, SaveFacts
  <2> QED
    BY <1>3, <2>1
<1> HIDE DEF n
<1>6. FileRun(g, n, t, s)
  BY <1>1, <1>2, <1>4, <1>5 DEF FileRun
<1> QED
  BY <1>2, <1>6

(* No entry of a file undoes what it did to the bit fields. *)
LEMMA BitsStay ==
  ASSUME FineScales, WellLaid, NEW s \in Held, NEW t \in Held, NEW i \in SavedOf(s), BitsSame(t, s)
  PROVE  BitsSame(Applied(t, s, i), s)
<1> SUFFICES ASSUME NEW j \in SavedBits PROVE Same(Def[j], Applied(t, s, i), s)
  BY DEF BitsSame
<1>1. j \in Owners /\ Def[j].class = "Bits" /\ Same(Def[j], t, s) /\ Restorable(Def[j], s)
  BY OwnersFacts DEF BitsSame, SavedBits, BitFields, Restorable
<1>2. CASE i = j
  BY <1>1, <1>2, ApplyHit
<1>3. CASE i # j
  BY <1>1, <1>3, ApplyKeep
<1> QED
  BY <1>2, <1>3

(* What a saved file restores: the bit fields, and when those are as they    *)
(* were, everything.                                                         *)
LEMMA PassSame ==
  ASSUME FineScales, LabelsTellScale, WellLaid, NEW s \in Held, NEW t \in Held, NEW g, NEW n,
         FileRun(g, n, t, s), NEW j \in Owners, Restorable(Def[j], s),
         Def[j].class = "Bits" \/ BitsSame(t, s)
  PROVE  Same(Def[j], g[n], s)
<1>0. /\ n \in Nat /\ 0 \in 0 .. n /\ n \in 0 .. n /\ g[0] = t /\ \A k \in 0 .. n : g[k] \in Held
      /\ \A k \in 1 .. n : k - 1 \in 0 .. n /\ k \in 0 .. n
  BY DEF FileRun
<1>j. j \in SavedOf(s) /\ Def[j].class # "String"
  BY RestorableSaved
<1> DEFINE A == {y \in Held : BitsSame(t, s) => BitsSame(y, s)}
           B == {y \in Held : Same(Def[j], y, s)}
<1>1. \A k \in 0 .. n : g[k] \in A
  <2>1. g[0] \in A
    BY <1>0
  <2>2. ASSUME NEW k \in 0 + 1 .. n, g[k - 1] \in A PROVE g[k] \in A
    <3>1. k \in 1 .. n /\ g[k] \in Held /\ g[k - 1] \in Held
      BY <1>0
    <3>2. PICK i \in SavedOf(s) : g[k] = Applied(g[k - 1], s, i)
      BY <3>1 DEF FileRun
    <3>3. BitsSame(g[k - 1], s) => BitsSame(g[k], s)
      BY <3>1, <3>2, BitsStay
    <3> QED
      BY <2>2, <3>1, <3>3
  <2> HIDE DEF A
  <2> QED
    BY <1>0, <2>1, <2>2, RunType
<1>2. ASSUME NEW k \in 1 .. n, g[k] = Applied(g[k - 1], s, j) PROVE Same(Def[j], g[k], s)
  <2> DEFINE y == g[k - 1]
  <2>1. y \in Held /\ (BitsSame(t, s) => BitsSame(y, s))
    BY <1>0, <1>1
  <2>2. g[k] = Applied(y, s, j)
    BY <1>2
  <2> HIDE DEF y
  <2>3. Def[j].class = "Bits" \/ Settled(y, s)
    BY <2>1, BitsSettle
  <2>4. Same(Def[j], Applied(y, s, j), s)
    BY <2>1, <2>3, ApplyHit
  <2> QED
    BY <2>2, <2>4
<1>3. PICK a \in 1 .. n : g[a] = Applied(g[a - 1], s, j)
  BY <1>j DEF FileRun
<1>4. g[a] \in B /\ a \in 0 .. n /\ n \in a .. n
  BY <1>0, <1>2, <1>3
<1>5. ASSUME NEW k \in a + 1 .. n, g[k - 1] \in B PROVE g[k] \in B
  <2>1. k \in 1 .. n
    BY <1>0, <1>4
  <2>2. g[k] \in Held /\ g[k - 1] \in Held /\ Same(Def[j], g[k - 1], s)
    BY <1>0, <1>5, <2>1
  <2>3. PICK i \in SavedOf(s) : g[k] = Applied(g[k - 1], s, i)
    BY <2>1 DEF FileRun
  <2>4. CASE i = j
    BY <1>2, <2>1, <2>2, <2>3, <2>4
  <2>5. CASE i # j
    BY <1>j, <2>2, <2>3, <2>5, ApplyKeep
  <2> QED
    BY <2>4, <2>5
<1> HIDE DEF B
<1>6. \A k \in a .. n : g[k] \in B
  BY <1>0, <1>4, <1>5, RunType
<1> QED
  BY <1>4, <1>6 DEF B

(* Applied once, a saved file restores the bit fields; applied again, the rest. *)
LEMMA ApplySettles ==
  ASSUME FineScales, LabelsTellScale, WellLaid, NEW s \in Held, NEW t \in Held, NEW pc, NEW f,
         FileOk(f), f.entries = save(s, pc).entries
  PROVE  /\ BitsSame(apply(f, t, Names), s)
         /\ BitsSame(t, s) => Restored(apply(f, t, Names), s)
<1>1. PICK g, n : FileRun(g, n, t, s) /\ g[n] = apply(f, t, Names)
  BY FineKnown, FileRuns
<1>2. ASSUME NEW i \in SavedBits PROVE Same(Def[i], g[n], s)
  <2>1. i \in Owners /\ Def[i].class = "Bits" /\ Restorable(Def[i], s)
    BY OwnersFacts DEF SavedBits, BitFields, Restorable
  <2> QED
    BY <1>1, <2>1, PassSame
<1>3. ASSUME BitsSame(t, s), NEW i \in Owners, Restorable(Def[i], s) PROVE Same(Def[i], g[n], s)
  BY <1>1, <1>3, PassSame
<1> QED
  BY <1>1, <1>2, <1>3 DEF BitsSame, Restored

(* What applying the file has restored so far. *)
Settling ==
  /\ applied \in Nat
  /\ origin.file # NoTune => /\ applied >= 1 => BitsSame(tune, origin.file)
                             /\ applied >= 2 => Restored(tune, origin.file)

(* Every step keeps it. *)
LEMMA SettlingNext ==
  ASSUME FineScales, LabelsTellScale, WellLaid, MsqInv, Settling, [Next]_vars
  PROVE  Settling'
(* Steps after which the file counts as not applied. *)
<1>z. ASSUME applied' = 0 PROVE Settling'
  BY <1>z DEF Settling
(* Steps that leave the tune and the file alone. *)
<1>k. ASSUME UNCHANGED <<tune, applied>>, origin'.file = origin.file PROVE Settling'
  BY <1>k DEF Settling, BitsSame, Restored
<1>0. origin \in [saved : Held \cup {NoTune}, file : Held \cup {NoTune}] /\ tune \in Held
      /\ FileOk(file) /\ SavedFrom(file, origin.file) /\ applied \in Nat
  BY DEF MsqInv, Settling
(* Applying the file to a tune. *)
<1>a. ASSUME NEW t \in Held, origin.file # NoTune
      PROVE  /\ BitsSame(apply(file, t, Names), origin.file)
             /\ BitsSame(t, origin.file) => Restored(apply(file, t, Names), origin.file)
  <2> DEFINE s == origin.file
  <2>1. s \in Held
    BY <1>0, <1>a
  <2>2. PICK pc : file.entries = save(s, pc).entries
    BY <1>0, <1>a DEF SavedFrom
  <2> HIDE DEF s
  <2>3. BitsSame(apply(file, t, Names), s) /\ (BitsSame(t, s) => Restored(apply(file, t, Names), s))
    BY <1>0, <2>1, <2>2, ApplySettles
  <2> QED
    BY <2>3 DEF s
<1>1. CASE tune_set_constant
  BY <1>1, <1>z DEF tune_set_constant
<1>2. CASE Batch
  BY <1>2, <1>z DEF Batch
<1>3. CASE SetPc
  BY <1>3, <1>k DEF SetPc
<1>4. CASE msq_save
  <2>1. origin' = [origin EXCEPT !.saved = tune] /\ UNCHANGED <<tune, applied>>
    BY <1>4 DEF msq_save
  <2>2. origin'.file = origin.file
    BY <1>0, <2>1
  <2> QED
    BY <1>k, <2>1, <2>2
<1>5. CASE msq_upload
  BY <1>5, <1>z DEF msq_upload
<1>6. CASE msq_apply
  <2>1. PICK names : /\ tune' = apply(file, tune, names)
                     /\ applied' = IF names = Names THEN applied + 1 ELSE 0
                     /\ UNCHANGED <<origin, file>>
    BY <1>6 DEF msq_apply
  <2>2. CASE names = Names
    <3>1. applied' = applied + 1 /\ tune' = apply(file, tune, Names)
      BY <2>1, <2>2
    <3>2. ASSUME origin.file # NoTune
          PROVE  BitsSame(tune', origin.file) /\ (applied >= 1 => Restored(tune', origin.file))
      <4>1. applied >= 1 => BitsSame(tune, origin.file)
        BY <3>2 DEF Settling
      <4> QED
        BY <1>0, <1>a, <3>1, <3>2, <4>1
    <3>3. applied' \in Nat /\ (applied' >= 2 => applied >= 1)
      BY <1>0, <3>1
    <3> QED
      BY <2>1, <3>2, <3>3 DEF Settling, BitsSame, Restored
  <2>3. CASE names # Names
    BY <1>z, <2>1, <2>3
  <2> QED
    BY <2>2, <2>3
<1>7. CASE offline_open
  <2>1. /\ tune' = apply(file, Blank, Names) /\ applied' = 1 /\ UNCHANGED <<origin, file>>
    BY <1>7 DEF offline_open
  <2>2. Blank \in Held
    BY <1>0 DEF Held, Blank
  <2>3. origin.file # NoTune => BitsSame(tune', origin.file)
    BY <1>a, <2>1, <2>2
  <2> QED
    BY <2>1, <2>3 DEF Settling, BitsSame
<1>8. CASE offline_close
  BY <1>8, <1>z DEF offline_close
<1>9. CASE do_connect
  BY <1>9, <1>k, <1>z DEF do_connect
<1>10. CASE disconnect
  BY <1>10, <1>z DEF disconnect
<1>11. CASE UNCHANGED vars
  BY <1>11, <1>k DEF vars
<1> QED
  BY <1>1, <1>2, <1>3, <1>4, <1>5, <1>6, <1>7, <1>8, <1>9, <1>10, <1>11 DEF Next

(* A file that was saved here and applied in full twice restores every saved  *)
(* number of the tune that wrote it, arrays of one element and what had no    *)
(* scale there aside, for every definition, every tune it is applied to and   *)
(* every sequence of requests, provided no scale is finer than the six        *)
(* decimals of a file, depends on a bit field that is not saved or tells      *)
(* apart the slots of one label, and constants that share bits agree on them  *)
(* (save, parse, apply, set_constant_impl, set_array_element_impl).           *)
THEOREM RestoreSettlesHolds ==
  ASSUME FineScales, LabelsTellScale, WellLaid
  PROVE  Spec => []RestoreSettles
<1> DEFINE I == MsqInv /\ Settling
<1>1. Init => I
  BY MsqInitInv DEF Init, Settling
<1>2. I /\ [Next]_vars => I'
  BY FineKnown, MsqNextInv, SettlingNext
<1>3. I => RestoreSettles
  BY DEF Settling, RestoreSettles
<1> QED
  BY <1>1, <1>2, <1>3, PTL DEF Spec
=============================================================================
