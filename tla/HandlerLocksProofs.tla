------------------------- MODULE HandlerLocksProofs -------------------------
(***************************************************************************)
(* NoCircularWait for any number of requests at a time.                    *)
(*                                                                         *)
(* The handlers but msq_diff take their mutexes in one order, the join of  *)
(* the comms thread included (Rank).  What a handler has still to do is    *)
(* safe with the mutexes it holds (Safe): each further take or join ranks  *)
(* above them, and each is dropped in the end.  Whoever waits therefore    *)
(* waits for one that is further up, so in every set of actors the one     *)
(* furthest up waits for nobody of the set.                                *)
(***************************************************************************)
EXTENDS HandlerLocks, Naturals, SequenceTheorems, TLAPS

(* The handlers of the repository that keep the order. *)
OrderedKinds == {"connect", "disconnect", "reconnect", "burn", "summary",
                 "set_constant", "offline_open", "offline_close", "msq_upload",
                 "msq_apply"}

Ops == [do : {"take", "drop", "join"}, of : Mutexes]

Rank(l) == CASE l \in {"comms", "msq"} -> 1
             [] l = "tune" -> 3
             [] OTHER -> 4
JoinRank == 2

(* What an actor that holds the mutexes held may do next, and what it holds *)
(* afterwards.                                                              *)
Allowed(op, held) ==
  /\ op.do = "take" => \A h \in held : Rank(h) < Rank(op.of)
  /\ op.do = "drop" => op.of \in held
  /\ op.do = "join" => \A h \in held : Rank(h) < JoinRank
After(op, held) == IF op.do = "take" THEN held \cup {op.of}
                   ELSE IF op.do = "drop" THEN held \ {op.of} ELSE held

(* A set of pairs of a program and the mutexes held when it starts that is  *)
(* closed under its programs' steps, and in which nothing is held at the    *)
(* end of one.                                                              *)
Pairs == Seq(Ops) \X SUBSET Mutexes
Consistent(G) ==
  \A s \in Seq(Ops), held \in SUBSET Mutexes : <<s, held>> \in G =>
    IF s = <<>> THEN held = {}
    ELSE Allowed(Head(s), held) /\ <<Tail(s), After(Head(s), held)>> \in G
Safe(s, held) == \E G \in SUBSET Pairs : Consistent(G) /\ <<s, held>> \in G

(* A piece of a program that may run while held is held, and gives it back. *)
Runs(p, held) == /\ p \in Seq(Ops)
                 /\ \A s \in Seq(Ops) : Safe(s, held) => Safe(p \o s, held)

-----------------------------------------------------------------------------
(* Safe programs, step by step.                                            *)

(* What is held after a step is a set of mutexes. *)
LEMMA AfterTyped ==
  ASSUME NEW op \in Ops, NEW held \in SUBSET Mutexes
  PROVE  After(op, held) \in SUBSET Mutexes
BY DEF After, Ops

(* A program is its first operation and the rest. *)
LEMMA ConsFacts ==
  ASSUME NEW op \in Ops, NEW s \in Seq(Ops)
  PROVE  /\ <<op>> \in Seq(Ops) /\ <<op>> \o s \in Seq(Ops) /\ <<op>> \o s # <<>>
         /\ Head(<<op>> \o s) = op /\ Tail(<<op>> \o s) = s
<1>1. <<op>> \in Seq(Ops) /\ <<op>> \o s \in Seq(Ops)
  OBVIOUS
<1>2. Len(<<op>> \o s) = 1 + Len(s) /\ (<<op>> \o s)[1] = op
  OBVIOUS
<1>3. Tail(<<op>> \o s) = s
  OBVIOUS
<1>. QED BY <1>1, <1>2, <1>3

(* The end of a program is safe when nothing is held, and only then. *)
LEMMA SafeEnd ==
  ASSUME NEW held \in SUBSET Mutexes
  PROVE  Safe(<<>>, held) <=> held = {}
<1>0. <<>> \in Seq(Ops) /\ {} \in SUBSET Mutexes
  OBVIOUS
<1>1. ASSUME Safe(<<>>, held) PROVE held = {}
  <2>1. PICK G \in SUBSET Pairs : Consistent(G) /\ << <<>>, held >> \in G
    BY <1>1 DEF Safe
  <2>. QED BY <1>0, <2>1 DEF Consistent
<1>2. Safe(<<>>, {})
  <2>. DEFINE G == {<< <<>>, {} >>}
  <2>0. << <<>>, {} >> \in Seq(Ops) \X SUBSET Mutexes
    BY <1>0
  <2>1. G \in SUBSET Pairs
    BY <2>0 DEF Pairs
  <2>2. Consistent(G)
    BY DEF Consistent
  <2>. QED BY <2>1, <2>2 DEF Safe
<1>. QED BY <1>1, <1>2

(* An allowed operation may be put before a safe program. *)
LEMMA SafeCons ==
  ASSUME NEW op \in Ops, NEW s \in Seq(Ops), NEW held \in SUBSET Mutexes,
         Allowed(op, held), Safe(s, After(op, held))
  PROVE  Safe(<<op>> \o s, held)
<1>1. PICK G \in SUBSET Pairs : Consistent(G) /\ <<s, After(op, held)>> \in G
  BY DEF Safe
<1>. DEFINE p == <<op>> \o s
            F == G \cup {<<p, held>>}
<1>2. p \in Seq(Ops) /\ p # <<>> /\ Head(p) = op /\ Tail(p) = s
  BY ConsFacts
<1>. HIDE DEF p
<1>3. F \in SUBSET Pairs
  BY <1>2 DEF Pairs
<1>4. Consistent(F)
  <2>. SUFFICES ASSUME NEW t \in Seq(Ops), NEW h \in SUBSET Mutexes, <<t, h>> \in F
                PROVE IF t = <<>> THEN h = {}
                      ELSE Allowed(Head(t), h) /\ <<Tail(t), After(Head(t), h)>> \in F
    BY DEF Consistent
  <2>1. CASE <<t, h>> \in G
    BY <1>1, <2>1 DEF Consistent
  <2>2. CASE t = p /\ h = held
    BY <1>1, <1>2, <2>2
  <2>. QED BY <2>1, <2>2
<1>5. Safe(p, held)
  BY <1>3, <1>4 DEF Safe
<1>. QED BY <1>5 DEF p

(* The first operation of a safe program is allowed, and the rest is safe. *)
LEMMA SafeStep ==
  ASSUME NEW s \in Seq(Ops), s # <<>>, NEW held \in SUBSET Mutexes, Safe(s, held)
  PROVE  Allowed(Head(s), held) /\ Safe(Tail(s), After(Head(s), held))
BY DEF Safe, Consistent

-----------------------------------------------------------------------------
(* Safe programs, piece by piece.                                          *)

(* Pieces in sequence. *)
LEMMA RunsThen ==
  ASSUME NEW held \in SUBSET Mutexes, NEW p, NEW q, Runs(p, held), Runs(q, held)
  PROVE  Runs(p \o q, held)
<1>1. p \in Seq(Ops) /\ q \in Seq(Ops)
  BY DEF Runs
<1>2. ASSUME NEW s \in Seq(Ops), Safe(s, held) PROVE Safe((p \o q) \o s, held)
  <2>1. Safe(q \o s, held) /\ q \o s \in Seq(Ops)
    BY <1>1, <1>2 DEF Runs
  <2>2. Safe(p \o (q \o s), held)
    BY <2>1 DEF Runs
  <2>3. p \o (q \o s) = (p \o q) \o s
    BY <1>1, ConcatAssociative
  <2>. QED BY <2>2, <2>3
<1>. QED BY <1>1, <1>2 DEF Runs

(* Nothing. *)
LEMMA RunsNothing ==
  ASSUME NEW held \in SUBSET Mutexes
  PROVE  Runs(<<>>, held)
<1>1. ASSUME NEW s \in Seq(Ops) PROVE <<>> \o s = s
  BY ConcatEmptySeq
<1>. QED BY <1>1 DEF Runs

(* A region of a mutex that ranks above what is held. *)
LEMMA RunsWithin ==
  ASSUME NEW held \in SUBSET Mutexes, NEW l \in Mutexes, NEW body,
         \A h \in held : Rank(h) < Rank(l), Runs(body, held \cup {l})
  PROVE  Runs(Within(l, body), held)
<1>. DEFINE up == [do |-> "take", of |-> l]
            down == [do |-> "drop", of |-> l]
<1>1. up \in Ops /\ down \in Ops
  BY DEF Ops
<1>2. body \in Seq(Ops) /\ take(l) = <<up>> /\ drop(l) = <<down>>
  BY DEF Runs, take, drop
<1>3. l \notin held
  BY DEF Rank
<1>4. /\ Allowed(up, held) /\ After(up, held) = held \cup {l}
      /\ Allowed(down, held \cup {l}) /\ After(down, held \cup {l}) = held
  BY <1>3 DEF Allowed, After
<1>. HIDE DEF up, down
<1>5. ASSUME NEW s \in Seq(Ops), Safe(s, held) PROVE Safe(Within(l, body) \o s, held)
  <2>1. Safe(<<down>> \o s, held \cup {l}) /\ <<down>> \o s \in Seq(Ops)
    BY <1>1, <1>4, <1>5, SafeCons, ConsFacts
  <2>2. Safe(body \o (<<down>> \o s), held \cup {l}) /\ body \o (<<down>> \o s) \in Seq(Ops)
    <3>. DEFINE rest == <<down>> \o s
    <3>1. rest \in Seq(Ops) /\ Safe(rest, held \cup {l})
      BY <2>1
    <3>. HIDE DEF rest
    <3>2. Safe(body \o rest, held \cup {l})
      BY <3>1, Zenon DEF Runs
    <3>3. body \o rest \in Seq(Ops)
      BY <1>2, <3>1
    <3>. QED BY <3>2, <3>3 DEF rest
  <2>3. Safe(<<up>> \o (body \o (<<down>> \o s)), held)
    BY <1>1, <1>4, <2>2, SafeCons
  <2>4. Within(l, body) \o s = <<up>> \o (body \o (<<down>> \o s))
    <3>1. <<up>> \in Seq(Ops) /\ <<down>> \in Seq(Ops) /\ <<up>> \o body \in Seq(Ops)
      BY <1>1, <1>2, ConsFacts
    <3>2. Within(l, body) = (<<up>> \o body) \o <<down>>
      BY <1>2 DEF Within
    <3>3. ((<<up>> \o body) \o <<down>>) \o s = (<<up>> \o body) \o (<<down>> \o s)
      BY <3>1, ConcatAssociative
    <3>4. (<<up>> \o body) \o (<<down>> \o s) = <<up>> \o (body \o (<<down>> \o s))
      BY <1>2, <2>1, <3>1, ConcatAssociative
    <3>. QED BY <3>2, <3>3, <3>4
  <2>. QED BY <2>3, <2>4
<1>6. Within(l, body) \in Seq(Ops)
  BY <1>1, <1>2, ConsFacts DEF Within
<1>. QED BY <1>5, <1>6 DEF Runs

(* A region with nothing in it. *)
LEMMA RunsBrief ==
  ASSUME NEW held \in SUBSET Mutexes, NEW l \in Mutexes, \A h \in held : Rank(h) < Rank(l)
  PROVE  Runs(Brief(l), held)
BY RunsNothing, RunsWithin DEF Brief

(* The join, under no mutex but the one that may be held. *)
LEMMA RunsJoin ==
  ASSUME NEW held \in SUBSET {"comms"}
  PROVE  Runs(join, held)
<1>. DEFINE op == [do |-> "join", of |-> "comms"]
<1>1. op \in Ops /\ Allowed(op, held) /\ After(op, held) = held /\ held \in SUBSET Mutexes
  BY DEF Ops, Allowed, After, Rank, JoinRank, Mutexes
<1>. HIDE DEF op
<1>2. join = <<op>>
  BY DEF join, op
<1>. QED BY <1>1, <1>2, SafeCons, ConsFacts DEF Runs

(* A piece that gives back everything is a safe program. *)
LEMMA SafeProgram ==
  ASSUME NEW p, Runs(p, {})
  PROVE  p \in Seq(Ops) /\ Safe(p, {})
<1>1. p \in Seq(Ops) /\ <<>> \in Seq(Ops) /\ Safe(<<>>, {})
  BY SafeEnd DEF Runs
<1>2. Safe(p \o <<>>, {})
  BY <1>1 DEF Runs
<1>3. p \o <<>> = p
  BY <1>1, ConcatEmptySeq
<1>. QED BY <1>1, <1>2, <1>3

-----------------------------------------------------------------------------
(* The handlers.                                                           *)

(* Short regions, under nothing and under the guards they are found under. *)
LEMMA Briefs ==
  /\ \A l \in Mutexes : Runs(Brief(l), {})
  /\ \A l \in {"status", "tune", "writer"} : Runs(Brief(l), {"comms"})
  /\ \A l \in {"writer", "definition"} : Runs(Brief(l), {"tune"})
  /\ Runs(Brief("definition"), {"msq", "tune"})
<1>1. \A l \in Mutexes : Runs(Brief(l), {})
  BY RunsBrief
<1>2. \A l \in {"status", "tune", "writer"} : Runs(Brief(l), {"comms"})
  BY RunsBrief DEF Mutexes, Rank
<1>3. \A l \in {"writer", "definition"} : Runs(Brief(l), {"tune"})
  BY RunsBrief DEF Mutexes, Rank
<1>4. Runs(Brief("definition"), {"msq", "tune"})
  BY RunsBrief DEF Mutexes, Rank
<1>. QED BY <1>1, <1>2, <1>3, <1>4

(* do_connect joins the old thread and tidies up under the comms guard. *)
LEMMA ConnectRuns == Runs(do_connect, {})
<1>1. {} \in SUBSET Mutexes /\ {"comms"} \in SUBSET Mutexes /\ "comms" \in Mutexes
      /\ {} \cup {"comms"} = {"comms"}
      /\ {"status", "tune", "writer"} \subseteq Mutexes
  BY DEF Mutexes
<1>. DEFINE b1 == Brief("status") \o join
            b2 == b1 \o Brief("status")
            b3 == b2 \o Brief("tune")
            b4 == b3 \o Brief("writer")
<1>2. Runs(b1, {"comms"})
  BY <1>1, Briefs, RunsJoin, RunsThen
<1>3. Runs(b2, {"comms"})
  BY <1>1, <1>2, Briefs, RunsThen
<1>4. Runs(b3, {"comms"})
  BY <1>1, <1>3, Briefs, RunsThen
<1>5. Runs(b4, {"comms"})
  BY <1>1, <1>4, Briefs, RunsThen
<1>. HIDE DEF b4
<1>6. Runs(Within("comms", b4), {})
  BY <1>1, <1>5, RunsWithin
<1>7. Runs(Brief("status") \o Brief("tune"), {})
  BY <1>1, Briefs, RunsThen
<1>8. Runs((Brief("status") \o Brief("tune")) \o Within("comms", b4), {})
  BY <1>1, <1>6, <1>7, RunsThen
<1>9. Runs(((Brief("status") \o Brief("tune")) \o Within("comms", b4)) \o Brief("status"), {})
  BY <1>1, <1>8, Briefs, RunsThen
<1>. QED BY <1>9 DEF do_connect, b4, b3, b2, b1

(* The tune is edited under its guard, alone or under that of the msq. *)
LEMMA TuneRegions ==
  /\ Runs(Within("tune", refresh_definition), {})
  /\ Runs(Within("tune", Brief("writer")), {})
  /\ Runs(Within("msq", Within("tune", refresh_definition)), {})
<1>1. /\ {} \in SUBSET Mutexes /\ {"msq"} \in SUBSET Mutexes
      /\ "tune" \in Mutexes /\ "msq" \in Mutexes
      /\ {} \cup {"tune"} = {"tune"} /\ {} \cup {"msq"} = {"msq"}
      /\ {"msq"} \cup {"tune"} = {"msq", "tune"}
  BY DEF Mutexes
<1>2. Runs(refresh_definition, {"tune"}) /\ Runs(refresh_definition, {"msq", "tune"})
  BY Briefs DEF refresh_definition
<1>3. Runs(Within("tune", refresh_definition), {})
  BY <1>1, <1>2, RunsWithin
<1>4. Runs(Within("tune", Brief("writer")), {})
  BY <1>1, Briefs, RunsWithin
<1>5. \A h \in {"msq"} : Rank(h) < Rank("tune")
  BY DEF Rank
<1>6. Runs(Within("tune", refresh_definition), {"msq"})
  BY <1>1, <1>2, <1>5, RunsWithin
<1>7. Runs(Within("msq", Within("tune", refresh_definition)), {})
  BY <1>1, <1>6, RunsWithin
<1>. QED BY <1>3, <1>4, <1>7

(* Every handler but msq_diff, and the thread's loop, keep the order. *)
LEMMA ProgramsRun ==
  ASSUME NEW kind \in OrderedKinds \cup {"thread"}
  PROVE  Runs(Program(kind), {})
<1>0. {} \in SUBSET Mutexes /\ {} \in SUBSET {"comms"} /\ {"comms"} \in SUBSET {"comms"}
      /\ {} \cup {"comms"} = {"comms"} /\ "comms" \in Mutexes
  BY DEF Mutexes
<1>1. /\ Runs(Brief("status"), {}) /\ Runs(Brief("tune"), {}) /\ Runs(Brief("writer"), {})
      /\ Runs(Brief("msq"), {}) /\ Runs(Brief("comms"), {}) /\ Runs(join, {})
  BY <1>0, Briefs, RunsJoin DEF Mutexes
<1>2. Runs(broadcast_tune, {}) /\ Runs(acquire_writer, {})
  BY <1>1 DEF broadcast_tune, acquire_writer
<1>3. Runs(disconnect, {})
  <2>1. Runs(Brief("comms") \o join, {})
    BY <1>0, <1>1, RunsThen
  <2>. QED BY <1>0, <1>1, <2>1, RunsThen DEF disconnect
<1>4. Runs(reconnect, {})
  BY <1>0, RunsJoin, RunsWithin DEF reconnect
<1>5. Runs(tune_burn, {})
  BY <1>0, <1>1, <1>2, RunsThen DEF tune_burn
<1>6. Runs(tune_summary, {})
  BY TuneRegions DEF tune_summary
<1>7. Runs(tune_set_constant, {})
  <2>1. Runs(acquire_writer \o Within("tune", refresh_definition), {})
    BY <1>0, <1>2, TuneRegions, RunsThen
  <2>. QED BY <1>0, <1>2, <2>1, RunsThen DEF tune_set_constant
<1>8. Runs(offline_open, {})
  <2>1. Runs(Brief("status") \o Within("msq", Within("tune", refresh_definition)), {})
    BY <1>0, <1>1, TuneRegions, RunsThen
  <2>2. Runs((Brief("status") \o Within("msq", Within("tune", refresh_definition)))
             \o Brief("writer"), {})
    BY <1>0, <1>1, <2>1, RunsThen
  <2>3. Runs(((Brief("status") \o Within("msq", Within("tune", refresh_definition)))
              \o Brief("writer")) \o Brief("status"), {})
    BY <1>0, <1>1, <2>2, RunsThen
  <2>. QED BY <1>0, <1>2, <2>3, RunsThen DEF offline_open
<1>9. Runs(offline_close, {})
  <2>1. Runs(Brief("status") \o Brief("tune"), {})
    BY <1>0, <1>1, RunsThen
  <2>2. Runs((Brief("status") \o Brief("tune")) \o Brief("writer"), {})
    BY <1>0, <1>1, <2>1, RunsThen
  <2>3. Runs(((Brief("status") \o Brief("tune")) \o Brief("writer")) \o Brief("status"), {})
    BY <1>0, <1>1, <2>2, RunsThen
  <2>. QED BY <1>0, <1>2, <2>3, RunsThen DEF offline_close
<1>10. Runs(msq_upload, {})
  BY <1>1 DEF msq_upload
<1>11. Runs(msq_apply, {})
  <2>1. Runs(acquire_writer \o Within("msq", Within("tune", refresh_definition)), {})
    BY <1>0, <1>2, TuneRegions, RunsThen
  <2>. QED BY <1>0, <1>2, <2>1, RunsThen DEF msq_apply
<1>12. Runs(comms_run, {})
  <2>1. Runs(Brief("tune") \o Brief("status"), {})
    BY <1>0, <1>1, RunsThen
  <2>. QED BY <1>0, <1>2, <2>1, RunsThen DEF comms_run
<1>. QED
  BY <1>3, <1>4, <1>5, <1>6, <1>7, <1>8, <1>9, <1>10, <1>11, <1>12, ConnectRuns
  DEF Program, OrderedKinds

(* The thread uses the tune and the status, and joins nobody. *)
ThreadOps == [do : {"take", "drop"}, of : {"tune", "status"}]

(* So does the loop of the thread. *)
LEMMA ThreadProgram == comms_run \in Seq(ThreadOps)
<1>1. \A l \in {"tune", "status"} : Brief(l) \in Seq(ThreadOps)
  <2>. SUFFICES ASSUME NEW l \in {"tune", "status"} PROVE Brief(l) \in Seq(ThreadOps)
    OBVIOUS
  <2>1. [do |-> "take", of |-> l] \in ThreadOps /\ [do |-> "drop", of |-> l] \in ThreadOps
    BY DEF ThreadOps
  <2>2. take(l) \in Seq(ThreadOps) /\ drop(l) \in Seq(ThreadOps) /\ <<>> \in Seq(ThreadOps)
    BY <2>1 DEF take, drop
  <2>3. take(l) \o <<>> \in Seq(ThreadOps)
    BY <2>2, ConcatProperties
  <2>4. (take(l) \o <<>>) \o drop(l) \in Seq(ThreadOps)
    BY <2>2, <2>3, ConcatProperties
  <2>. QED BY <2>4 DEF Brief, Within
<1>2. Brief("tune") \o Brief("status") \in Seq(ThreadOps)
  BY <1>1, ConcatProperties
<1>. QED BY <1>1, <1>2, ConcatProperties DEF comms_run, broadcast_tune

-----------------------------------------------------------------------------
(* The inductive invariant: what every actor has still to do is safe with   *)
(* what it holds.                                                           *)

HeldBy(a) == {l \in Mutexes : holder[l] = a}

LockTypeOK == /\ left \in [Actors -> Seq(Ops)]
              /\ holder \in [Mutexes -> Actors \cup {Free}]
LockInv == /\ LockTypeOK
           /\ \A a \in Actors : Safe(left[a], HeldBy(a))
           /\ left[Thread] \in Seq(ThreadOps)

(* At first nothing is held and nothing is to do. *)
LEMMA LockInitInv == LockInit => LockInv
<1>. SUFFICES ASSUME LockInit PROVE LockInv
  OBVIOUS
<1>1. LockTypeOK
  BY DEF LockInit, LockTypeOK
<1>2. \A a \in Actors : HeldBy(a) = {} /\ left[a] = <<>>
  BY FreeAssumption DEF LockInit, HeldBy
<1>3. Safe(<<>>, {})
  BY SafeEnd
<1>4. Thread \in Actors /\ <<>> \in Seq(ThreadOps)
  BY DEF Actors
<1>. QED BY <1>1, <1>2, <1>3, <1>4 DEF LockInv

(* A request starts, takes, drops or joins as its program says. *)
LEMMA LockNextInv ==
  ASSUME Kinds \subseteq OrderedKinds, LockInv, [LockNext]_lockVars
  PROVE  LockInv'
<1>0. /\ \A a \in Actors : left[a] \in Seq(Ops) /\ HeldBy(a) \in SUBSET Mutexes
      /\ \A a \in Actors : Safe(left[a], HeldBy(a))
      /\ Thread \in Actors /\ left[Thread] \in Seq(ThreadOps)
      /\ left \in [Actors -> Seq(Ops)] /\ holder \in [Mutexes -> Actors \cup {Free}]
  BY DEF LockInv, LockTypeOK, HeldBy, Actors
<1>1. ASSUME NEW a \in Actors, Start(a) PROVE LockInv'
  <2>1. PICK kind \in IF a = Thread THEN {"thread"} ELSE Kinds :
          left' = [left EXCEPT ![a] = Program(kind)]
    BY <1>1 DEF Start
  <2>2. kind \in OrderedKinds \cup {"thread"}
    BY <2>1
  <2>3. Program(kind) \in Seq(Ops) /\ Safe(Program(kind), {})
    BY <2>2, ProgramsRun, SafeProgram
  <2>4. HeldBy(a) = {}
    BY <1>0, <1>1, SafeEnd DEF Start
  <2>5. \A b \in Actors : HeldBy(b)' = HeldBy(b)
    BY <1>1 DEF Start, HeldBy
  <2>6. LockTypeOK'
    BY <1>0, <1>1, <2>1, <2>3 DEF Start, LockTypeOK
  <2>7. \A b \in Actors : Safe(left'[b], HeldBy(b)')
    BY <1>0, <2>1, <2>3, <2>4, <2>5
  <2>8. left'[Thread] \in Seq(ThreadOps)
    <3>1. CASE a = Thread
      <4>1. Program(kind) = comms_run
        BY <2>1, <3>1 DEF Program
      <4>. QED BY <1>0, <2>1, <3>1, <4>1, ThreadProgram
    <3>2. CASE a # Thread
      BY <1>0, <2>1, <3>2
    <3>. QED BY <3>1, <3>2
  <2>. QED BY <2>6, <2>7, <2>8 DEF LockInv
<1>2. ASSUME NEW a \in Actors, left[a] # <<>>, Advance(a),
             holder' \in [Mutexes -> Actors \cup {Free}],
             HeldBy(a)' = After(Head(left[a]), HeldBy(a)),
             \A b \in Actors : b # a => HeldBy(b)' = HeldBy(b)
      PROVE  LockInv'
  <2>1. /\ Tail(left[a]) \in Seq(Ops)
        /\ Safe(Tail(left[a]), After(Head(left[a]), HeldBy(a)))
    BY <1>0, <1>2, SafeStep, HeadTailProperties
  <2>2. left' = [left EXCEPT ![a] = Tail(left[a])]
    BY <1>2 DEF Advance
  <2>3. left'[a] = Tail(left[a]) /\ \A b \in Actors : b # a => left'[b] = left[b]
    BY <1>0, <2>2
  <2>4. LockTypeOK'
    BY <1>0, <1>2, <2>1, <2>2 DEF LockTypeOK
  <2>5. \A b \in Actors : Safe(left'[b], HeldBy(b)')
    BY <1>0, <1>2, <2>1, <2>3
  <2>6. left'[Thread] \in Seq(ThreadOps)
    BY <1>0, <1>2, <2>3, HeadTailProperties
  <2>. QED BY <2>4, <2>5, <2>6 DEF LockInv
<1>3. ASSUME NEW a \in Actors, Take(a) PROVE LockInv'
  <2>1. /\ left[a] # <<>> /\ Head(left[a]).do = "take" /\ Advance(a)
        /\ holder[Head(left[a]).of] = Free
        /\ holder' = [holder EXCEPT ![Head(left[a]).of] = a]
    BY <1>3 DEF Take, Doing
  <2>2. Head(left[a]) \in Ops /\ Head(left[a]).of \in Mutexes
    <3>1. Head(left[a]) \in Ops
      BY <1>0, <2>1, HeadTailProperties
    <3>. QED BY <3>1 DEF Ops
  <2>3. HeldBy(a)' = After(Head(left[a]), HeldBy(a))
    BY <1>0, <2>1, <2>2 DEF HeldBy, After
  <2>4. \A b \in Actors : b # a => HeldBy(b)' = HeldBy(b)
    BY <1>0, <2>1, <2>2, FreeAssumption DEF HeldBy
  <2>5. holder' \in [Mutexes -> Actors \cup {Free}]
    BY <1>0, <2>1
  <2>. QED BY <1>2, <2>1, <2>3, <2>4, <2>5
<1>4. ASSUME NEW a \in Actors, Drop(a) PROVE LockInv'
  <2>1. /\ left[a] # <<>> /\ Head(left[a]).do = "drop" /\ Advance(a)
        /\ holder' = [holder EXCEPT ![Head(left[a]).of] = Free]
    BY <1>4 DEF Drop, Doing
  <2>2. Head(left[a]) \in Ops /\ Head(left[a]).of \in HeldBy(a)
    BY <1>0, <2>1, SafeStep, HeadTailProperties DEF Allowed
  <2>3. HeldBy(a)' = After(Head(left[a]), HeldBy(a))
    BY <1>0, <2>1, <2>2, FreeAssumption DEF HeldBy, After
  <2>4. \A b \in Actors : b # a => HeldBy(b)' = HeldBy(b)
    BY <1>0, <2>1, <2>2, FreeAssumption DEF HeldBy
  <2>5. holder' \in [Mutexes -> Actors \cup {Free}]
    BY <1>0, <2>1
  <2>. QED BY <1>2, <2>1, <2>3, <2>4, <2>5
<1>5. ASSUME NEW a \in Actors, Join(a) PROVE LockInv'
  <2>1. left[a] # <<>> /\ Head(left[a]).do = "join" /\ Advance(a) /\ holder' = holder
    BY <1>5 DEF Join, Doing
  <2>2. \A b \in Actors : HeldBy(b)' = HeldBy(b)
    BY <2>1 DEF HeldBy
  <2>3. HeldBy(a)' = After(Head(left[a]), HeldBy(a))
    BY <2>1, <2>2 DEF After
  <2>. QED BY <1>0, <1>2, <2>1, <2>2, <2>3
<1>6. ASSUME UNCHANGED lockVars PROVE LockInv'
  BY <1>6 DEF lockVars, LockInv, LockTypeOK, HeldBy
<1>. QED BY <1>1, <1>3, <1>4, <1>5, <1>6 DEF LockNext

-----------------------------------------------------------------------------
(* No circle.                                                              *)

(* How far up an actor waits; one that does not wait is at the top. *)
Level(a) == IF left[a] = <<>> \/ Head(left[a]).do = "drop" THEN 5
            ELSE IF Head(left[a]).do = "join" THEN JoinRank
            ELSE Rank(Head(left[a]).of)

(* Whoever waits, waits for one further up. *)
LEMMA WaitsUp ==
  ASSUME LockInv, NEW a \in Actors, NEW b \in Actors, Waits(a, b)
  PROVE  Level(a) < Level(b)
<1>0. /\ left[a] \in Seq(Ops) /\ left[b] \in Seq(Ops) /\ HeldBy(b) \in SUBSET Mutexes
      /\ Safe(left[b], HeldBy(b)) /\ left[Thread] \in Seq(ThreadOps)
      /\ left[a] # <<>>
  BY DEF LockInv, LockTypeOK, HeldBy, Waits, Doing
<1>1. Head(left[a]) \in Ops
  BY <1>0, HeadTailProperties
<1>2. CASE Doing(a, "take") /\ holder[Head(left[a]).of] = b
  <2>1. Head(left[a]).of \in HeldBy(b)
    BY <1>1, <1>2 DEF HeldBy, Ops
  <2>2. left[b] # <<>>
    BY <1>0, <2>1, SafeEnd
  <2>3. Head(left[b]) \in Ops /\ Allowed(Head(left[b]), HeldBy(b))
    BY <1>0, <2>2, SafeStep, HeadTailProperties
  <2>4. Level(a) = Rank(Head(left[a]).of) /\ Level(a) < 5
    BY <1>0, <1>2 DEF Level, Doing, Rank
  <2>5. Level(b) = 5 \/ Rank(Head(left[a]).of) < Level(b)
    BY <2>1, <2>3 DEF Level, Allowed, Ops
  <2>. QED BY <2>4, <2>5
<1>3. CASE Doing(a, "join") /\ b = Thread /\ left[b] # <<>>
  <2>1. Level(a) = 2
    BY <1>0, <1>3 DEF Level, Doing, JoinRank
  <2>2. Head(left[b]) \in ThreadOps
    BY <1>0, <1>3, HeadTailProperties
  <2>3. Level(b) \in {3, 4, 5}
    BY <1>3, <2>2 DEF Level, ThreadOps, Rank
  <2>. QED BY <2>1, <2>3
<1>. QED BY <1>2, <1>3 DEF Waits

(* In every set of actors, one that is furthest up waits for none of them. *)
LEMMA NoCircle == LockInv => NoCircularWait
<1>. SUFFICES ASSUME LockInv, NEW S \in SUBSET Actors, S # {}
              PROVE  \E a \in S : \A b \in S : ~Waits(a, b)
  BY DEF NoCircularWait
<1>1. \A a \in Actors : Level(a) \in 1 .. 5
  <2>. SUFFICES ASSUME NEW a \in Actors PROVE Level(a) \in 1 .. 5
    OBVIOUS
  <2>. QED BY DEF Level, Rank, JoinRank
<1>2. \E a \in S : \A b \in S : Level(b) <= Level(a)
  <2>1. \A a \in S : Level(a) \in {1, 2, 3, 4, 5}
    BY <1>1
  <2>. QED BY <2>1
<1>3. PICK a \in S : \A b \in S : Level(b) <= Level(a)
  BY <1>2
<1>4. ASSUME NEW b \in S, Waits(a, b) PROVE FALSE
  <2>1. Level(a) < Level(b)
    BY <1>4, WaitsUp
  <2>. QED BY <1>1, <1>3, <2>1
<1>. QED BY <1>3, <1>4

(* LockInv holds in every reachable state. *)
THEOREM LocksInductive ==
  ASSUME Kinds \subseteq OrderedKinds
  PROVE  LockSpec => []LockInv
<1>1. LockInv /\ [LockNext]_lockVars => LockInv'
  BY LockNextInv
<1>. QED BY <1>1, LockInitInv, PTL DEF LockSpec

(* NoCircularWait, for any number of requests of the ordered kinds: the     *)
(* header of comms.rs (see HandlerLocks).  msq_diff is left out: with it    *)
(* the property is false.                                                   *)
THEOREM NoCircularWaitHolds ==
  ASSUME Kinds \subseteq OrderedKinds
  PROVE  LockSpec => []NoCircularWait
BY LocksInductive, NoCircle, PTL
=============================================================================
