---------------------------- MODULE SerialProofs ----------------------------
(***************************************************************************)
(* Proofs about what goes over the serial line: calibrations (Calibration) *)
(* and the two decoders (Wire); and about the monitor of the comms thread  *)
(* that watches the frames for an engine that stopped (EngineShutdown).    *)
(***************************************************************************)
EXTENDS Calibration, Wire, EngineShutdown, SequenceTheorems, WellFoundedInduction, TLAPS

-----------------------------------------------------------------------------
(* Calibration: the table.                                                 *)

(* RoundNear is the nearest integer: half a unit off at most. *)
LEMMA RoundNearFacts ==
  ASSUME NEW a \in Int, NEW b \in Nat \ {0}
  PROVE  /\ RoundNear(a, b) \in Int
         /\ 2 * (RoundNear(a, b) * b - a) <= b
         /\ -(2 * (RoundNear(a, b) * b - a)) <= b
<1>1. ASSUME NEW x \in Int
      PROVE  /\ x \div (2 * b) \in Int
             /\ (2 * b) * (x \div (2 * b)) <= x /\ x < (2 * b) * (x \div (2 * b)) + 2 * b
  OBVIOUS
<1>2. CASE a >= 0
  <2>. DEFINE x == 2 * a + b
              q == x \div (2 * b)
  <2>0. x \in Int
    OBVIOUS
  <2>. HIDE DEF x
  <2>1. q \in Int /\ (2 * b) * q <= x /\ x < (2 * b) * q + 2 * b
    BY <1>1, <2>0
  <2>2. RoundNear(a, b) = q
    BY <1>2 DEF RoundNear, x
  <2>. HIDE DEF q
  <2>. QED BY <2>1, <2>2 DEF x
<1>3. CASE ~(a >= 0)
  <2>. DEFINE x == b - 2 * a
              q == x \div (2 * b)
  <2>0. x \in Int
    OBVIOUS
  <2>. HIDE DEF x
  <2>1. q \in Int /\ (2 * b) * q <= x /\ x < (2 * b) * q + 2 * b
    BY <1>1, <2>0
  <2>2. RoundNear(a, b) = -q
    BY <1>3 DEF RoundNear, x
  <2>. HIDE DEF q
  <2>. QED BY <2>1, <2>2 DEF x
<1>. QED BY <1>2, <1>3

(* Linear::table: every entry of a line that was accepted is the nearest. *)
LEMMA TableNear ==
  ASSUME NEW l \in Lines, Acceptable(l), NEW adc \in 0 .. AdcCount - 1
  PROVE  LET m == Meant(l)
             off == Table(l)[adc + 1] * Den(m) - AfrAt(m, adc) * AfrScale
         IN 2 * off <= Den(m) /\ -(2 * off) <= Den(m)
<1>. DEFINE m == Meant(l)
<1>1. m.vl \in Int /\ m.vh \in Int /\ m.al \in Int /\ m.ah \in Int /\ m.vl < m.vh
  BY LineAssumption DEF Acceptable, Valid, Meant
<1>. HIDE DEF m
<1>2. Den(m) \in Nat \ {0}
  BY <1>1, CalibrationAssumption DEF Den
<1>3. AfrAt(m, adc) \in Int /\ AfrAt(m, adc) * AfrScale \in Int
  BY <1>1, <1>2, CalibrationAssumption DEF AfrAt
<1>4. Table(l)[adc + 1] = RoundNear(AfrAt(m, adc) * AfrScale, Den(m))
  <2>1. adc + 1 \in 1 .. AdcCount /\ (adc + 1) - 1 = adc
    BY CalibrationAssumption
  <2>2. Table(l)[adc + 1] = EncodedAt(Meant(l), (adc + 1) - 1)
    BY <2>1 DEF Table
  <2>. QED BY <2>1, <2>2 DEF EncodedAt, m
<1>5. LET off == Table(l)[adc + 1] * Den(m) - AfrAt(m, adc) * AfrScale
      IN 2 * off <= Den(m) /\ -(2 * off) <= Den(m)
  BY <1>2, <1>3, <1>4, RoundNearFacts
<1>. QED BY <1>5 DEF m

-----------------------------------------------------------------------------
(* Calibration: the transfer.                                              *)

Tables == [1 .. AdcCount -> 0 .. 255]
Answers == [kind : {"frame", "ack", "crc", "refused"}, v : Tables \cup {0, 1} \cup {<<>>}]

(* The types of the variables: every entry of a table is a byte, and no more *)
(* answers are late than there may be.                                       *)
CalTypeOK ==
  /\ table \in Tables /\ data \in Tables
  /\ speed \in {0, 1} /\ session \in BOOLEAN
  /\ pending \in Seq(Answers) /\ Len(pending) <= MaxLate
  /\ phase \in {"idle", "check", "write", "crc"} /\ chunk \in Nat
  /\ asked \in Lines
  /\ told \in {"none", "waiting", "refused", "ok", "error", "timeout"}
  /\ swamped \in BOOLEAN

(* A transfer takes one answer off the line with each request it goes on    *)
(* from, so a checksum that was late when it began has been taken before    *)
(* its own is due, unless more answers were late than requests came first.  *)
LateInv ==
  /\ phase \in {"idle", "check"} => chunk = 1
  /\ ~swamped =>
       \A i \in 1 .. Len(pending) : pending[i].kind = "crc" =>
         /\ phase = "check" => i <= Chunks + 1
         /\ phase = "write" => i + chunk <= Chunks + 1
         /\ phase = "crc" => i + Chunks + 1 <= Chunks + 1

(* A transfer is of the table asked for; once it is reported done the ECU   *)
(* holds that table, unless it was swamped.                                 *)
AskInv ==
  /\ phase # "idle" => /\ told \in {"waiting", "timeout"}
                       /\ Acceptable(asked) /\ data = Table(asked)
  /\ told = "ok" => /\ Acceptable(asked) /\ data = Table(asked)
                    /\ phase = "idle" /\ (~swamped => table = data)

CalInv == CalTypeOK /\ LateInv /\ AskInv

(* The table of a line that was accepted holds bytes. *)
LEMMA TableTyped ==
  ASSUME NEW l \in Lines, Acceptable(l)
  PROVE  Table(l) \in Tables
<1>1. \A i \in 1 .. AdcCount : i - 1 \in 0 .. AdcCount - 1
  BY CalibrationAssumption
<1>. QED BY <1>1 DEF Acceptable, Encodable, Table, Tables

(* The queue of answers with one more, and without its first. *)
LEMMA QueueFacts ==
  ASSUME NEW q \in Seq(Answers), NEW a \in Answers, NEW more \in BOOLEAN
  PROVE  LET all == IF more THEN Append(q, a) ELSE q
         IN /\ all \in Seq(Answers) /\ Len(all) <= Len(q) + 1
            /\ \A i \in 1 .. Len(all) : all[i] = a \/ (i \in 1 .. Len(q) /\ all[i] = q[i])
            /\ all # <<>> => /\ Head(all) = all[1] /\ Len(all) >= 1
                             /\ Tail(all) \in Seq(Answers)
                             /\ Len(Tail(all)) = Len(all) - 1
                             /\ \A i \in 1 .. Len(Tail(all)) : Tail(all)[i] = all[i + 1]
<1>1. CASE more
  <2>1. /\ Append(q, a) \in Seq(Answers) /\ Len(Append(q, a)) = Len(q) + 1
        /\ \A i \in 1 .. Len(q) : Append(q, a)[i] = q[i]
        /\ Append(q, a)[Len(q) + 1] = a
    BY AppendProperties
  <2>2. \A i \in 1 .. Len(q) + 1 :
          Append(q, a)[i] = a \/ (i \in 1 .. Len(q) /\ Append(q, a)[i] = q[i])
    BY <2>1
  <2>. QED BY <1>1, <2>1, <2>2
<1>2. CASE ~more
  BY <1>2
<1>. QED BY <1>1, <1>2

(* An answer that satisfies the caller was taken, and the others moved up. *)
Took(answer) == \/ Satisfies(answer)
                \/ Satisfies(Answer("refused", <<>>))
                \/ pending # <<>> /\ Satisfies(pending[1])
MovedUp(answer) ==
  \A i \in 1 .. Len(pending') :
    \/ pending'[i] \in {answer, Answer("refused", <<>>)}
    \/ i + 1 \in 1 .. Len(pending) /\ pending'[i] = pending[i + 1]

(* What an exchange leaves on the line, and when the caller goes on. *)
LEMMA ExchangeFacts ==
  ASSUME CalTypeOK, NEW effect, NEW answer \in Answers, NEW ACTION Then, NEW ACTION Else,
         Exchange(effect, answer, Then, Else)
  PROVE  /\ pending' \in Seq(Answers) /\ Len(pending') <= MaxLate
         /\ table' = effect \/ table' = table
         /\ Else \/ (Then /\ MovedUp(answer) /\ Took(answer))
<1>1. PICK served, answered, mangled, dropped \in BOOLEAN :
        LET a   == IF served THEN answer ELSE Answer("refused", <<>>)
            all == IF answered THEN Append(pending, a) ELSE pending
        IN /\ table' = IF served THEN effect ELSE table
           /\ \/ /\ Len(all) <= MaxLate
                 /\ pending' = all /\ Else
              \/ /\ all # <<>> /\ mangled
                 /\ pending' = <<>> /\ Else
              \/ /\ all # <<>> /\ ~mangled
                 /\ pending' = IF dropped THEN <<>> ELSE Tail(all)
                 /\ IF Satisfies(Head(all)) THEN Then ELSE Else
  BY DEF Exchange
<1>. DEFINE a   == IF served THEN answer ELSE Answer("refused", <<>>)
            all == IF answered THEN Append(pending, a) ELSE pending
<1>2. a \in Answers /\ a \in {answer, Answer("refused", <<>>)}
  BY DEF Answer, Answers
<1>3. pending \in Seq(Answers) /\ Len(pending) <= MaxLate /\ Len(pending) \in Nat
      /\ MaxLate \in Nat
  BY CalibrationAssumption DEF CalTypeOK
<1>. HIDE DEF a
<1>4. /\ all \in Seq(Answers) /\ Len(all) <= Len(pending) + 1
      /\ \A i \in 1 .. Len(all) :
           all[i] = a \/ (i \in 1 .. Len(pending) /\ all[i] = pending[i])
      /\ all # <<>> => /\ Head(all) = all[1] /\ Len(all) >= 1
                       /\ Tail(all) \in Seq(Answers)
                       /\ Len(Tail(all)) = Len(all) - 1
                       /\ \A i \in 1 .. Len(Tail(all)) : Tail(all)[i] = all[i + 1]
  BY <1>2, <1>3, QueueFacts
<1>5. /\ table' = IF served THEN effect ELSE table
      /\ \/ /\ Len(all) <= MaxLate
            /\ pending' = all /\ Else
         \/ /\ all # <<>> /\ mangled
            /\ pending' = <<>> /\ Else
         \/ /\ all # <<>> /\ ~mangled
            /\ pending' = IF dropped THEN <<>> ELSE Tail(all)
            /\ IF Satisfies(Head(all)) THEN Then ELSE Else
  BY <1>1 DEF a
<1>. HIDE DEF all
<1>6. CASE Len(all) <= MaxLate /\ pending' = all /\ Else
  BY <1>4, <1>5, <1>6
<1>7. CASE pending' = <<>> /\ Else
  BY <1>3, <1>5, <1>7
<1>8. CASE /\ all # <<>>
           /\ pending' = IF dropped THEN <<>> ELSE Tail(all)
           /\ IF Satisfies(Head(all)) THEN Then ELSE Else
  <2>1. pending' \in Seq(Answers) /\ Len(pending') <= MaxLate
    BY <1>3, <1>4, <1>8
  <2>2. ASSUME NEW i \in 1 .. Len(pending')
        PROVE  \/ pending'[i] \in {answer, Answer("refused", <<>>)}
               \/ i + 1 \in 1 .. Len(pending) /\ pending'[i] = pending[i + 1]
    <3>1. pending' = Tail(all)
      BY <1>8, <2>2
    <3>2. pending'[i] = all[i + 1] /\ i + 1 \in 1 .. Len(all)
      BY <1>4, <1>8, <3>1
    <3>. QED BY <1>2, <1>4, <3>2
  <2>3. CASE Satisfies(Head(all)) /\ Then
    <3>1. Head(all) = a \/ (1 \in 1 .. Len(pending) /\ Head(all) = pending[1])
      BY <1>4, <1>8
    <3>2. \/ Satisfies(answer)
          \/ Satisfies(Answer("refused", <<>>))
          \/ pending # <<>> /\ Satisfies(pending[1])
      <4>1. CASE Head(all) = a
        BY <1>2, <2>3, <4>1
      <4>2. CASE 1 \in 1 .. Len(pending) /\ Head(all) = pending[1]
        BY <1>3, <2>3, <4>2
      <4>. QED BY <3>1, <4>1, <4>2
    <3>3. MovedUp(answer) /\ Took(answer)
      BY <2>2, <3>2 DEF MovedUp, Took
    <3>. QED BY <1>5, <2>1, <2>3, <3>3
  <2>4. CASE Else
    BY <1>5, <2>1, <2>4
  <2>. QED BY <1>8, <2>3, <2>4
<1>. QED BY <1>5, <1>6, <1>7, <1>8

(* At first nothing is asked for, and the line is empty. *)
LEMMA CalInitInv == CalInit => CalInv
<1>. SUFFICES ASSUME CalInit PROVE CalInv
  OBVIOUS
<1>0. Factory \in Tables /\ MaxLate \in Nat
  BY LineAssumption, CalibrationAssumption DEF Tables
<1>3. <<>> \in Seq(Answers) /\ Len(<<>>) = 0
  OBVIOUS
<1>4. session \in BOOLEAN /\ swamped \in BOOLEAN
  BY Zenon DEF CalInit
<1>1. CalTypeOK
  BY <1>0, <1>3, <1>4 DEF CalInit, CalTypeOK
<1>2. LateInv /\ AskInv
  BY DEF CalInit, LateInv, AskInv
<1>. QED BY <1>1, <1>2 DEF CalInv

(* A transfer that ends, whatever it reports but success, and the requests  *)
(* made while none runs, keep the invariant.                                *)
LEMMA RestsKeep ==
  ASSUME CalInv, pending' \in Seq(Answers), Len(pending') <= MaxLate,
         table' \in Tables, UNCHANGED <<speed, session, asked, data, swamped>>,
         phase' = "idle", chunk' = 1,
         told' \in {told, "error"}, told' = "ok" => table' = table
  PROVE  CalInv'
<1>1. CalTypeOK'
  BY DEF CalInv, CalTypeOK
<1>2. LateInv'
  BY DEF LateInv
<1>3. AskInv'
  BY DEF CalInv, AskInv
<1>. QED BY <1>1, <1>2, <1>3 DEF CalInv

(* Each step of the thread, the clients and the engine keeps the invariant. *)
LEMMA CalNextInv == CalInv /\ [CalNext]_calVars => CalInv'
<1>. SUFFICES ASSUME CalInv, [CalNext]_calVars PROVE CalInv'
  OBVIOUS
<1>0. /\ CalTypeOK /\ LateInv /\ AskInv
      /\ table \in Tables /\ data \in Tables /\ speed \in {0, 1} /\ chunk \in Nat
      /\ Chunks \in Int /\ MaxLate \in Nat /\ swamped \in BOOLEAN
      /\ Len(pending) \in Nat
  BY CalibrationAssumption DEF CalInv, CalTypeOK, Chunks
<1>1. /\ Answer("frame", speed) \in Answers /\ Answer("ack", <<>>) \in Answers
      /\ Answer("crc", table) \in Answers
      /\ Answer("frame", speed).kind # "crc" /\ Answer("ack", <<>>).kind # "crc"
      /\ Answer("refused", <<>>).kind = "refused"
      /\ Answer("crc", table).v = table
  BY <1>0 DEF Answer, Answers
<1>2. CASE Poll \/ afr_calibration
  <2>1. /\ phase = "idle" /\ UNCHANGED <<speed, session, chunk, asked, data, told, swamped>>
        /\ \/ Exchange(table, Answer("frame", speed), UNCHANGED phase, UNCHANGED phase)
           \/ Exchange(table, Answer("crc", table), UNCHANGED phase, UNCHANGED phase)
    BY <1>2 DEF Poll, afr_calibration
  <2>2. /\ pending' \in Seq(Answers) /\ Len(pending') <= MaxLate
        /\ table' = table /\ phase' = phase
    BY <1>0, <1>1, <2>1, ExchangeFacts
  <2>. QED BY <1>0, <2>1, <2>2, RestsKeep DEF LateInv
<1>3. CASE afr_calibration_write
  <2>1. PICK l \in Lines :
          /\ asked' = l
          /\ IF Acceptable(l)
               THEN /\ data' = Table(l) /\ phase' = "check" /\ told' = "waiting"
                    /\ swamped' = (Len(pending) > Chunks + 1)
               ELSE told' = "refused" /\ UNCHANGED <<data, phase, swamped>>
    BY <1>3 DEF afr_calibration_write
  <2>2. phase = "idle" /\ UNCHANGED <<table, speed, session, pending, chunk>>
    BY <1>3 DEF afr_calibration_write
  <2>3. CASE Acceptable(l)
    <3>0. swamped' \in BOOLEAN
      <4>. DEFINE late == Len(pending) > Chunks + 1
      <4>1. swamped' = late
        BY <2>1, <2>3
      <4>2. late \in BOOLEAN
        OBVIOUS
      <4>. HIDE DEF late
      <4>. QED BY <4>1, <4>2, Zenon
    <3>1. CalTypeOK'
      <4>1. /\ table' \in Tables /\ data' \in Tables
            /\ pending' \in Seq(Answers) /\ Len(pending') <= MaxLate
            /\ chunk' \in Nat /\ asked' \in Lines /\ phase' = "check" /\ told' = "waiting"
        BY <1>0, <2>1, <2>2, <2>3, TableTyped DEF CalTypeOK
      <4>2. speed' \in {0, 1} /\ session' \in BOOLEAN
        BY <1>0, <2>2 DEF CalTypeOK
      <4>. QED BY <3>0, <4>1, <4>2, Zenon DEF CalTypeOK
    <3>2. LateInv'
      <4>1. ASSUME ~swamped' PROVE Len(pending) <= Chunks + 1
        <5>. DEFINE late == Len(pending) > Chunks + 1
        <5>1. swamped' = late
          BY <2>1, <2>3
        <5>. HIDE DEF late
        <5>2. ~late
          BY <4>1, <5>1, Zenon
        <5>. QED BY <1>0, <5>2 DEF late
      <4>2. phase' = "check" /\ chunk' = 1 /\ pending' = pending
        BY <1>0, <2>1, <2>2, <2>3 DEF LateInv
      <4>. QED BY <1>0, <4>1, <4>2 DEF LateInv
    <3>3. AskInv'
      BY <2>1, <2>2, <2>3 DEF AskInv
    <3>. QED BY <3>1, <3>2, <3>3 DEF CalInv
  <2>4. CASE ~Acceptable(l)
    <3>1. CalTypeOK'
      BY <1>0, <2>1, <2>2, <2>4 DEF CalTypeOK
    <3>2. LateInv'
      BY <1>0, <2>1, <2>2, <2>4 DEF LateInv
    <3>3. AskInv'
      BY <1>0, <2>1, <2>2, <2>4 DEF AskInv
    <3>. QED BY <3>1, <3>2, <3>3 DEF CalInv
  <2>. QED BY <2>3, <2>4
<1>4. CASE Check
  <2>1. /\ phase = "check" /\ UNCHANGED <<speed, session, asked, data, swamped>>
        /\ Exchange(table, Answer("frame", speed), GoTo("write"), Done("error"))
    BY <1>4 DEF Check
  <2>2. /\ pending' \in Seq(Answers) /\ Len(pending') <= MaxLate /\ table' = table
        /\ Done("error") \/ (GoTo("write") /\ MovedUp(Answer("frame", speed)))
    BY <1>0, <1>1, <2>1, ExchangeFacts
  <2>3. CASE Done("error")
    BY <1>0, <2>1, <2>2, <2>3, RestsKeep DEF Done
  <2>4. CASE GoTo("write") /\ MovedUp(Answer("frame", speed))
    <3>1. phase' = "write" /\ chunk' = chunk /\ told' = told /\ chunk = 1
      BY <1>0, <2>1, <2>4 DEF GoTo, LateInv
    <3>2. CalTypeOK'
      BY <1>0, <2>1, <2>2, <3>1 DEF CalTypeOK
    <3>3. LateInv'
      <4>1. ASSUME NEW i \in 1 .. Len(pending'), pending'[i].kind = "crc"
            PROVE  i + 1 \in 1 .. Len(pending) /\ pending[i + 1].kind = "crc"
        BY <1>1, <2>4, <4>1 DEF MovedUp
      <4>2. ASSUME ~swamped, NEW i \in 1 .. Len(pending'), pending'[i].kind = "crc"
            PROVE  i + 1 <= Chunks + 1
        BY <1>0, <2>1, <4>1, <4>2 DEF LateInv
      <4>. QED BY <2>1, <3>1, <4>2 DEF LateInv
    <3>4. AskInv'
      BY <1>0, <2>1, <2>2, <3>1 DEF AskInv
    <3>. QED BY <3>2, <3>3, <3>4 DEF CalInv
  <2>. QED BY <2>2, <2>3, <2>4
<1>5. CASE WriteChunk
  <2>. DEFINE Goes == /\ chunk' = chunk + 1
                      /\ phase' = IF chunk = Chunks THEN "crc" ELSE "write"
                      /\ UNCHANGED told
  <2>1. /\ phase = "write" /\ UNCHANGED <<speed, session, asked, data, swamped>>
        /\ Exchange(Stored(chunk), Answer("ack", <<>>), Goes, Done("error"))
    BY <1>5 DEF WriteChunk
  <2>2. Stored(chunk) \in Tables
    BY <1>0 DEF Stored, Tables
  <2>. HIDE DEF Goes
  <2>3. /\ pending' \in Seq(Answers) /\ Len(pending') <= MaxLate
        /\ table' = Stored(chunk) \/ table' = table
        /\ Done("error") \/ (Goes /\ MovedUp(Answer("ack", <<>>)))
    BY <1>0, <1>1, <2>1, ExchangeFacts
  <2>4. table' \in Tables /\ told # "ok"
    BY <1>0, <2>1, <2>2, <2>3 DEF AskInv
  <2>5. CASE Done("error")
    BY <1>0, <2>1, <2>3, <2>4, <2>5, RestsKeep DEF Done
  <2>6. CASE Goes /\ MovedUp(Answer("ack", <<>>))
    <3>1. /\ chunk' = chunk + 1 /\ told' = told
          /\ phase' = IF chunk = Chunks THEN "crc" ELSE "write"
      BY <2>6 DEF Goes
    <3>2. CalTypeOK'
      BY <1>0, <2>1, <2>3, <2>4, <3>1 DEF CalTypeOK
    <3>3. LateInv'
      <4>1. ASSUME ~swamped, NEW i \in 1 .. Len(pending'), pending'[i].kind = "crc"
            PROVE  i + chunk + 1 <= Chunks + 1
        <5>1. i + 1 \in 1 .. Len(pending) /\ pending[i + 1].kind = "crc"
          BY <1>1, <2>6, <4>1 DEF MovedUp
        <5>2. i + 1 + chunk <= Chunks + 1
          BY <1>0, <2>1, <4>1, <5>1 DEF LateInv
        <5>. QED BY <1>0, <5>2
      <4>. QED BY <1>0, <2>1, <3>1, <4>1 DEF LateInv
    <3>4. AskInv'
      BY <1>0, <2>1, <2>4, <3>1 DEF AskInv
    <3>. QED BY <3>2, <3>3, <3>4 DEF CalInv
  <2>. QED BY <2>3, <2>5, <2>6
<1>6. CASE Verify
  <2>1. /\ phase = "crc" /\ UNCHANGED <<speed, session, asked, data, swamped>>
        /\ Exchange(table, Answer("crc", table), Done("ok"), Done("error"))
    BY <1>6 DEF Verify
  <2>2. /\ pending' \in Seq(Answers) /\ Len(pending') <= MaxLate /\ table' = table
        /\ Done("error") \/ (Done("ok") /\ Took(Answer("crc", table)))
    BY <1>0, <1>1, <2>1, ExchangeFacts
  <2>3. CASE Done("error")
    BY <1>0, <2>1, <2>2, <2>3, RestsKeep DEF Done
  <2>4. CASE Done("ok") /\ Took(Answer("crc", table))
    <3>1. ~swamped /\ pending # <<>> => pending[1].kind # "crc"
      BY <1>0, <2>1 DEF LateInv, CalTypeOK
    <3>2. ~swamped => table = data
      BY <1>1, <2>1, <2>4, <3>1 DEF Took, Satisfies, CrcMatches
    <3>3. phase' = "idle" /\ chunk' = 1 /\ told' \in {told, "ok"}
      BY <2>4 DEF Done
    <3>4. CalTypeOK'
      BY <1>0, <2>1, <2>2, <3>3 DEF CalTypeOK
    <3>5. LateInv'
      BY <3>3 DEF LateInv
    <3>6. AskInv'
      BY <1>0, <2>1, <2>2, <3>2, <3>3 DEF AskInv
    <3>. QED BY <3>4, <3>5, <3>6 DEF CalInv
  <2>. QED BY <2>2, <2>3, <2>4
<1>7. CASE GivesUp
  BY <1>7 DEF GivesUp, CalInv, CalTypeOK, LateInv, AskInv
<1>8. CASE EngineTurns
  BY <1>8 DEF EngineTurns, CalInv, CalTypeOK, LateInv, AskInv
<1>9. CASE Reconnect
  <2>1. phase = "idle" /\ session' \in BOOLEAN /\ pending' = <<>>
        /\ UNCHANGED <<table, speed, phase, chunk, asked, data, told, swamped>>
    BY <1>9 DEF Reconnect
  <2>2. <<>> \in Seq(Answers) /\ Len(<<>>) = 0
    OBVIOUS
  <2>. QED BY <1>0, <2>1, <2>2 DEF CalInv, CalTypeOK, LateInv, AskInv
<1>10. CASE UNCHANGED calVars
  BY <1>10 DEF calVars, CalInv, CalTypeOK, LateInv, AskInv
<1>. QED BY <1>2, <1>3, <1>4, <1>5, <1>6, <1>7, <1>8, <1>9, <1>10 DEF CalNext

(* Type correctness of the calibration transfer: the ECU's table holds      *)
(* bytes, and the answers outstanding stay within MaxLate.                  *)
THEOREM CalTypeCorrect == CalSpec => []CalTypeOK
<1>1. CalInv => CalTypeOK
  BY DEF CalInv
<1>. QED BY <1>1, CalInitInv, CalNextInv, PTL DEF CalSpec

(* WrittenMeansHeld: a calibration reported written is in the ECU, every    *)
(* entry the nearest to the line asked for, for every table, blocking       *)
(* factor and number of late answers: only a transfer that began with more  *)
(* of them than it makes requests is excused (do_calibration).              *)
THEOREM WrittenMeansHeldAlways == CalSpec => []WrittenMeansHeld
<1>1. CalInv => WrittenMeansHeld
  <2>. SUFFICES ASSUME CalInv, told = "ok", ~swamped, NEW adc \in 0 .. AdcCount - 1
                PROVE LET l == Meant(asked)
                          off == table[adc + 1] * Den(l) - AfrAt(l, adc) * AfrScale
                      IN 2 * off <= Den(l) /\ -(2 * off) <= Den(l)
    BY DEF WrittenMeansHeld
  <2>1. table = Table(asked) /\ Acceptable(asked) /\ asked \in Lines
    BY DEF CalInv, AskInv, CalTypeOK
  <2>. QED BY <2>1, TableNear
<1>. QED BY <1>1, CalInitInv, CalNextInv, PTL DEF CalSpec

-----------------------------------------------------------------------------
(* Wire: facts about bytes.                                                *)

(* A nonempty set of naturals has a least element. *)
LEMMA LeastNat ==
  ASSUME NEW T \in SUBSET Nat, T # {}
  PROVE  \E x \in T : \A y \in T : x <= y
<1>1. IsWellFoundedOn(OpToRel(<, Nat), Nat)
  BY NatLessThanWellFounded
<1>2. PICK x \in T : \A y \in T : ~ (<<y, x>> \in OpToRel(<, Nat))
  BY <1>1, WFMin
<1>3. \A y \in T : ~(y < x)
  BY <1>2 DEF OpToRel
<1>. QED BY <1>3

(* Induction, over a set instead of a predicate. *)
LEMMA NatSetInduction ==
  ASSUME NEW P \in SUBSET Nat, 0 \in P, \A n \in P : n + 1 \in P
  PROVE  P = Nat
<1>. SUFFICES ASSUME Nat \ P # {} PROVE FALSE
  OBVIOUS
<1>1. PICK x \in Nat \ P : \A y \in Nat \ P : x <= y
  BY LeastNat
<1>2. x - 1 \in Nat /\ x - 1 \notin Nat \ P
  BY <1>1
<1>3. x - 1 + 1 \in P
  BY <1>2
<1>. QED BY <1>1, <1>3

(* First picks the least. *)
LEMMA FirstFacts ==
  ASSUME NEW S \in SUBSET Nat, NEW i \in S, \A j \in S : i <= j
  PROVE  First(S) = i
<1>1. \A k \in S : (\A j \in S : k <= j) => k = i
  OBVIOUS
<1>. QED BY <1>1 DEF First

(* One byte more. *)
LEMMA AppendFacts ==
  ASSUME NEW s \in Seq(Byte), NEW b \in Byte
  PROVE  /\ Append(s, b) \in Seq(Byte)
         /\ Len(s) \in Nat /\ Len(Append(s, b)) = Len(s) + 1
         /\ \A i \in 1 .. Len(s) : Append(s, b)[i] = s[i]
         /\ Append(s, b)[Len(s) + 1] = b
  BY AppendProperties, LenProperties

(* Two bytes make a header. *)
LEMMA AppendToOne ==
  ASSUME NEW a \in Byte, NEW b \in Byte
  PROVE  Append(<<a>>, b) = <<a, b>>
<1> DEFINE x == Append(<<a>>, b)
           y == <<a, b>>
<1>1. <<a>> \in Seq(Byte) /\ Len(<<a>>) = 1 /\ <<a>>[1] = a
  OBVIOUS
<1>2. x \in Seq(Byte) /\ Len(x) = 2 /\ x[1] = a /\ x[2] = b
  <2> DEFINE o == <<a>>
  <2>1. o \in Seq(Byte) /\ Len(o) = 1 /\ o[1] = a /\ 1 \in 1 .. Len(o)
    BY <1>1
  <2> HIDE DEF o
  <2>2. Append(o, b) \in Seq(Byte) /\ Len(Append(o, b)) = Len(o) + 1 /\ Append(o, b)[Len(o) + 1] = b
    BY <2>1, AppendFacts
  <2>3. Append(o, b)[1] = o[1]
    BY <2>1, AppendFacts
  <2>4. Len(o) + 1 = 2
    BY <2>1
  <2> QED
    BY <2>1, <2>2, <2>3, <2>4 DEF o
<1>3. y \in Seq(Byte) /\ Len(y) = 2 /\ y[1] = a /\ y[2] = b
  OBVIOUS
<1> HIDE DEF x, y
<1>4. \A i \in 1 .. 2 : x[i] = y[i]
  BY <1>2, <1>3
<1>5. x = y
  BY <1>2, <1>3, <1>4, SeqEqual
<1> QED
  BY <1>5 DEF x, y

(* u is what s holds after its first c bytes. *)
After(u, s, c) ==
  /\ u \in Seq(Byte) /\ c \in Nat /\ c <= Len(s) /\ Len(u) = Len(s) - c
  /\ \A k \in 1 .. Len(u) : u[k] = s[c + k]

(* A byte more on the line is a byte more of its rest. *)
LEMMA AfterGrows ==
  ASSUME NEW s \in Seq(Byte), NEW b \in Byte, NEW u, NEW c, After(u, s, c)
  PROVE  After(Append(u, b), Append(s, b), c)
<1>1. u \in Seq(Byte) /\ c \in Nat /\ c <= Len(s) /\ Len(u) = Len(s) - c
  BY DEF After
<1>2. \A k \in 1 .. Len(u) : u[k] = s[c + k]
  BY DEF After
<1> DEFINE v == Append(u, b)
           t == Append(s, b)
<1>3. /\ v \in Seq(Byte) /\ Len(u) \in Nat /\ Len(v) = Len(u) + 1
      /\ v[Len(u) + 1] = b
  BY <1>1, AppendFacts
<1>4. \A i \in 1 .. Len(u) : v[i] = u[i]
  BY <1>1, AppendFacts
<1>5. Len(s) \in Nat /\ Len(t) = Len(s) + 1 /\ t[Len(s) + 1] = b
  BY AppendFacts
<1>6. \A i \in 1 .. Len(s) : t[i] = s[i]
  BY AppendFacts
<1> HIDE DEF v, t
<1>7. ASSUME NEW k \in 1 .. Len(v) PROVE v[k] = t[c + k]
  <2>1. CASE k = Len(u) + 1
    <3>1. c + k = Len(s) + 1
      BY <2>1, <1>1, <1>3, <1>5
    <3> QED
      BY <2>1, <3>1, <1>3, <1>5
  <2>2. CASE k # Len(u) + 1
    <3>0. k \in Nat /\ 1 <= k /\ k <= Len(u)
      BY <2>2, <1>3, <1>7
    <3>1. k \in 1 .. Len(u) /\ c + k \in 1 .. Len(s)
      BY <3>0, <1>1, <1>5
    <3>2. v[k] = u[k] /\ u[k] = s[c + k]
      BY <3>1, <1>2, <1>4
    <3>3. t[c + k] = s[c + k]
      BY <3>1, <1>6
    <3> QED
      BY <3>2, <3>3
  <2> QED
    BY <2>1, <2>2
<1>8. c <= Len(t) /\ Len(v) = Len(t) - c
  BY <1>1, <1>3, <1>5
<1>9. After(v, t, c)
  BY <1>1, <1>3, <1>7, <1>8 DEF After
<1> QED
  BY <1>9 DEF v, t

(* A part of u is a part of s. *)
SamePart(u, s, c) ==
  \A m \in Nat \ {0}, n \in Nat : n <= Len(u) /\ m <= n + 1 =>
    SubSeq(u, m, n) = SubSeq(s, c + m, c + n)

LEMMA AfterPart ==
  ASSUME NEW s \in Seq(Byte), NEW u, NEW c, After(u, s, c)
  PROVE  SamePart(u, s, c)
<1> SUFFICES ASSUME NEW m \in Nat \ {0}, NEW n \in Nat, n <= Len(u), m <= n + 1
             PROVE  SubSeq(u, m, n) = SubSeq(s, c + m, c + n)
  BY DEF SamePart
<1>1. u \in Seq(Byte) /\ c \in Nat /\ c <= Len(s) /\ Len(u) = Len(s) - c /\ Len(s) \in Nat
  BY LenProperties DEF After
<1>2. \A k \in 1 .. Len(u) : u[k] = s[c + k]
  BY DEF After
<1>3. \A k \in m .. n : u[k] \in Byte
  BY <1>1, ElementOfSeq
<1>4. \A k \in c + m .. c + n : s[k] \in Byte
  BY <1>1, ElementOfSeq
<1> DEFINE x == SubSeq(u, m, n)
           y == SubSeq(s, c + m, c + n)
<1>5. /\ x \in Seq(Byte) /\ Len(x) = IF m <= n THEN n - m + 1 ELSE 0
      /\ \A i \in 1 .. n - m + 1 : x[i] = u[m + i - 1]
  BY <1>3, SubSeqProperties
<1>6. c + m \in Int /\ c + n \in Int
  BY <1>1
<1>7. /\ y \in Seq(Byte) /\ Len(y) = IF c + m <= c + n THEN (c + n) - (c + m) + 1 ELSE 0
      /\ \A i \in 1 .. (c + n) - (c + m) + 1 : y[i] = s[(c + m) + i - 1]
  BY <1>4, <1>6, SubSeqProperties
<1> HIDE DEF x, y
<1>8. Len(x) = n - m + 1 /\ Len(y) = n - m + 1 /\ (c + n) - (c + m) + 1 = n - m + 1
  BY <1>1, <1>5, <1>7
<1>9. ASSUME NEW i \in 1 .. n - m + 1 PROVE x[i] = y[i]
  <2>1. m + i - 1 \in 1 .. Len(u) /\ c + (m + i - 1) = (c + m) + i - 1
    BY <1>1, <1>9
  <2>2. x[i] = u[m + i - 1]
    BY <1>5, <1>9
  <2>3. y[i] = s[(c + m) + i - 1]
    BY <1>7, <1>8, <1>9
  <2>4. u[m + i - 1] = s[c + (m + i - 1)]
    BY <1>2, <2>1
  <2> QED
    BY <2>1, <2>2, <2>3, <2>4
<1>10. x = y
  BY <1>5, <1>7, <1>8, <1>9, SeqEqual
<1> QED
  BY <1>10 DEF x, y

(* The plausible lengths of a line, and of the line with one byte more. *)
LEMMA HeaderFacts ==
  ASSUME NEW s \in Seq(Byte), NEW b \in Byte
  PROVE  /\ Plausibles(s) \in SUBSET Nat
         /\ \A i \in Plausibles(s) : i \in 1 .. Len(s) - 1 /\ HeaderAt(s, i) \in Nat \ {0}
         /\ \A i \in Plausibles(s) : HeaderAt(Append(s, b), i) = HeaderAt(s, i)
         /\ Plausibles(s) \subseteq Plausibles(Append(s, b))
         /\ \A i \in Plausibles(Append(s, b)) : i \in Plausibles(s) \/ i = Len(s)
         /\ s # <<>> => /\ HeaderAt(Append(s, b), Len(s)) = Base * s[Len(s)] + b
                        /\ Base * s[Len(s)] + b \in Nat
                        /\ Len(s) \in Plausibles(Append(s, b)) <=>
                             Plausible(Base * s[Len(s)] + b)
<1> DEFINE t == Append(s, b)
<1>0. Base \in Nat \ {0} /\ \A x \in Byte : x \in Nat
  BY WireAssumption DEF Byte
<1>1. Len(s) \in Nat /\ Len(t) = Len(s) + 1 /\ t[Len(s) + 1] = b
  BY AppendFacts
<1>2. \A i \in 1 .. Len(s) : t[i] = s[i]
  BY AppendFacts
<1>3. \A i \in 1 .. Len(s) : s[i] \in Nat
  BY <1>0, ElementOfSeq
<1>4. s # <<>> => Len(s) >= 1
  BY <1>1, EmptySeq
<1>p. \A x, y \in Nat : Base * x + y \in Nat
  BY <1>0
<1> HIDE DEF t
<1>5. ASSUME NEW i \in 1 .. Len(s) - 1
      PROVE  HeaderAt(s, i) \in Nat /\ HeaderAt(t, i) = HeaderAt(s, i)
  <2>1. i \in 1 .. Len(s) /\ i + 1 \in 1 .. Len(s)
    BY <1>1, <1>5
  <2>2. t[i] = s[i] /\ t[i + 1] = s[i + 1] /\ s[i] \in Nat /\ s[i + 1] \in Nat
    BY <1>2, <1>3, <2>1
  <2> QED
    BY <1>p, <2>2, Zenon DEF HeaderAt
<1>6. Plausibles(s) \subseteq 1 .. Len(s) - 1 /\ Plausibles(t) \subseteq 1 .. Len(s)
  BY <1>1 DEF Plausibles
<1>7. \A i \in Plausibles(s) : i \in 1 .. Len(s) - 1 /\ HeaderAt(s, i) \in Nat \ {0}
  BY <1>5 DEF Plausibles, Plausible
<1>8. Plausibles(s) \subseteq Plausibles(t)
  <2>1. ASSUME NEW i \in Plausibles(s) PROVE i \in Plausibles(t)
    <3>1. i \in 1 .. Len(s) - 1 /\ Plausible(HeaderAt(s, i))
      BY <2>1 DEF Plausibles
    <3>2. i \in 1 .. Len(t) - 1
      BY <1>1, <3>1
    <3> QED
      BY <1>5, <3>1, <3>2 DEF Plausibles
  <2> QED
    BY <2>1
<1>9. ASSUME NEW i \in Plausibles(t) PROVE i \in Plausibles(s) \/ i = Len(s)
  <2>1. i \in 1 .. Len(s) /\ Plausible(HeaderAt(t, i))
    BY <1>6, <1>9 DEF Plausibles
  <2>2. CASE i # Len(s)
    <3>1. i \in 1 .. Len(s) - 1
      BY <1>1, <2>1, <2>2
    <3> QED
      BY <1>5, <2>1, <3>1 DEF Plausibles
  <2> QED
    BY <2>2
<1>10. ASSUME s # <<>>
       PROVE  /\ HeaderAt(t, Len(s)) = Base * s[Len(s)] + b
              /\ Base * s[Len(s)] + b \in Nat
              /\ Len(s) \in Plausibles(t) <=> Plausible(Base * s[Len(s)] + b)
  <2>1. Len(s) \in 1 .. Len(s) /\ Len(s) \in 1 .. Len(t) - 1
    BY <1>1, <1>4, <1>10
  <2>2. t[Len(s)] = s[Len(s)] /\ s[Len(s)] \in Nat
    BY <1>2, <1>3, <2>1
  <2>3. HeaderAt(t, Len(s)) = Base * s[Len(s)] + b
    BY <1>1, <2>2, Zenon DEF HeaderAt
  <2>4. Base * s[Len(s)] + b \in Nat
    BY <1>0, <1>p, <2>2
  <2>5. Len(s) \in Plausibles(t) <=> Plausible(HeaderAt(t, Len(s)))
    BY <2>1 DEF Plausibles
  <2> QED
    BY <2>3, <2>4, <2>5, Zenon
<1>11. Plausibles(s) \in SUBSET Nat
  BY <1>6
<1>12. \A i \in Plausibles(s) : HeaderAt(t, i) = HeaderAt(s, i)
  BY <1>5, <1>6
<1> QED
  BY <1>7, <1>8, <1>9, <1>10, <1>11, <1>12 DEF t

-----------------------------------------------------------------------------
(* Wire: what the envelope decoder knows of the bytes it was given.        *)

Decoders == [state : {"Header", "Payload", "CmdEcho", "CanCmd"},
             header : Seq(Byte), payload_len : Nat, buf : Seq(Byte)]

Least(i, S) == i \in S /\ \A j \in S : i <= j

(* No plausible length yet and the last byte kept, or the bytes after the
   first plausible length, of which some are still to come. *)
EnvTracks(d, s) ==
  /\ d \in Decoders
  /\ \/ /\ d.state = "Header" /\ Plausibles(s) = {}
        /\ d.header = IF s = <<>> THEN <<>> ELSE <<s[Len(s)]>>
     \/ /\ d.state = "Payload"
        /\ \E i \in Plausibles(s) :
             /\ Least(i, Plausibles(s)) /\ d.payload_len = HeaderAt(s, i)
             /\ After(d.buf, s, i + 1) /\ Len(d.buf) < d.payload_len + CrcLen

(* The first plausible length stays the first. *)
LEMMA LeastStays ==
  ASSUME NEW s \in Seq(Byte), NEW b \in Byte, NEW i, Least(i, Plausibles(s))
  PROVE  Least(i, Plausibles(Append(s, b)))
<1>1. i \in Plausibles(s) /\ \A j \in Plausibles(s) : i <= j
  BY DEF Least
<1>2. i \in 1 .. Len(s) - 1 /\ Len(s) \in Nat
  BY <1>1, HeaderFacts, LenProperties
<1>3. \A j \in Plausibles(Append(s, b)) : j \in Plausibles(s) \/ j = Len(s)
  BY HeaderFacts
<1>4. i \in Plausibles(Append(s, b))
  BY <1>1, HeaderFacts
<1>5. i <= Len(s)
  BY <1>2
<1> QED
  BY <1>1, <1>3, <1>4, <1>5 DEF Least

(* No frame, a frame or a bad checksum: what a first plausible length says. *)
LEMMA EnvelopeAt ==
  ASSUME NEW s \in Seq(Byte), NEW i, Least(i, Plausibles(s))
  PROVE  Envelope(s) =
           LET n == HeaderAt(s, i)
               p == SubSeq(s, i + 2, i + 1 + n)
           IN IF Len(s) < i + 1 + n + CrcLen THEN Waiting
              ELSE IF SubSeq(s, i + 2 + n, i + 1 + n + CrcLen) = crc32(p) THEN Framed(p)
              ELSE Failed("crc")
<1>1. i \in Plausibles(s) /\ \A j \in Plausibles(s) : i <= j
  BY DEF Least
<1>2. Plausibles(s) \in SUBSET Nat
  BY HeaderFacts, WireAssumption DEF Byte
<1>3. First(Plausibles(s)) = i
  BY <1>1, <1>2, FirstFacts
<1>4. Plausibles(s) # {}
  BY <1>1
<1> QED
  BY <1>3, <1>4 DEF Envelope

(* A byte in the header state. *)
LEMMA HeaderStep ==
  ASSUME NEW s \in Seq(Byte), NEW b \in Byte, NEW d, EnvTracks(d, s), d.state = "Header"
  PROVE  /\ PushEnvelope(d, b).event = Envelope(Append(s, b))
         /\ EnvTracks(PushEnvelope(d, b).dec, Append(s, b))
<1> DEFINE t == Append(s, b)
           e == PushHeader(d, b)
<1>1. d \in Decoders /\ Plausibles(s) = {} /\ d.header = IF s = <<>> THEN <<>> ELSE <<s[Len(s)]>>
  BY DEF EnvTracks
<1>2. /\ t \in Seq(Byte) /\ Len(s) \in Nat /\ Len(t) = Len(s) + 1
      /\ t[Len(t)] = b /\ t # <<>>
  BY AppendFacts, AppendProperties
<1>3. \A i \in Plausibles(t) : i = Len(s) /\ i \in 1 .. Len(t) - 1
  BY <1>1, <1>2, HeaderFacts
<1>4. PushEnvelope(d, b) = [dec |-> e, event |-> Waiting]
  BY DEF PushEnvelope
<1>b. <<b>> \in Seq(Byte)
  OBVIOUS
<1>5. CASE s = <<>>
  <2>1. Append(d.header, b) = <<b>>
    BY <1>1, <1>5
  <2>2. e = [d EXCEPT !.header = <<b>>]
    BY <2>1 DEF PushHeader
  <2> HIDE DEF e
  <2>3. e \in Decoders /\ e.state = "Header" /\ e.header = <<b>>
    BY <1>1, <1>b, <2>2 DEF Decoders
  <2>4. Plausibles(t) = {}
    BY <1>2, <1>3, <1>5
  <2>5. Envelope(t) = Waiting
    BY <2>4 DEF Envelope
  <2>6. EnvTracks(e, t)
    BY <1>2, <2>3, <2>4 DEF EnvTracks
  <2> QED
    BY <1>4, <2>5, <2>6
<1>6. CASE s # <<>>
  <2> DEFINE len == Base * s[Len(s)] + b
  <2>0. d.header = <<s[Len(s)]>>
    BY <1>1, <1>6
  <2>2. s[Len(s)] \in Byte /\ Len(s) >= 1
    BY <1>2, <1>6, ElementOfSeq, EmptySeq
  <2>1. Append(d.header, b) = <<s[Len(s)], b>>
    BY <2>0, <2>2, AppendToOne
  <2>3. /\ HeaderAt(t, Len(s)) = len /\ len \in Nat
        /\ Len(s) \in Plausibles(t) <=> Plausible(len)
    BY <1>6, HeaderFacts
  <2> HIDE DEF len
  <2>4. e = IF Plausible(len)
            THEN [d EXCEPT !.state = "Payload", !.header = <<s[Len(s)], b>>,
                           !.payload_len = len, !.buf = <<>>]
            ELSE [d EXCEPT !.header = <<b>>]
    BY <2>1 DEF PushHeader, len
  <2> HIDE DEF e
  <2>h. <<s[Len(s)], b>> \in Seq(Byte) /\ <<>> \in Seq(Byte)
    BY <2>2
  <2>5. CASE ~Plausible(len)
    <3>1. e \in Decoders /\ e.state = "Header" /\ e.header = <<b>>
      BY <1>1, <1>b, <2>4, <2>5 DEF Decoders
    <3>2. Plausibles(t) = {}
      BY <1>3, <2>3, <2>5
    <3>3. Envelope(t) = Waiting
      BY <3>2 DEF Envelope
    <3>4. EnvTracks(e, t)
      BY <1>2, <3>1, <3>2 DEF EnvTracks
    <3> QED
      BY <1>4, <3>3, <3>4
  <2>6. CASE Plausible(len)
    <3>e. e = [d EXCEPT !.state = "Payload", !.header = <<s[Len(s)], b>>,
                        !.payload_len = len, !.buf = <<>>]
      BY <2>4, <2>6
    <3>d. d = [state |-> d.state, header |-> d.header, payload_len |-> d.payload_len, buf |-> d.buf]
      BY <1>1 DEF Decoders
    <3>f. e.state = "Payload" /\ e.header = <<s[Len(s)], b>> /\ e.payload_len = len /\ e.buf = <<>>
      BY <3>d, <3>e
    <3>g. e = [state |-> e.state, header |-> e.header, payload_len |-> e.payload_len, buf |-> e.buf]
      BY <3>d, <3>e
    <3>k. e.state = "Payload"
      BY <3>f, Zenon
    <3>i. e.state \in {"Header", "Payload", "CmdEcho", "CanCmd"}
      BY <3>k
    <3>t. e.header \in Seq(Byte) /\ e.payload_len \in Nat /\ e.buf \in Seq(Byte)
      BY <2>h, <2>3, <3>f, Zenon
    <3>1. e \in Decoders
      BY <3>g, <3>i, <3>t, Zenon DEF Decoders
    <3>2. Least(Len(s), Plausibles(t))
      BY <1>2, <1>3, <2>3, <2>6 DEF Least
    <3>3. len \in Nat /\ len > 0 /\ CrcLen \in Nat
      BY <2>3, <2>6, WireAssumption DEF Plausible
    <3>4. After(<<>>, t, Len(s) + 1)
      BY <1>2, EmptySeq DEF After
    <3>5. Len(e.buf) < e.payload_len + CrcLen
      BY <3>f, <3>3, EmptySeq
    <3>6. EnvTracks(e, t)
      BY <2>3, <2>6, <3>1, <3>f, <3>2, <3>4, <3>5 DEF EnvTracks, Least
    <3>7. Len(t) < Len(s) + 1 + len + CrcLen
      BY <1>2, <3>3
    <3>8. Envelope(t) = Waiting
      BY <1>2, <2>3, <3>2, <3>7, EnvelopeAt
    <3> QED
      BY <1>4, <3>6, <3>8
  <2> QED
    BY <2>5, <2>6
<1> QED
  BY <1>5, <1>6

(* A byte in the payload state. *)
LEMMA PayloadStep ==
  ASSUME NEW s \in Seq(Byte), NEW b \in Byte, NEW d, EnvTracks(d, s), d.state = "Payload"
  PROVE  /\ PushEnvelope(d, b).event = Envelope(Append(s, b))
         /\ PushEnvelope(d, b).event.kind = "waiting" =>
              EnvTracks(PushEnvelope(d, b).dec, Append(s, b))
<1> DEFINE t == Append(s, b)
           buf == Append(d.buf, b)
           n == d.payload_len
           p == SubSeq(buf, 1, n)
<1>1. PICK i \in Plausibles(s) :
        /\ Least(i, Plausibles(s)) /\ n = HeaderAt(s, i)
        /\ After(d.buf, s, i + 1) /\ Len(d.buf) < n + CrcLen
  BY DEF EnvTracks
<1>2. d \in Decoders
  BY DEF EnvTracks
<1>3. /\ t \in Seq(Byte) /\ Len(s) \in Nat /\ Len(t) = Len(s) + 1
      /\ t[Len(t)] = b /\ t # <<>>
  BY AppendFacts, AppendProperties
<1>4. i \in 1 .. Len(s) - 1 /\ n \in Nat \ {0} /\ HeaderAt(t, i) = n
  BY <1>1, HeaderFacts
<1>5. Least(i, Plausibles(t))
  BY <1>1, LeastStays
<1>6. After(buf, t, i + 1)
  BY <1>1, AfterGrows
<1>7. buf \in Seq(Byte) /\ Len(buf) \in Nat /\ Len(buf) = Len(t) - (i + 1)
  BY <1>6, LenProperties DEF After
<1>8. Len(buf) = Len(d.buf) + 1 /\ Len(d.buf) \in Nat
  BY <1>2, AppendFacts DEF Decoders
<1>9. CrcLen \in Nat
  BY WireAssumption
<1>10. PushEnvelope(d, b) =
         IF Len(buf) < n + CrcLen
         THEN [dec |-> [d EXCEPT !.buf = buf], event |-> Waiting]
         ELSE [dec |-> [d EXCEPT !.state = "Header", !.header = <<>>, !.buf = buf],
               event |-> IF crc32(p) = SubSeq(buf, n + 1, Len(buf))
                         THEN Framed(p) ELSE Failed("crc")]
  BY DEF PushEnvelope
<1> DEFINE q == SubSeq(t, i + 2, i + 1 + n)
<1>11. Envelope(t) = IF Len(t) < i + 1 + n + CrcLen THEN Waiting
                     ELSE IF SubSeq(t, i + 2 + n, i + 1 + n + CrcLen) = crc32(q)
                     THEN Framed(q) ELSE Failed("crc")
  BY <1>3, <1>4, <1>5, EnvelopeAt
<1>12. Len(buf) < n + CrcLen <=> Len(t) < i + 1 + n + CrcLen
  BY <1>3, <1>4, <1>7, <1>9
<1>13. i \in Plausibles(t)
  BY <1>5 DEF Least
<1> DEFINE c == i + 1
<1>c. After(buf, t, c)
  BY <1>6
<1> HIDE DEF t, buf, p, q, c
<1>s. SamePart(buf, t, c)
  BY <1>3, <1>c, AfterPart
<1>14. CASE Len(buf) < n + CrcLen
  <2> DEFINE e == [d EXCEPT !.buf = buf]
  <2>1. e \in Decoders /\ e.state = "Payload" /\ e.payload_len = n /\ e.buf = buf
    BY <1>2, <1>7 DEF Decoders
  <2>2. EnvTracks(e, t)
    BY <1>4, <1>5, <1>6, <1>13, <1>14, <2>1 DEF EnvTracks
  <2>3. PushEnvelope(d, b) = [dec |-> e, event |-> Waiting]
    BY <1>10, <1>14
  <2>4. Envelope(t) = Waiting
    BY <1>11, <1>12, <1>14
  <2> QED
    BY <2>2, <2>3, <2>4 DEF t
<1>15. CASE ~(Len(buf) < n + CrcLen)
  <2>1. Len(buf) = n + CrcLen
    BY <1>1, <1>4, <1>7, <1>8, <1>9, <1>15
  <2>2. p = SubSeq(t, c + 1, c + n)
    <3>1. 1 \in Nat \ {0} /\ n \in Nat /\ n <= Len(buf) /\ 1 <= n + 1
      BY <1>4, <1>9, <2>1
    <3> QED
      BY <1>s, <3>1 DEF p, SamePart
  <2>3. p = q
    <3>1. c + 1 = i + 2 /\ c + n = i + 1 + n
      BY <1>4 DEF c
    <3> QED
      BY <2>2, <3>1 DEF q
  <2>4. SubSeq(buf, n + 1, Len(buf)) = SubSeq(t, c + (n + 1), c + Len(buf))
    <3>1. n + 1 \in Nat \ {0} /\ Len(buf) \in Nat /\ Len(buf) <= Len(buf) /\ n + 1 <= Len(buf) + 1
      BY <1>4, <1>7, <1>9, <2>1
    <3> QED
      BY <1>s, <3>1 DEF SamePart
  <2>5. c + (n + 1) = i + 2 + n /\ c + Len(buf) = i + 1 + n + CrcLen
    BY <1>4, <1>9, <2>1 DEF c
  <2>6. SubSeq(buf, n + 1, Len(buf)) = SubSeq(t, i + 2 + n, i + 1 + n + CrcLen)
    BY <2>4, <2>5
  <2>7. PushEnvelope(d, b).event = IF crc32(p) = SubSeq(buf, n + 1, Len(buf))
                                   THEN Framed(p) ELSE Failed("crc")
    BY <1>10, <1>15
  <2>8. PushEnvelope(d, b).event.kind # "waiting"
    BY <2>7 DEF Framed, Failed
  <2>9. ~(Len(t) < i + 1 + n + CrcLen)
    BY <1>12, <1>15
  <2>10. PushEnvelope(d, b).event = Envelope(t)
    BY <1>11, <2>3, <2>6, <2>7, <2>9, Zenon
  <2> QED
    BY <2>8, <2>10 DEF t
<1> QED
  BY <1>14, <1>15

-----------------------------------------------------------------------------
(* Wire: what the SER3 decoder knows of the bytes it was given.            *)

Cmd(s) == s # <<>> /\ s[Len(s)] = EchoCmd

(* No echo yet, the 'r' of one seen last or not, or the bytes after the
   first echo, fewer than ochBlockSize of them. *)
EchoTracks(d, s) ==
  /\ d \in Decoders /\ d.payload_len = Expect
  /\ \/ d.state = "CmdEcho" /\ Echoes(s) = {} /\ ~Cmd(s)
     \/ d.state = "CanCmd" /\ Echoes(s) = {} /\ Cmd(s)
     \/ /\ d.state = "Payload"
        /\ \E i \in Echoes(s) :
             Least(i, Echoes(s)) /\ After(d.buf, s, i + 1) /\ Len(d.buf) < Expect

(* The echoes of a line, and of the line with one byte more. *)
LEMMA EchoFacts ==
  ASSUME NEW s \in Seq(Byte), NEW b \in Byte
  PROVE  /\ Echoes(s) \in SUBSET Nat
         /\ \A i \in Echoes(s) : i \in 1 .. Len(s) - 1
         /\ Echoes(s) \subseteq Echoes(Append(s, b))
         /\ \A i \in Echoes(Append(s, b)) : i \in Echoes(s) \/ i = Len(s)
         /\ Len(s) \in Echoes(Append(s, b)) <=> Cmd(s) /\ b = EchoCan
         /\ Cmd(Append(s, b)) <=> b = EchoCmd
<1> DEFINE t == Append(s, b)
<1>1. Len(s) \in Nat /\ Len(t) = Len(s) + 1 /\ t[Len(s) + 1] = b /\ t # <<>>
  BY AppendFacts, AppendProperties
<1>2. \A i \in 1 .. Len(s) : t[i] = s[i]
  BY AppendFacts
<1>3. s # <<>> <=> Len(s) >= 1
  BY <1>1, EmptySeq
<1> HIDE DEF t
<1>4. Echoes(s) \subseteq 1 .. Len(s) - 1 /\ Echoes(t) \subseteq 1 .. Len(s)
  BY <1>1 DEF Echoes
<1>5. ASSUME NEW i \in 1 .. Len(s) - 1 PROVE i \in Echoes(s) <=> i \in Echoes(t)
  <2>1. i \in 1 .. Len(s) /\ i + 1 \in 1 .. Len(s) /\ i \in 1 .. Len(t) - 1
    BY <1>1, <1>5
  <2>2. t[i] = s[i] /\ t[i + 1] = s[i + 1]
    BY <1>2, <2>1
  <2> QED
    BY <2>1, <2>2 DEF Echoes
<1>6. Echoes(s) \subseteq Echoes(t)
  BY <1>4, <1>5
<1>7. ASSUME NEW i \in Echoes(t) PROVE i \in Echoes(s) \/ i = Len(s)
  <2>1. i \in 1 .. Len(s)
    BY <1>4, <1>7
  <2>2. CASE i # Len(s)
    <3>1. i \in 1 .. Len(s) - 1
      BY <1>1, <2>1, <2>2
    <3> QED
      BY <1>5, <1>7, <3>1
  <2> QED
    BY <2>2
<1>8. Len(s) \in Echoes(t) <=> Cmd(s) /\ b = EchoCan
  <2>1. CASE s = <<>>
    BY <2>1, <1>1, <1>3, <1>4 DEF Cmd
  <2>2. CASE s # <<>>
    <3>1. Len(s) \in 1 .. Len(s) /\ Len(s) \in 1 .. Len(t) - 1
      BY <1>1, <1>3, <2>2
    <3>2. t[Len(s)] = s[Len(s)]
      BY <1>2, <3>1
    <3>3. Len(s) \in Echoes(t) <=> t[Len(s)] = EchoCmd /\ t[Len(s) + 1] = EchoCan
      BY <3>1 DEF Echoes
    <3> QED
      BY <1>1, <2>2, <3>2, <3>3 DEF Cmd
  <2> QED
    BY <2>1, <2>2
<1>9. Cmd(t) <=> b = EchoCmd
  BY <1>1 DEF Cmd
<1>10. Echoes(s) \in SUBSET Nat
  BY <1>4
<1> QED
  BY <1>4, <1>6, <1>7, <1>8, <1>9, <1>10 DEF t

(* The first echo stays the first. *)
LEMMA LeastEchoStays ==
  ASSUME NEW s \in Seq(Byte), NEW b \in Byte, NEW i, Least(i, Echoes(s))
  PROVE  Least(i, Echoes(Append(s, b)))
<1>1. i \in Echoes(s) /\ \A j \in Echoes(s) : i <= j
  BY DEF Least
<1>2. i \in 1 .. Len(s) - 1 /\ Len(s) \in Nat
  BY <1>1, EchoFacts, LenProperties
<1>3. \A j \in Echoes(Append(s, b)) : j \in Echoes(s) \/ j = Len(s)
  BY EchoFacts
<1>4. i \in Echoes(Append(s, b))
  BY <1>1, EchoFacts
<1>5. i <= Len(s)
  BY <1>2
<1> QED
  BY <1>1, <1>3, <1>4, <1>5 DEF Least

(* What a first echo says: not enough bytes after it, or a block. *)
LEMMA EchoAt ==
  ASSUME NEW s \in Seq(Byte), NEW i, Least(i, Echoes(s))
  PROVE  Echo(s) = IF Len(s) < i + 1 + Expect THEN Waiting
                   ELSE Framed(SubSeq(s, i + 2, i + 1 + Expect))
<1>1. i \in Echoes(s) /\ \A j \in Echoes(s) : i <= j
  BY DEF Least
<1>2. Echoes(s) \in SUBSET Nat
  BY EchoFacts, WireAssumption DEF Byte
<1>3. First(Echoes(s)) = i
  BY <1>1, <1>2, FirstFacts
<1>4. Echoes(s) # {}
  BY <1>1
<1> QED
  BY <1>3, <1>4 DEF Echo

(* A byte before the echo is complete. *)
LEMMA EchoStep ==
  ASSUME NEW s \in Seq(Byte), NEW b \in Byte, NEW d, EchoTracks(d, s), d.state # "Payload"
  PROVE  /\ PushEcho(d, b).event = Echo(Append(s, b))
         /\ EchoTracks(PushEcho(d, b).dec, Append(s, b))
<1> DEFINE t == Append(s, b)
<1>1. d \in Decoders /\ d.payload_len = Expect /\ Echoes(s) = {}
  BY DEF EchoTracks
<1>2. \/ d.state = "CmdEcho" /\ ~Cmd(s)
      \/ d.state = "CanCmd" /\ Cmd(s)
  BY DEF EchoTracks
<1>3. /\ t \in Seq(Byte) /\ Len(s) \in Nat /\ Len(t) = Len(s) + 1
  BY AppendFacts
<1>4. \A i \in Echoes(t) : i = Len(s)
  BY <1>1, EchoFacts
<1>5. Len(s) \in Echoes(t) <=> Cmd(s) /\ b = EchoCan
  BY EchoFacts
<1>6. Cmd(t) <=> b = EchoCmd
  BY EchoFacts
<1>7. EchoCmd # EchoCan /\ Expect \in Nat \ {0}
  BY WireAssumption
<1>8. d = [state |-> d.state, header |-> d.header, payload_len |-> d.payload_len, buf |-> d.buf]
  BY <1>1 DEF Decoders
<1>9. <<>> \in Seq(Byte)
  BY EmptySeq
<1> HIDE DEF t
<1>10. CASE d.state = "CmdEcho"
  <2> DEFINE e == IF b = EchoCmd THEN [d EXCEPT !.state = "CanCmd"] ELSE d
  <2>1. PushEcho(d, b) = [dec |-> e, event |-> Waiting]
    BY <1>10 DEF PushEcho
  <2>2. Echoes(t) = {}
    BY <1>2, <1>4, <1>5, <1>10
  <2>3. e \in Decoders /\ e.payload_len = Expect
    BY <1>1 DEF Decoders
  <2>4. e.state = IF b = EchoCmd THEN "CanCmd" ELSE "CmdEcho"
    BY <1>8, <1>10
  <2> HIDE DEF e
  <2>5. EchoTracks(e, t)
    BY <1>6, <2>2, <2>3, <2>4 DEF EchoTracks
  <2>6. Echo(t) = Waiting
    BY <2>2 DEF Echo
  <2> QED
    BY <2>1, <2>5, <2>6 DEF t
<1>11. CASE d.state = "CanCmd"
  <2> DEFINE e == [d EXCEPT !.state = AfterEcho(b), !.buf = <<>>]
  <2>1. PushEcho(d, b) = [dec |-> e, event |-> Waiting]
    BY <1>11 DEF PushEcho
  <2>e. e = [d EXCEPT !.state = AfterEcho(b), !.buf = <<>>]
    OBVIOUS
  <2> HIDE DEF e
  <2>2. e.state = AfterEcho(b) /\ e.buf = <<>> /\ e.header = d.header /\ e.payload_len = Expect
    BY <1>1, <1>8, <2>e
  <2>3. e = [state |-> e.state, header |-> e.header, payload_len |-> e.payload_len, buf |-> e.buf]
    BY <1>8, <2>e
  <2>4. e.state \in {"Header", "Payload", "CmdEcho", "CanCmd"}
    BY <2>2 DEF AfterEcho
  <2>5. e.header \in Seq(Byte) /\ e.payload_len \in Nat /\ e.buf \in Seq(Byte)
    BY <1>1, <1>7, <1>9, <2>2 DEF Decoders
  <2>6. e \in Decoders
    BY <2>3, <2>4, <2>5, Zenon DEF Decoders
  <2>7. Cmd(s)
    BY <1>2, <1>11
  <2>8. CASE b = EchoCan
    <3>1. e.state = "Payload"
      BY <2>2, <2>8 DEF AfterEcho
    <3>2. Least(Len(s), Echoes(t))
      BY <1>3, <1>4, <1>5, <2>7, <2>8 DEF Least
    <3>3. After(<<>>, t, Len(s) + 1)
      BY <1>3, EmptySeq DEF After
    <3>4. Len(e.buf) < Expect
      BY <1>7, <2>2, EmptySeq
    <3>5. Len(s) \in Echoes(t)
      BY <3>2 DEF Least
    <3>6. EchoTracks(e, t)
      BY <2>2, <2>6, <3>1, <3>2, <3>3, <3>4, <3>5 DEF EchoTracks
    <3>7. Len(t) < Len(s) + 1 + Expect
      BY <1>3, <1>7
    <3>8. Echo(t) = Waiting
      BY <1>3, <3>2, <3>7, EchoAt
    <3> QED
      BY <2>1, <3>6, <3>8 DEF t
  <2>9. CASE b # EchoCan
    <3>1. Echoes(t) = {}
      BY <1>4, <1>5, <2>9
    <3>2. e.state = IF b = EchoCmd THEN "CanCmd" ELSE "CmdEcho"
      BY <2>2, <2>9 DEF AfterEcho
    <3>3. EchoTracks(e, t)
      BY <1>6, <2>2, <2>6, <3>1, <3>2 DEF EchoTracks
    <3>4. Echo(t) = Waiting
      BY <3>1 DEF Echo
    <3> QED
      BY <2>1, <3>3, <3>4 DEF t
  <2> QED
    BY <2>8, <2>9
<1> QED
  BY <1>2, <1>10, <1>11

(* A byte after the echo. *)
LEMMA BlockStep ==
  ASSUME NEW s \in Seq(Byte), NEW b \in Byte, NEW d, EchoTracks(d, s), d.state = "Payload"
  PROVE  /\ PushEcho(d, b).event = Echo(Append(s, b))
         /\ PushEcho(d, b).event.kind = "waiting" =>
              EchoTracks(PushEcho(d, b).dec, Append(s, b))
<1> DEFINE t == Append(s, b)
           buf == Append(d.buf, b)
<1>1. PICK i \in Echoes(s) :
        Least(i, Echoes(s)) /\ After(d.buf, s, i + 1) /\ Len(d.buf) < Expect
  BY DEF EchoTracks
<1>2. d \in Decoders /\ d.payload_len = Expect
  BY DEF EchoTracks
<1>3. /\ t \in Seq(Byte) /\ Len(s) \in Nat /\ Len(t) = Len(s) + 1
  BY AppendFacts
<1>4. i \in 1 .. Len(s) - 1 /\ Expect \in Nat \ {0}
  BY <1>1, EchoFacts, WireAssumption
<1>5. Least(i, Echoes(t))
  BY <1>1, LeastEchoStays
<1>6. After(buf, t, i + 1)
  BY <1>1, AfterGrows
<1>7. buf \in Seq(Byte) /\ Len(buf) \in Nat /\ Len(buf) = Len(t) - (i + 1)
  BY <1>6, LenProperties DEF After
<1>8. Len(buf) = Len(d.buf) + 1 /\ Len(d.buf) \in Nat
  BY <1>2, AppendFacts DEF Decoders
<1>9. PushEcho(d, b) =
        IF Len(buf) = Expect
        THEN [dec |-> [d EXCEPT !.state = "CmdEcho", !.buf = <<>>], event |-> Framed(buf)]
        ELSE [dec |-> [d EXCEPT !.buf = buf], event |-> Waiting]
  BY <1>2 DEF PushEcho
<1>10. Echo(t) = IF Len(t) < i + 1 + Expect THEN Waiting
                 ELSE Framed(SubSeq(t, i + 2, i + 1 + Expect))
  BY <1>3, <1>5, EchoAt
<1>11. Len(buf) = Expect <=> ~(Len(t) < i + 1 + Expect)
  BY <1>1, <1>3, <1>4, <1>7, <1>8
<1>12. i \in Echoes(t)
  BY <1>5 DEF Least
<1> DEFINE c == i + 1
<1>c. After(buf, t, c)
  BY <1>6
<1> HIDE DEF t, buf, c
<1>13. CASE Len(buf) # Expect
  <2> DEFINE e == [d EXCEPT !.buf = buf]
  <2>1. e \in Decoders /\ e.state = "Payload" /\ e.payload_len = Expect /\ e.buf = buf
    BY <1>2, <1>7 DEF Decoders
  <2>2. Len(buf) < Expect
    BY <1>1, <1>4, <1>8, <1>13
  <2>3. EchoTracks(e, t)
    BY <1>5, <1>6, <1>12, <2>1, <2>2 DEF EchoTracks
  <2>4. PushEcho(d, b) = [dec |-> e, event |-> Waiting]
    BY <1>9, <1>13
  <2>5. Echo(t) = Waiting
    BY <1>10, <1>11, <1>13
  <2> QED
    BY <2>3, <2>4, <2>5 DEF t
<1>14. CASE Len(buf) = Expect
  <2>1. SamePart(buf, t, c)
    BY <1>3, <1>c, AfterPart
  <2>2. SubSeq(buf, 1, Len(buf)) = SubSeq(t, c + 1, c + Len(buf))
    <3>1. 1 \in Nat \ {0} /\ Len(buf) \in Nat /\ Len(buf) <= Len(buf) /\ 1 <= Len(buf) + 1
      BY <1>7
    <3> QED
      BY <2>1, <3>1 DEF SamePart
  <2>3. SubSeq(buf, 1, Len(buf)) = buf
    BY <1>7, SubSeqFull
  <2>4. c + 1 = i + 2 /\ c + Len(buf) = i + 1 + Expect
    BY <1>4, <1>14 DEF c
  <2>5. buf = SubSeq(t, i + 2, i + 1 + Expect)
    BY <2>2, <2>3, <2>4
  <2>6. PushEcho(d, b).event = Framed(buf)
    BY <1>9, <1>14
  <2>7. PushEcho(d, b).event.kind # "waiting"
    BY <2>6 DEF Framed
  <2>8. PushEcho(d, b).event = Echo(t)
    BY <1>10, <1>11, <1>14, <2>5, <2>6
  <2> QED
    BY <2>7, <2>8 DEF t
<1> QED
  BY <1>13, <1>14

-----------------------------------------------------------------------------
(* Wire: a chunk of bytes.                                                 *)

Tracks(d, s) == IF mode = "Primary" THEN EnvTracks(d, s) ELSE EchoTracks(d, s)
Found(s) == IF mode = "Primary" THEN Envelope(s) ELSE Echo(s)

(* One byte: the decoder goes on tracking the line, and its event is what the
   line with the byte holds. *)
LEMMA PushStep ==
  ASSUME NEW s \in Seq(Byte), NEW b \in Byte, NEW d, Tracks(d, s)
  PROVE  /\ Push(d, b).event = Found(Append(s, b))
         /\ Push(d, b).event.kind = "waiting" => Tracks(Push(d, b).dec, Append(s, b))
<1>1. CASE mode = "Primary"
  <2>1. EnvTracks(d, s) /\ Push(d, b) = PushEnvelope(d, b)
    BY <1>1 DEF Tracks, Push
  <2>2. d.state = "Header" \/ d.state = "Payload"
    BY <2>1 DEF EnvTracks
  <2>3. /\ PushEnvelope(d, b).event = Envelope(Append(s, b))
        /\ PushEnvelope(d, b).event.kind = "waiting" =>
             EnvTracks(PushEnvelope(d, b).dec, Append(s, b))
    BY <2>1, <2>2, HeaderStep, PayloadStep
  <2> QED
    BY <1>1, <2>1, <2>3 DEF Tracks, Found
<1>2. CASE mode # "Primary"
  <2>1. EchoTracks(d, s) /\ Push(d, b) = PushEcho(d, b)
    BY <1>2 DEF Tracks, Push
  <2>2. /\ PushEcho(d, b).event = Echo(Append(s, b))
        /\ PushEcho(d, b).event.kind = "waiting" =>
             EchoTracks(PushEcho(d, b).dec, Append(s, b))
    BY <2>1, EchoStep, BlockStep
  <2> QED
    BY <1>2, <2>1, <2>2 DEF Tracks, Found
<1> QED
  BY <1>1, <1>2

(* What is not found yet is found to be Waiting. *)
LEMMA FoundKinds ==
  ASSUME NEW s, Found(s).kind = "waiting"
  PROVE  Found(s) = Waiting
<1>1. Envelope(s).kind = "waiting" => Envelope(s) = Waiting
  BY DEF Envelope, Framed, Failed
<1>2. Echo(s).kind = "waiting" => Echo(s) = Waiting
  BY DEF Echo, Framed
<1> QED
  BY <1>1, <1>2 DEF Found

(* The equation of the recursive function in Pushed has a solution. *)
RunsTo(h, n, z, piece) ==
  h = [k \in 0 .. n |-> IF k = 0 THEN z ELSE PushNext(h[k - 1], piece[k], k)]

(* A solution for n bytes gives one for n + 1. *)
LEMMA RunExtends ==
  ASSUME NEW n \in Nat, NEW h, NEW z, NEW piece, RunsTo(h, n, z, piece)
  PROVE  \E g : RunsTo(g, n + 1, z, piece)
<1> DEFINE g == [k \in 0 .. n + 1 |->
                   IF k = n + 1 THEN PushNext(h[n], piece[n + 1], n + 1) ELSE h[k]]
<1>1. \A k \in 0 .. n : h[k] = IF k = 0 THEN z ELSE PushNext(h[k - 1], piece[k], k)
  BY DEF RunsTo
<1>2. \A k \in 0 .. n : g[k] = h[k]
  OBVIOUS
<1>3. g[n + 1] = PushNext(h[n], piece[n + 1], n + 1)
  OBVIOUS
<1>4. DOMAIN g = 0 .. n + 1 /\ g = [k \in 0 .. n + 1 |-> g[k]]
  OBVIOUS
<1> HIDE DEF g
<1>5. ASSUME NEW k \in 0 .. n + 1
      PROVE  g[k] = IF k = 0 THEN z ELSE PushNext(g[k - 1], piece[k], k)
  <2>1. CASE k = n + 1
    <3>1. k # 0 /\ k - 1 = n /\ n \in 0 .. n
      BY <2>1
    <3>2. g[k - 1] = h[n]
      BY <1>2, <3>1
    <3> QED
      BY <1>3, <2>1, <3>1, <3>2
  <2>2. CASE k # n + 1 /\ k # 0
    <3>1. k \in 0 .. n /\ k - 1 \in 0 .. n
      BY <1>5, <2>2
    <3>2. g[k] = h[k] /\ g[k - 1] = h[k - 1]
      BY <1>2, <3>1
    <3>3. h[k] = PushNext(h[k - 1], piece[k], k)
      BY <1>1, <2>2, <3>1
    <3> QED
      BY <2>2, <3>2, <3>3
  <2>3. CASE k = 0
    <3>1. 0 \in 0 .. n
      OBVIOUS
    <3> QED
      BY <1>1, <1>2, <2>3, <3>1
  <2> QED
    BY <2>1, <2>2, <2>3
<1>6. RunsTo(g, n + 1, z, piece)
  BY <1>4, <1>5 DEF RunsTo
<1> QED
  BY <1>6

(* So there is a solution for every number of bytes. *)
LEMMA RunExists ==
  ASSUME NEW n \in Nat, NEW z, NEW piece
  PROVE  \E h : RunsTo(h, n, z, piece)
<1> DEFINE P == {k \in Nat : \E h : RunsTo(h, k, z, piece)}
<1>1. 0 \in P
  <2>1. RunsTo([k \in 0 .. 0 |-> z], 0, z, piece)
    BY DEF RunsTo
  <2> QED
    BY <2>1
<1>2. ASSUME NEW k \in P PROVE k + 1 \in P
  BY RunExtends
<1>3. P \in SUBSET Nat
  OBVIOUS
<1> HIDE DEF P
<1>4. P = Nat
  BY <1>1, <1>2, <1>3, NatSetInduction
<1>5. n \in P
  BY <1>4
<1> QED
  BY <1>5 DEF P

(* Pushed is that solution, from the decoder as the chunk finds it. *)
LEMMA PushedRuns ==
  ASSUME NEW piece, Len(piece) \in Nat
  PROVE  RunsTo(Pushed(piece), Len(piece), [used |-> 0, dec |-> dec, event |-> Waiting], piece)
<1> DEFINE z == [used |-> 0, dec |-> dec, event |-> Waiting]
           P(h) == RunsTo(h, Len(piece), z, piece)
<1>1. \E h : P(h)
  BY RunExists
<1>2. Pushed(piece) = CHOOSE h : P(h)
  BY DEF Pushed, RunsTo
<1> HIDE DEF P
<1>3. P(CHOOSE h : P(h))
  BY <1>1, Zenon
<1>4. P(Pushed(piece))
  BY <1>2, <1>3
<1> QED
  BY <1>4 DEF P

(* A byte more of a chunk is a byte more of what the decoder was given. *)
LEMMA PrefixGrows ==
  ASSUME NEW f \in Seq(Byte), NEW piece \in Seq(Byte), NEW k \in 1 .. Len(piece)
  PROVE  /\ f \o SubSeq(piece, 1, k - 1) \in Seq(Byte) /\ piece[k] \in Byte
         /\ f \o SubSeq(piece, 1, k) = Append(f \o SubSeq(piece, 1, k - 1), piece[k])
<1> DEFINE x == SubSeq(piece, 1, k - 1)
           y == <<piece[k]>>
<1>1. Len(piece) \in Nat /\ piece[k] \in Byte /\ 1 \in 1 .. Len(piece) /\ k - 1 \in Int
  BY LenProperties, ElementOfSeq
<1>2. \A j \in 1 .. k - 1 : piece[j] \in Byte
  <2>1. \A j \in 1 .. k - 1 : j \in 1 .. Len(piece)
    BY <1>1
  <2> QED
    BY <2>1, ElementOfSeq
<1>3. x \in Seq(Byte)
  BY <1>1, <1>2, SubSeqProperties
<1>4. y \in Seq(Byte)
  BY <1>1
<1>5. SubSeq(piece, 1, k) = x \o y
  BY <1>1, SubSeqRecursiveSecond
<1> HIDE DEF x, y
<1>6. f \o x \in Seq(Byte)
  BY <1>3, ConcatProperties
<1>7. (f \o x) \o y = f \o (x \o y)
  BY <1>3, <1>4, ConcatAssociative, SMTT(30)
<1>8. Append(f \o x, piece[k]) = (f \o x) \o y
  BY <1>1, <1>6, AppendIsConcat DEF y
<1> QED
  BY <1>1, <1>5, <1>6, <1>7, <1>8 DEF x

(* What the decoder has come to after k bytes of a chunk. *)
Reached(r, k, piece) ==
  /\ r.used \in 0 .. k
  /\ r.event = Found(fed \o SubSeq(piece, 1, r.used))
  /\ r.event.kind = "waiting" =>
       r.used = k /\ Tracks(r.dec, fed \o SubSeq(piece, 1, r.used))

(* A byte of the chunk keeps to Reached. *)
LEMMA ReachedStep ==
  ASSUME NEW piece \in Seq(Byte), fed \in Seq(Byte), NEW k \in 1 .. Len(piece),
         NEW r, Reached(r, k - 1, piece)
  PROVE  Reached(PushNext(r, piece[k], k), k, piece)
<1>1. k \in Nat \ {0} /\ k - 1 \in Nat
  BY LenProperties
<1>2. CASE r.event.kind # "waiting"
  <2>1. PushNext(r, piece[k], k) = r
    BY <1>2 DEF PushNext
  <2>2. r.used \in 0 .. k
    BY <1>1 DEF Reached
  <2> QED
    BY <1>2, <2>1, <2>2 DEF Reached
<1>3. CASE r.event.kind = "waiting"
  <2> DEFINE s == fed \o SubSeq(piece, 1, k - 1)
             t == fed \o SubSeq(piece, 1, k)
             b == piece[k]
             p == PushNext(r, b, k)
  <2>1. r.used = k - 1 /\ Tracks(r.dec, s)
    BY <1>3 DEF Reached
  <2>2. s \in Seq(Byte) /\ b \in Byte /\ t = Append(s, b)
    BY PrefixGrows
  <2>3. p = [used |-> k, dec |-> Push(r.dec, b).dec, event |-> Push(r.dec, b).event]
    BY <1>3 DEF PushNext
  <2> HIDE DEF s, t, b, p
  <2>4. p.used = k /\ p.dec = Push(r.dec, b).dec /\ p.event = Push(r.dec, b).event
    BY <2>3
  <2>5. p.event = Found(t) /\ (p.event.kind = "waiting" => Tracks(p.dec, t))
    BY <2>1, <2>2, <2>4, PushStep
  <2>6. k \in 0 .. k
    BY <1>1
  <2>7. Reached(p, k, piece)
    BY <2>4, <2>5, <2>6 DEF Reached, t
  <2> QED
    BY <2>7 DEF p, b
<1> QED
  BY <1>2, <1>3

(* What a whole chunk comes to. *)
LEMMA ChunkReached ==
  ASSUME NEW piece \in Seq(Byte), fed \in Seq(Byte), Tracks(dec, fed), Found(fed) = Waiting
  PROVE  Reached(Upto(piece), Len(piece), piece)
<1> DEFINE h == Pushed(piece)
           n == Len(piece)
           z == [used |-> 0, dec |-> dec, event |-> Waiting]
           P == {k \in Nat : k <= n => Reached(h[k], k, piece)}
<1>1. n \in Nat
  BY LenProperties
<1>2. RunsTo(h, n, z, piece)
  BY <1>1, PushedRuns
<1> HIDE DEF h, n, z
<1>3. \A k \in 0 .. n : h[k] = IF k = 0 THEN z ELSE PushNext(h[k - 1], piece[k], k)
  BY <1>2 DEF RunsTo
<1>4. 0 \in P
  <2>1. h[0] = z
    BY <1>1, <1>3
  <2>2. z.used = 0 /\ z.dec = dec /\ z.event = Waiting
    BY DEF z
  <2>3. SubSeq(piece, 1, 0) = <<>>
    BY SubSeqEmpty
  <2>4. fed \o <<>> = fed
    BY ConcatEmptySeq
  <2>5. Reached(z, 0, piece)
    <3>1. fed \o SubSeq(piece, 1, z.used) = fed /\ 0 \in 0 .. 0
      BY <2>2, <2>3, <2>4
    <3> QED
      BY <2>2, <3>1 DEF Reached
  <2> QED
    BY <2>1, <2>5
<1>5. ASSUME NEW k \in P PROVE k + 1 \in P
  <2>1. k \in Nat
    OBVIOUS
  <2>2. CASE k + 1 <= n
    <3>1. Reached(h[k], k, piece)
      BY <1>1, <1>5, <2>1, <2>2
    <3> DEFINE m == k + 1
    <3>2. m \in 1 .. n /\ m \in 0 .. n /\ m # 0 /\ m - 1 = k
      BY <1>1, <2>1, <2>2
    <3> HIDE DEF m
    <3>3. h[m] = PushNext(h[m - 1], piece[m], m)
      BY <1>3, <3>2
    <3>4. Reached(h[m - 1], m - 1, piece)
      BY <3>1, <3>2
    <3>5. Reached(h[m], m, piece)
      BY <3>2, <3>3, <3>4, ReachedStep DEF n
    <3> QED
      BY <2>1, <3>5 DEF m
  <2>3. CASE ~(k + 1 <= n)
    BY <2>1, <2>3
  <2> QED
    BY <2>2, <2>3
<1>6. P \in SUBSET Nat
  OBVIOUS
<1> HIDE DEF P
<1>7. P = Nat
  BY <1>4, <1>5, <1>6, NatSetInduction
<1>8. n \in P
  BY <1>1, <1>7
<1>9. Reached(h[n], n, piece)
  BY <1>1, <1>8 DEF P
<1> QED
  BY <1>9 DEF h, n, Upto

-----------------------------------------------------------------------------
(* Wire: the inductive invariant.                                          *)

(* Between reads the decoder tracks the bytes it was given, and what they
   hold so far is no frame. *)
WireInv ==
  /\ line \in Seq(Byte) /\ fed \in Seq(Byte)
  /\ outcome.kind = "waiting" => Found(fed) = Waiting /\ Tracks(dec, fed)
  /\ FirstFrameFound

(* A fresh decoder has seen nothing, and nothing is on an empty line. *)
LEMMA FreshTracks ==
  EnvTracks(Fresh, <<>>) /\ EchoTracks(FreshEcho, <<>>)
    /\ Envelope(<<>>) = Waiting /\ Echo(<<>>) = Waiting
<1>1. <<>> \in Seq(Byte) /\ Len(<<>>) = 0
  BY EmptySeq
<1>2. Plausibles(<<>>) = {} /\ Echoes(<<>>) = {}
  BY <1>1 DEF Plausibles, Echoes
<1>3. Expect \in Nat
  BY WireAssumption
<1>4. Fresh \in Decoders /\ FreshEcho \in Decoders
  BY <1>1, <1>3 DEF Fresh, FreshEcho, Decoders
<1>5. EnvTracks(Fresh, <<>>)
  BY <1>2, <1>4 DEF EnvTracks, Fresh
<1>6. EchoTracks(FreshEcho, <<>>)
  BY <1>2, <1>4 DEF EchoTracks, FreshEcho, Cmd
<1>7. Envelope(<<>>) = Waiting /\ Echo(<<>>) = Waiting
  BY <1>2 DEF Envelope, Echo
<1> QED
  BY <1>5, <1>6, <1>7

(* At first no request is waiting. *)
LEMMA WireInitInv == WireInit => WireInv
<1> SUFFICES ASSUME WireInit PROVE WireInv
  OBVIOUS
<1>1. outcome.kind = "timeout"
  BY DEF WireInit, Failed
<1>2. line \in Seq(Byte) /\ fed \in Seq(Byte)
  BY EmptySeq DEF WireInit
<1> QED
  BY <1>1, <1>2 DEF WireInv, FirstFrameFound

(* A request starts with a fresh decoder. *)
LEMMA WireRequestInv == WireInv /\ Request => WireInv'
<1> SUFFICES ASSUME WireInv, Request PROVE WireInv'
  OBVIOUS
<1>1. line' \in Seq(Byte) /\ fed' \in Seq(Byte) /\ fed' = <<>>
  BY EmptySeq DEF WireInv, Request
<1>2. outcome' = Waiting /\ mode' = mode
  BY DEF Request
<1>3. dec' = IF mode = "Primary" THEN Fresh ELSE FreshEcho
  BY DEF Request
<1>4. Tracks(dec, fed)'
  BY <1>1, <1>2, <1>3, FreshTracks DEF Tracks
<1>5. Found(fed)' = Waiting
  BY <1>1, <1>2, FreshTracks DEF Found
<1>6. FirstFrameFound'
  BY <1>2, <1>5 DEF FirstFrameFound, Found, Judged, Waiting
<1> QED
  BY <1>1, <1>4, <1>5, <1>6 DEF WireInv

(* A byte that comes in has not been read. *)
LEMMA WireArriveInv == WireInv /\ Arrive => WireInv'
<1> SUFFICES ASSUME WireInv, Arrive PROVE WireInv'
  OBVIOUS
<1>1. PICK b \in Byte : line' = Append(line, b)
  BY DEF Arrive
<1>2. line' \in Seq(Byte)
  BY <1>1, AppendProperties DEF WireInv
<1>3. mode' = mode /\ dec' = dec /\ outcome' = outcome /\ fed' = fed
  BY DEF Arrive
<1> QED
  BY <1>2, <1>3 DEF WireInv, Tracks, Found, FirstFrameFound, Judged

(* A deadline ends the request without a frame. *)
LEMMA WireTimeoutInv == WireInv /\ Timeout => WireInv'
<1> SUFFICES ASSUME WireInv, Timeout PROVE WireInv'
  OBVIOUS
<1>1. outcome'.kind = "timeout"
  BY DEF Timeout, Failed
<1>2. line' \in Seq(Byte) /\ fed' \in Seq(Byte)
  BY DEF Timeout, WireInv
<1> QED
  BY <1>1, <1>2 DEF WireInv, FirstFrameFound

(* One read, of any number of bytes. *)
LEMMA WireReadInv == WireInv /\ ReadSome => WireInv'
<1> SUFFICES ASSUME WireInv, ReadSome PROVE WireInv'
  OBVIOUS
<1>1. PICK n \in 1 .. Len(line) :
        LET r == Upto(SubSeq(line, 1, n))
        IN /\ dec' = r.dec /\ outcome' = Judged(r.event)
           /\ fed' = fed \o SubSeq(line, 1, r.used)
           /\ line' = IF r.event.kind = "crc" THEN <<>> ELSE SubSeq(line, n + 1, Len(line))
  BY DEF ReadSome
<1> DEFINE piece == SubSeq(line, 1, n)
           r == Upto(piece)
           t == fed \o SubSeq(line, 1, r.used)
<1>2. dec' = r.dec /\ outcome' = Judged(r.event) /\ fed' = t
  BY <1>1
<1>3. line' = IF r.event.kind = "crc" THEN <<>> ELSE SubSeq(line, n + 1, Len(line))
  BY <1>1
<1>4. /\ line \in Seq(Byte) /\ fed \in Seq(Byte) /\ mode' = mode
      /\ Found(fed) = Waiting /\ Tracks(dec, fed)
  BY DEF ReadSome, WireInv
<1>5. Len(line) \in Nat /\ n \in Nat /\ n >= 1 /\ n <= Len(line)
  BY <1>4, LenProperties
<1>6. \A j \in 1 .. Len(line) : line[j] \in Byte
  BY <1>4, ElementOfSeq
<1>7. piece \in Seq(Byte) /\ Len(piece) = n
  <2>1. \A j \in 1 .. n : line[j] \in Byte
    BY <1>5, <1>6
  <2> QED
    BY <1>5, <2>1, SubSeqProperties
<1>8. Reached(r, n, piece)
  <2> HIDE DEF piece
  <2> QED
    BY <1>4, <1>7, ChunkReached
<1> HIDE DEF r
<1>9. r.used \in 0 .. n
  BY <1>8 DEF Reached
<1>10. SubSeq(piece, 1, r.used) = SubSeq(line, 1, r.used)
  <2>1. CASE r.used = 0
    <3>1. SubSeq(piece, 1, 0) = <<>> /\ SubSeq(line, 1, 0) = <<>>
      BY SubSeqEmpty
    <3> QED
      BY <2>1, <3>1
  <2>2. CASE r.used # 0
    <3> DEFINE u == r.used
    <3>1. /\ 1 \in 1 .. Len(line) /\ n \in 1 .. Len(line)
          /\ 1 \in 1 .. n - 1 + 1 /\ u \in 1 .. n - 1 + 1
          /\ 1 + 1 - 1 = 1 /\ 1 + u - 1 = u
      BY <1>5, <1>9, <2>2
    <3> HIDE DEF u
    <3>2. SubSeq(SubSeq(line, 1, n), 1, u) = SubSeq(line, 1 + 1 - 1, 1 + u - 1)
      BY <1>4, <3>1, SubSeqOfSubSeq
    <3>3. SubSeq(piece, 1, u) = SubSeq(line, 1, u)
      BY <3>1, <3>2
    <3> QED
      BY <3>3 DEF u
  <2> QED
    BY <2>1, <2>2
<1>11. r.event = Found(t) /\ (r.event.kind = "waiting" => Tracks(r.dec, t))
  BY <1>8, <1>10 DEF Reached
<1>12. line' \in Seq(Byte)
  <2>1. \A j \in n + 1 .. Len(line) : line[j] \in Byte
    BY <1>5, <1>6
  <2>2. n + 1 \in Int /\ Len(line) \in Int
    BY <1>5
  <2>3. SubSeq(line, n + 1, Len(line)) \in Seq(Byte)
    BY <2>1, <2>2, SubSeqProperties
  <2> QED
    BY <1>3, <2>3, EmptySeq
<1>13. fed' \in Seq(Byte)
  <2>1. \A j \in 1 .. r.used : line[j] \in Byte
    BY <1>5, <1>6, <1>9
  <2>2. r.used \in Int
    BY <1>9, <1>5
  <2>3. SubSeq(line, 1, r.used) \in Seq(Byte)
    BY <2>1, <2>2, SubSeqProperties
  <2> QED
    BY <1>2, <1>4, <2>3, ConcatProperties
<1>14. Found(fed)' = r.event
  BY <1>2, <1>4, <1>11 DEF Found
<1>15. FirstFrameFound'
  <2>1. CASE mode = "Primary"
    <3>1. Envelope(fed') = r.event
      BY <1>4, <1>14, <2>1 DEF Found
    <3> QED
      BY <1>2, <1>4, <2>1, <3>1 DEF FirstFrameFound, Judged
  <2>2. CASE mode # "Primary"
    <3>1. Echo(fed') = r.event
      BY <1>4, <1>14, <2>2 DEF Found
    <3>2. Judged(r.event) = r.event
      BY <2>2 DEF Judged
    <3> QED
      BY <1>2, <1>4, <2>2, <3>1, <3>2 DEF FirstFrameFound
  <2> QED
    BY <2>1, <2>2
<1>16. ASSUME outcome'.kind = "waiting" PROVE Found(fed)' = Waiting /\ Tracks(dec, fed)'
  <2>1. r.event.kind = "waiting"
    <3>1. CASE mode = "Primary" /\ r.event.kind = "frame" /\ r.event.payload[1] # RC_OK
      <4>1. Found(t).kind = "frame"
        BY <1>11, <3>1
      <4>2. Found(t) = Framed(Found(t).payload)
        BY <4>1 DEF Found, Envelope, Echo, Framed, Failed, Waiting
      <4>3. outcome' = [Framed(Found(t).payload) EXCEPT !.kind = "ecu_error"]
        BY <1>2, <1>11, <3>1, <4>2 DEF Judged
      <4>4. outcome'.kind = "ecu_error"
        BY <4>3 DEF Framed
      <4> QED
        BY <1>16, <4>4
    <3>2. CASE ~(mode = "Primary" /\ r.event.kind = "frame" /\ r.event.payload[1] # RC_OK)
      <4>1. Judged(r.event) = r.event
        BY <3>2 DEF Judged
      <4> QED
        BY <1>2, <1>16, <4>1
    <3> QED
      BY <3>1, <3>2
  <2>2. Found(t).kind = "waiting"
    BY <1>11, <2>1
  <2>3. Found(t) = Waiting
    BY <2>2, FoundKinds
  <2>4. Tracks(dec, fed)'
    BY <1>2, <1>4, <1>11, <2>1 DEF Tracks
  <2> QED
    BY <1>11, <1>14, <2>3, <2>4
<1> QED
  BY <1>12, <1>13, <1>15, <1>16 DEF WireInv

(* Every step keeps WireInv. *)
LEMMA WireNextInv == WireInv /\ [WireNext]_wireVars => WireInv'
<1>1. WireInv /\ UNCHANGED wireVars => WireInv'
  BY DEF WireInv, wireVars, Tracks, Found, FirstFrameFound, Judged
<1> QED
  BY <1>1, WireRequestInv, WireArriveInv, WireTimeoutInv, WireReadInv DEF WireNext

(* FirstFrameFound: for every byte width, frame limit, checksum and line,
   however the bytes are cut into reads, a decoder returns the frame at the
   first plausible length or after the first echo, and nothing before it is
   complete (Decoder::push of both, read_enveloped, read_secondary). *)
THEOREM FirstFrameFoundHolds == WireSpec => []FirstFrameFound
<1>1. WireInv => FirstFrameFound
  BY DEF WireInv
<1> QED
  BY <1>1, WireInitInv, WireNextInv, PTL DEF WireSpec

-----------------------------------------------------------------------------
(* EngineShutdown: the shutdown is justified, for every configuration the    *)
(* program accepts and every set of engine speeds.                           *)

(* A countdown runs only in an armed monitor of an enabled feature, and is   *)
(* no older than the last frame that did not show the engine stopped; a      *)
(* monitor that has fired has ended its thread.                              *)
MonitorInv ==
  /\ armed => enabled /\ ran
  /\ counting => armed /\ since <= still
  /\ requested => ~running

MonitorIInv == TypeOK /\ MonitorInv

LEMMA OlderTyped ==
  ASSUME NEW age \in Age
  PROVE  Older(age) \in Age /\ age <= Older(age)
BY ConfigAssumption DEF Age, Older

LEMMA OlderMonotone ==
  ASSUME NEW a \in Age, NEW b \in Age, a <= b
  PROVE  Older(a) <= Older(b)
BY ConfigAssumption DEF Age, Older

LEMMA ZeroAge == 0 \in Age
BY ConfigAssumption DEF Age

LEMMA MonitorInitInv == Init => MonitorIInv
BY ZeroAge DEF Init, MonitorIInv, TypeOK, MonitorInv

LEMMA MonitorNextInv == MonitorIInv /\ [Next]_vars => MonitorIInv'
<1> SUFFICES ASSUME MonitorIInv, [Next]_vars PROVE MonitorIInv'
  OBVIOUS
<1> USE ZeroAge DEF monitor, history
<1>1. CASE Frame
  <2>1. ran' \in BOOLEAN /\ still' \in Age /\ heard' \in Age /\ (ran => ran')
    BY <1>1 DEF Frame, MonitorIInv, TypeOK
  <2>2. CASE Ignores /\ UNCHANGED <<monitor, running, poweroff>>
    BY <1>1, <2>1, <2>2 DEF Frame, Ignores, MonitorIInv, TypeOK, MonitorInv
  <2>3. CASE ~Ignores /\ Arms /\ armed' = TRUE /\ Uncounted
             /\ UNCHANGED <<requested, running, poweroff>>
    <3>1. ran' = TRUE
      BY <1>1, <2>3 DEF Frame, Arms
    <3> QED BY <1>1, <2>1, <2>3, <3>1 DEF Frame, Ignores, Uncounted, MonitorIInv, TypeOK,
                                       MonitorInv
  <2>4. CASE Uncounted /\ UNCHANGED <<armed, requested, running, poweroff>>
    BY <1>1, <2>1, <2>4 DEF Frame, Uncounted, MonitorIInv, TypeOK, MonitorInv
  <2>5. CASE /\ ~Ignores /\ ~Arms /\ ~Cancels
             /\ counting' = TRUE /\ since' = Counted /\ UNCHANGED armed
    <3>1. armed /\ still' = still
      <4>1. armed /\ readable /\ rpm <= StopRpm
        BY <2>5, ConfigAssumption DEF Cancels, MonitorIInv, TypeOK
      <4> QED BY <1>1, <4>1 DEF Frame
    <3>2. since' \in Age /\ since' <= still'
      BY <2>5, <3>1 DEF Counted, MonitorIInv, TypeOK, MonitorInv, Age
    <3>3. CASE UNCHANGED <<requested, running, poweroff>>
      BY <1>1, <2>1, <2>5, <3>1, <3>2, <3>3 DEF Frame, MonitorIInv, TypeOK, MonitorInv
    <3>4. CASE requested' = TRUE /\ poweroff' \in {TRUE, poweroff} /\ running' = FALSE
      BY <1>1, <2>1, <2>5, <3>1, <3>2, <3>4 DEF Frame, MonitorIInv, TypeOK, MonitorInv
    <3> QED BY <1>1, <2>5, <3>3, <3>4 DEF Frame
  <2> QED BY <1>1, <2>2, <2>3, <2>4, <2>5 DEF Frame
<1>2. CASE Ends
  <2>1. running' \in BOOLEAN /\ ~running'
    BY <1>2, Zenon DEF Ends
  <2> QED BY <1>2, <2>1 DEF Ends, MonitorIInv, TypeOK, MonitorInv
<1>3. CASE Starts
  <2>1. /\ running' \in BOOLEAN /\ armed' \in BOOLEAN /\ counting' \in BOOLEAN
        /\ requested' \in BOOLEAN /\ ran' \in BOOLEAN
    BY <1>3, Zenon DEF Starts
  <2>2. ~armed' /\ ~counting' /\ ~requested'
    BY <1>3 DEF Starts
  <2> QED BY <1>3, <2>1, <2>2 DEF Starts, MonitorIInv, TypeOK, MonitorInv
<1>4. CASE Tick
  <2>1. still' \in Age /\ heard' \in Age /\ since' \in Age
    BY <1>4, OlderTyped DEF Tick, MonitorIInv, TypeOK
  <2>2. counting => since' <= still'
    BY <1>4, OlderMonotone DEF Tick, MonitorIInv, TypeOK, MonitorInv
  <2> QED BY <1>4, <2>1, <2>2 DEF Tick, MonitorIInv, TypeOK, MonitorInv
<1>5. CASE Engine
  BY <1>5 DEF Engine, MonitorIInv, TypeOK, MonitorInv
<1>6. CASE UNCHANGED vars
  BY <1>6 DEF vars, MonitorIInv, TypeOK, MonitorInv
<1> QED BY <1>1, <1>2, <1>3, <1>4, <1>5, <1>6 DEF Next

LEMMA MonitorInductive == Spec => []MonitorIInv
BY MonitorInitInv, MonitorNextInv, PTL DEF Spec

(* The appliance is never powered off on an engine that was not seen running *)
(* and then, frame after frame, standing for the configured delay.           *)
THEOREM ShutdownJustified == Spec => PoweroffJustified
<1>1. MonitorIInv /\ [Next]_vars
        => [~poweroff /\ poweroff' => enabled /\ ran /\ still >= Delay]_vars
  <2> SUFFICES ASSUME MonitorIInv, Next, ~poweroff, poweroff'
               PROVE  enabled /\ ran /\ still >= Delay
    OBVIOUS
  <2> USE DEF monitor, history
  <2>1. Frame
    BY DEF Next, Ends, Starts, Tick, Engine
  <2>2. ~Ignores /\ ~Cancels /\ Fires(Counted)
    BY <2>1 DEF Frame
  <2>3. counting /\ since >= Delay
    BY <2>2, ConfigAssumption DEF Fires, Counted
  <2> QED BY <2>3, ConfigAssumption DEF MonitorIInv, MonitorInv, TypeOK, Age
<1> QED BY <1>1, MonitorInductive, PTL DEF Spec, PoweroffJustified

=============================================================================
