---------------------------- MODULE Calibration ----------------------------
(***************************************************************************)
(* AFR calibration: the table of server/src/calibration.rs, its transfer   *)
(* in ecu-proto/src/calibration.rs, and do_calibration of comms.rs, which  *)
(* runs in the comms thread between two polls.                             *)
(*                                                                         *)
(* An exchange is one step.  The ECU answers in order, but an answer may   *)
(* be lost, or come after the deadline: then it stays on the line, and the *)
(* next request takes it for its own.                                      *)
(***************************************************************************)
EXTENDS Integers, Sequences

CONSTANTS
  AdcCount,         \* entries of the table (1024)
  blocking_factor,
  AfrScale,         \* table units per AFR
  Lines,            \* requests: [vl, al, vh, ah, preset]
  Presets,          \* names of presets, each with its line
  Factory,          \* the table an ECU comes with
  MaxLate           \* bound: answers that are outstanding at a time

\* data.chunks: the last one may be shorter.
Chunks == (AdcCount + blocking_factor - 1) \div blocking_factor

ASSUME CalibrationAssumption ==
  /\ AdcCount \in Nat /\ AdcCount > 1 /\ AfrScale \in Nat
  /\ blocking_factor \in Nat \ {0}
  /\ MaxLate \in Nat

\* Numbers are integers here, and a preset's line rises.
ASSUME LineAssumption ==
  /\ Factory \in [1 .. AdcCount -> 0 .. 255]
  /\ \A l \in Lines : {l.vl, l.al, l.vh, l.ah} \subseteq Int
  /\ \A p \in DOMAIN Presets :
       /\ {Presets[p].vl, Presets[p].al, Presets[p].vh, Presets[p].ah} \subseteq Int
       /\ Presets[p].vl < Presets[p].vh

VARIABLES
  table,     \* the ECU's calibration table
  speed,     \* the engine's speed
  session,   \* loaded tune and matching signature
  pending,   \* answers not yet taken off the line, oldest first
  phase,     \* the request do_calibration makes next, or "idle"
  chunk,     \* the chunk it sends next
  asked,     \* the line asked for
  data,      \* the table built from it
  told,      \* what the client was told of its last write
  swamped    \* ghost: when the last transfer began, more answers were late
             \* than it makes requests before the one for the checksum

calVars ==
  <<table, speed, session, pending, phase, chunk, asked, data, told, swamped>>

-----------------------------------------------------------------------------
(* Linear::table and encode.                                               *)
RoundNear(a, b) == IF a >= 0 THEN (2 * a + b) \div (2 * b) ELSE -((b - 2 * a) \div (2 * b))
Den(l) == (AdcCount - 1) * (l.vh - l.vl)
\* The line at an ADC step is AfrAt over Den.
AfrAt(l, adc) == l.al * Den(l) + (adc * 5 - l.vl * (AdcCount - 1)) * (l.ah - l.al)
EncodedAt(l, adc) == RoundNear(AfrAt(l, adc) * AfrScale, Den(l))

Valid(l) == /\ l.vl >= 0 /\ l.vh <= 5 /\ l.vl < l.vh
            /\ l.al > 0 /\ l.ah > l.al
Encodable(l) == \A adc \in 0 .. AdcCount - 1 : EncodedAt(l, adc) \in 0 .. 255
\* A preset's own line, once the numbers sent with it have passed.
Meant(l) == IF l.preset = "none" THEN l ELSE Presets[l.preset]
Acceptable(l) == /\ Valid(l) /\ l.preset \in DOMAIN Presets \cup {"none"}
                 /\ Encodable(Meant(l))
Table(l) == [i \in 1 .. AdcCount |-> EncodedAt(Meant(l), i - 1)]

-----------------------------------------------------------------------------
(* The ECU (external) and one exchange with it.                            *)
Answer(kind, v) == [kind |-> kind, v |-> v]
Slice(i) == (i - 1) * blocking_factor + 1 .. i * blocking_factor
Stored(i) == [k \in 1 .. AdcCount |-> IF k \in Slice(i) THEN data[k] ELSE table[k]]

\* The frame do_calibration reads first: a block too short for rpm has none.
Standing(a) == a.kind = "frame" /\ a.v = 0 /\ session
\* Any answer with RC_OK acknowledges a chunk, an old one too.
Acked(a) == a.kind # "refused"
\* The checksum stands for the table it is of; four bytes are asked for.
\* Mutant: the write is reported done once the chunks are acknowledged.
CrcMatches_Skipped(a) == TRUE
CrcMatches(a) == a.kind = "crc" /\ a.v = data
Satisfies(a) == CASE phase = "check" -> Standing(a)
                  [] phase = "write" -> Acked(a)
                  [] phase = "crc" -> CrcMatches(a)
                  [] OTHER -> TRUE

\* Served or not, answered or not; when an answer is taken that satisfies the
\* caller, it goes on as Then says.
Exchange(effect, answer, Then, Else) ==
  \E served, answered, mangled, dropped \in BOOLEAN :
    LET a   == IF served THEN answer ELSE Answer("refused", <<>>)
        all == IF answered THEN Append(pending, a) ELSE pending
    IN /\ table' = IF served THEN effect ELSE table
       /\ \/ /\ Len(all) <= MaxLate     \* nothing comes before the deadline
             /\ pending' = all /\ Else
          \/ /\ all # <<>> /\ mangled   \* bad checksum: the line is flushed
             /\ pending' = <<>> /\ Else
          \/ /\ all # <<>> /\ ~mangled  \* the rest may share a read with it
             /\ pending' = IF dropped THEN <<>> ELSE Tail(all)
             /\ IF Satisfies(Head(all)) THEN Then ELSE Else

Done(reply) == /\ phase' = "idle" /\ chunk' = 1
               /\ told' = IF told = "waiting" THEN reply ELSE told
GoTo(p) == phase' = p /\ UNCHANGED <<chunk, told>>

\* Any other request of the thread, polls first of all.
Poll ==
  /\ phase = "idle"
  /\ Exchange(table, Answer("frame", speed), UNCHANGED phase, UNCHANGED phase)
  /\ UNCHANGED <<speed, session, chunk, asked, data, told, swamped>>

\* afr_calibration_write: the table is built before anything is sent.
afr_calibration_write ==
  /\ phase = "idle"
  /\ \E l \in Lines :
       /\ asked' = l
       /\ IF Acceptable(l)
            THEN /\ data' = Table(l) /\ phase' = "check" /\ told' = "waiting"
                 /\ swamped' = (Len(pending) > Chunks + 1)
            ELSE told' = "refused" /\ UNCHANGED <<data, phase, swamped>>
  /\ UNCHANGED <<table, speed, session, pending, chunk>>

Check ==
  /\ phase = "check"
  /\ Exchange(table, Answer("frame", speed), GoTo("write"), Done("error"))
  /\ UNCHANGED <<speed, session, asked, data, swamped>>

WriteChunk ==
  /\ phase = "write"
  /\ Exchange(Stored(chunk), Answer("ack", <<>>),
              /\ chunk' = chunk + 1
              /\ phase' = IF chunk = Chunks THEN "crc" ELSE "write"
              /\ UNCHANGED told,
              Done("error"))
  /\ UNCHANGED <<speed, session, asked, data, swamped>>

Verify ==
  /\ phase = "crc"
  /\ Exchange(table, Answer("crc", table), Done("ok"), Done("error"))
  /\ UNCHANGED <<speed, session, asked, data, swamped>>

\* afr_calibration: the checksum alone.
afr_calibration ==
  /\ phase = "idle"
  /\ Exchange(table, Answer("crc", table), UNCHANGED phase, UNCHANGED phase)
  /\ UNCHANGED <<speed, session, chunk, asked, data, told, swamped>>

\* comms_roundtrip_timeout: the client gives up, the thread goes on.
GivesUp ==
  /\ phase # "idle" /\ told = "waiting" /\ told' = "timeout"
  /\ UNCHANGED <<table, speed, session, pending, phase, chunk, asked, data, swamped>>

\* The engine starts or stops; another tune or ECU is connected.
EngineTurns ==
  /\ speed' = 1 - speed
  /\ UNCHANGED <<table, session, pending, phase, chunk, asked, data, told,
                 swamped>>
Reconnect ==
  /\ phase = "idle"
  /\ session' \in BOOLEAN /\ pending' = <<>>
  /\ UNCHANGED <<table, speed, phase, chunk, asked, data, told, swamped>>

CalInit ==
  /\ table = Factory /\ speed = 0 /\ session = TRUE /\ pending = <<>>
  /\ phase = "idle" /\ chunk = 1 /\ data = Factory /\ told = "none"
  /\ swamped = FALSE
  /\ asked \in Lines

CalNext == \/ Poll \/ afr_calibration_write \/ Check \/ WriteChunk \/ Verify
           \/ afr_calibration \/ GivesUp \/ EngineTurns \/ Reconnect
CalSpec == CalInit /\ [][CalNext]_calVars

-----------------------------------------------------------------------------
\* A client is told that its calibration is written only when every entry of
\* the ECU's table lies within half a unit of the line it asked for: late
\* answers may acknowledge chunks the ECU never got, and a transfer may stop
\* half way, but the checksum read last tells (do_calibration, Linear::table).
\* A transfer that began with more late answers than it has requests before
\* the checksum's is excused: an old checksum may be among them.
WrittenMeansHeld ==
  told = "ok" /\ ~swamped =>
    \A adc \in 0 .. AdcCount - 1 :
      LET l == Meant(asked)
          off == table[adc + 1] * Den(l) - AfrAt(l, adc) * AfrScale
      IN 2 * off <= Den(l) /\ -(2 * off) <= Den(l)

=============================================================================
