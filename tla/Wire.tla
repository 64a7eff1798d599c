-------------------------------- MODULE Wire --------------------------------
(***************************************************************************)
(* Bytes on the serial line: the framing of envelope.rs, the SER3 decoder  *)
(* of secondary.rs and the read loops of session.rs that drive them.       *)
(*                                                                         *)
(* A byte has Base values and a length or checksum is scaled down with it; *)
(* the checksum is an operator, and a line may carry any bytes at all.     *)
(***************************************************************************)
EXTENDS Naturals, Sequences

CONSTANTS
  Base,         \* values of a byte (256)
  MAX_PAYLOAD,
  CrcLen,       \* bytes of the checksum (4)
  crc32(_),     \* checksum of a payload, a sequence of CrcLen bytes
  RC_OK,        \* return codes counted as success
  EchoCmd, EchoCan,  \* 'r' and 0x30
  Expect,       \* ochBlockSize
  MaxBytes      \* bytes on the line and read of it during one request

ASSUME WireAssumption ==
  /\ Base \in Nat \ {0} /\ CrcLen \in Nat
  /\ MAX_PAYLOAD \in 1 .. Base * Base - 1
  /\ RC_OK \in 0 .. Base - 1 /\ EchoCmd \in 0 .. Base - 1 /\ EchoCan \in 0 .. Base - 1
  /\ EchoCmd # EchoCan /\ Expect \in Nat \ {0}

Byte == 0 .. Base - 1

VARIABLES
  mode,     \* Config.mode
  line,     \* bytes the kernel holds
  dec,      \* the decoder of the pending request
  outcome,  \* what the pending request has come to
  fed       \* ghost: the bytes the decoder was given

wireVars == <<mode, line, dec, outcome, fed>>

Waiting  == [kind |-> "waiting", payload |-> <<>>]
Framed(p) == [kind |-> "frame", payload |-> p]
Failed(k) == [kind |-> k, payload |-> <<>>]

-----------------------------------------------------------------------------
(* envelope.rs.                                                            *)
encode(p) == <<Len(p) \div Base, Len(p) % Base>> \o p \o crc32(p)

Fresh == [state |-> "Header", header |-> <<>>, payload_len |-> 0, buf |-> <<>>]
Plausible(len) == len > 0 /\ len <= MAX_PAYLOAD

\* Mutant: an implausible length drops both bytes.
PushHeader_DropBoth(d, b) ==
  LET h   == Append(d.header, b)
      len == Base * h[1] + h[2]
  IN IF Len(h) < 2 THEN [d EXCEPT !.header = h]
     ELSE IF Plausible(len)
          THEN [d EXCEPT !.state = "Payload", !.header = h, !.payload_len = len, !.buf = <<>>]
          ELSE [d EXCEPT !.header = <<>>]
PushHeader(d, b) ==
  LET h   == Append(d.header, b)
      len == Base * h[1] + h[2]
  IN IF Len(h) < 2 THEN [d EXCEPT !.header = h]
     ELSE IF Plausible(len)
          THEN [d EXCEPT !.state = "Payload", !.header = h, !.payload_len = len, !.buf = <<>>]
          ELSE [d EXCEPT !.header = <<b>>]

\* Decoder::push: the decoder after a byte and the event, if any.
PushEnvelope(d, b) ==
  IF d.state = "Header" THEN [dec |-> PushHeader(d, b), event |-> Waiting]
  ELSE LET buf == Append(d.buf, b)
           p   == SubSeq(buf, 1, d.payload_len)
       IN IF Len(buf) < d.payload_len + CrcLen
          THEN [dec |-> [d EXCEPT !.buf = buf], event |-> Waiting]
          ELSE [dec |-> [d EXCEPT !.state = "Header", !.header = <<>>, !.buf = buf],
                event |-> IF crc32(p) = SubSeq(buf, d.payload_len + 1, Len(buf))
                          THEN Framed(p) ELSE Failed("crc")]

-----------------------------------------------------------------------------
(* secondary.rs: no length, no checksum, only the echo of the command.     *)
FreshEcho == [state |-> "CmdEcho", header |-> <<>>, payload_len |-> Expect, buf |-> <<>>]

AfterEcho(b) == IF b = EchoCan THEN "Payload" ELSE IF b # EchoCmd THEN "CmdEcho" ELSE "CanCmd"

PushEcho(d, b) ==
  LET buf == Append(d.buf, b)
  IN CASE d.state = "CmdEcho" ->
            [dec |-> IF b = EchoCmd THEN [d EXCEPT !.state = "CanCmd"] ELSE d, event |-> Waiting]
       [] d.state = "CanCmd" ->
            [dec |-> [d EXCEPT !.state = AfterEcho(b), !.buf = <<>>], event |-> Waiting]
       [] d.state = "Payload" ->
            IF Len(buf) = d.payload_len
            THEN [dec |-> [d EXCEPT !.state = "CmdEcho", !.buf = <<>>], event |-> Framed(buf)]
            ELSE [dec |-> [d EXCEPT !.buf = buf], event |-> Waiting]

Push(d, b) == IF mode = "Primary" THEN PushEnvelope(d, b) ELSE PushEcho(d, b)

-----------------------------------------------------------------------------
(* session.rs: a request has a decoder of its own; what an earlier one left *)
(* on the line is still there.                                             *)
Request ==
  /\ outcome.kind # "waiting"
  /\ dec' = IF mode = "Primary" THEN Fresh ELSE FreshEcho
  /\ outcome' = Waiting /\ fed' = <<>>
  /\ UNCHANGED <<mode, line>>

\* A byte comes in: of the answer, of a late answer, or noise.
Arrive ==
  /\ Len(line) + Len(fed) < MaxBytes
  /\ \E b \in Byte : line' = Append(line, b)
  /\ UNCHANGED <<mode, dec, outcome, fed>>

\* One transport read.  The bytes of the chunk after the end of a frame are
\* dropped with the chunk; those still on the line after a bad checksum are
\* flushed; a return code other than RC_OK is an error.
PushNext(r, b, k) ==
  IF r.event.kind # "waiting" THEN r
  ELSE [used |-> k, dec |-> Push(r.dec, b).dec, event |-> Push(r.dec, b).event]
Pushed(chunk) ==
  LET run[k \in 0 .. Len(chunk)] ==
        IF k = 0 THEN [used |-> 0, dec |-> dec, event |-> Waiting]
        ELSE PushNext(run[k - 1], chunk[k], k)
  IN run
Upto(chunk) == Pushed(chunk)[Len(chunk)]
Judged(e) == IF mode = "Primary" /\ e.kind = "frame" /\ e.payload[1] # RC_OK
             THEN [e EXCEPT !.kind = "ecu_error"] ELSE e
ReadSome ==
  /\ outcome.kind = "waiting" /\ line # <<>>
  /\ \E n \in 1 .. Len(line) :
       LET r == Upto(SubSeq(line, 1, n))
       IN /\ dec' = r.dec /\ outcome' = Judged(r.event)
          /\ fed' = fed \o SubSeq(line, 1, r.used)
          /\ line' = IF r.event.kind = "crc" THEN <<>> ELSE SubSeq(line, n + 1, Len(line))
  /\ UNCHANGED mode

Timeout ==
  /\ outcome.kind = "waiting"
  /\ outcome' = Failed("timeout")
  /\ UNCHANGED <<mode, line, dec, fed>>

WireInit ==
  /\ mode \in {"Primary", "Secondary"} /\ line = <<>>
  /\ dec = Fresh /\ outcome = Failed("timeout") /\ fed = <<>>

WireNext == Request \/ Arrive \/ ReadSome \/ Timeout

WireSpec == WireInit /\ [][WireNext]_wireVars

-----------------------------------------------------------------------------
(* What the decoders are to find, said of the bytes alone.                 *)
HeaderAt(s, i) == Base * s[i] + s[i + 1]
Plausibles(s) == {i \in 1 .. Len(s) - 1 : Plausible(HeaderAt(s, i))}
First(S) == CHOOSE i \in S : \A j \in S : i <= j
Envelope(s) ==
  IF Plausibles(s) = {} THEN Waiting
  ELSE LET i == First(Plausibles(s))
           n == HeaderAt(s, i)
           p == SubSeq(s, i + 2, i + 1 + n)
       IN IF Len(s) < i + 1 + n + CrcLen THEN Waiting
          ELSE IF SubSeq(s, i + 2 + n, i + 1 + n + CrcLen) = crc32(p) THEN Framed(p)
          ELSE Failed("crc")
Echoes(s) == {i \in 1 .. Len(s) - 1 : s[i] = EchoCmd /\ s[i + 1] = EchoCan}
Echo(s) ==
  IF Echoes(s) = {} \/ Len(s) < First(Echoes(s)) + 1 + Expect THEN Waiting
  ELSE Framed(SubSeq(s, First(Echoes(s)) + 2, First(Echoes(s)) + 1 + Expect))

\* However the bytes are cut into reads, and whatever stands before it on the
\* line, the decoder returns the frame at the first plausible length, with its
\* checksum, and of SER3 the ochBlockSize bytes after the first echo, a repeated
\* 'r' before it included (both Decoder::push, read_enveloped, read_secondary).
FirstFrameFound ==
  outcome.kind # "timeout" =>
    outcome = IF mode = "Primary" THEN Judged(Envelope(fed)) ELSE Echo(fed)
=============================================================================
