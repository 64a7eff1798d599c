------------------------------ MODULE TuneSync ------------------------------
(***************************************************************************)
(* The tune and its two shadows against the real ECU.                      *)
(*                                                                         *)
(* rustytune keeps three copies of every tune page (tune-model, PageState): *)
(* the bytes the user wants (data), what it believes the ECU's RAM holds   *)
(* (ecu) and what it believes the EEPROM holds (burned).  HTTP handlers    *)
(* edit data at any moment; the comms thread (server/src/comms.rs)         *)
(* downloads the pages, pushes the edits with M writes, verifies them with *)
(* d checksums, re-reads a page that fails verification, and burns.        *)
(* Between the thread and the ECU lies a serial line with one command in   *)
(* flight, no sequence numbers and a response deadline.                    *)
(*                                                                         *)
(* Abstractions.  A page is a function from a few offsets to a few values. *)
(* CRC32 is taken as collision free: a checksum is the page it sums.       *)
(* Answers are whole frames; an answer of the wrong kind has the wrong     *)
(* length for p and d.  The tune mutex is held for a single action.        *)
(***************************************************************************)
EXTENDS Naturals, Sequences

CONSTANTS NumPages,        \* page_sizes.len()
          PageSize,        \* bytes of a page
          Values,          \* what a byte can hold
          Zero,            \* the byte Tune::new fills pages with
          BlockingFactor,  \* longest p read and M write
          MaxGap,          \* SPAN_MERGE_GAP
          MaxEdits,        \* bound: edits the clients make
          MaxCmds,         \* bound: commands waiting in the channel
          MaxBurns,        \* bound: burn requests
          MaxSessions,     \* bound: connections
          MaxTrouble       \* bound: lost or corrupted messages, deadlines
                           \* that pass before the answer, ECU power cycles

ASSUME SizeAssumption == /\ NumPages \in Nat \ {0}
                         /\ PageSize \in Nat \ {0}
                         /\ BlockingFactor \in Nat \ {0}
                         /\ MaxGap \in Nat
ASSUME ValuesAssumption == Zero \in Values
ASSUME BoundAssumption == {MaxEdits, MaxCmds, MaxBurns, MaxSessions,
                           MaxTrouble} \subseteq Nat

Page == 1..NumPages
Offset == 1..PageSize
Contents == [Offset -> Values]
BlankPage == [o \in Offset |-> Zero]

VARIABLES
  data, ecu, burned,  \* PageState: wanted bytes, RAM shadow, EEPROM shadow
  loaded,             \* Tune::loaded
  ram, eeprom,        \* the ECU's own copies
  resized,            \* pages the ECU's firmware sizes otherwise than the INI
  toEcu, inbox,       \* requests on the wire, answers in the serial input
  pc,                 \* where the comms thread is
  cur,                \* page being downloaded, flushed or burned
  todo,               \* pages the current loop has still to visit
  chunk, spans, sent, \* chunk being written, those after it, their bytes
  got, at, attempt,   \* read_page: bytes so far, next offset; download attempts
  burning,            \* flush_dirty was called by do_burn
  cmds,               \* the mpsc command channel
  reply,              \* what the last Burn command was answered
  edits, burns, sessions, faults, lates, reboots,  \* counters for the bounds
  blind,              \* ghost: pages with a failed exchange since last verify
  unsure,             \* ghost: pages whose EEPROM the session has not seen
  excused             \* ghost: bytes a client changed this session; all of
                      \* them if requests of an earlier one were on their way

tune    == <<data, ecu, burned, loaded>>
store   == <<ram, eeprom, resized>>
wire    == <<toEcu, inbox>>
writing == <<chunk, spans, sent>>
reading == <<got, at, attempt>>
thread  == <<pc, cur, todo, writing, reading, burning>>
client  == <<edits, burns, sessions>>
trouble == <<faults, lates, reboots>>
ghost   == <<blind, unsure, excused>>
vars == <<tune, store, wire, thread, cmds, reply, client, trouble, ghost>>

TroubleLeft == faults + lates + reboots < MaxTrouble

-----------------------------------------------------------------------------
(* Requests and answers.                                                   *)

NoBytes == [o \in {} |-> Zero]
Request(cmd, p, from, bytes) ==
  [cmd |-> cmd, page |-> p, from |-> from, bytes |-> bytes]
Query     == Request("Q", 1, 1, NoBytes)     \* query_string(queryCommand)
ReadPage(p, from) == Request("p", p, from, NoBytes)
PageCrc(p)  == Request("d", p, 1, NoBytes)
Burn(p)     == Request("b", p, 1, NoBytes)
Poll        == Request("r", 1, 1, NoBytes)   \* read_realtime
WriteChunk_Padded(p, bytes) ==
  Request("M", p, 1, [o \in Offset |-> IF o \in DOMAIN bytes THEN bytes[o]
                                      ELSE Zero])
WriteChunk(p, bytes) == Request("M", p, 1, bytes)

(* read_page: the last offset of the part that begins at from. *)
PartEnd(from) == IF from + BlockingFactor > PageSize THEN PageSize
                 ELSE from + BlockingFactor - 1
PartLen(from) == PartEnd(from) - from + 1

(* What the ECU answers: the shape of the payload is that of the command    *)
(* (bytes, checksum, none, a block) and its content is the RAM right now.   *)
(* Of a page it sizes otherwise than the INI it sums other bytes than were    *)
(* read; one of the same size passes whatever its fields are, since neither   *)
(* the checksum nor a p answer tells what the bytes mean.                     *)
Response(req) ==
  [kind |-> req.cmd,
   v    |-> IF req.cmd = "p"
              THEN [i \in 1..PartLen(req.from) |->
                      ram[req.page][req.from + i - 1]]
            ELSE IF req.cmd = "d" /\ req.page \notin resized THEN ram[req.page]
            ELSE NoBytes]

(* Nothing in an answer names the request it belongs to.  RC_BURN_OK passes *)
(* for a burn only, and p and d check the payload's length; RC_OK with any  *)
(* payload passes for everything else.                                      *)
Accepts(cmd, a) == /\ a.kind = "b" => cmd = "b"
                   /\ cmd \in {"p", "d"} => a.kind = cmd
                   /\ cmd = "p" => DOMAIN a.v = 1..PartLen(at)

Overlay(page, bytes) ==
  [o \in Offset |-> IF o \in DOMAIN bytes THEN bytes[o] ELSE page[o]]

-----------------------------------------------------------------------------
(* tune-model: dirty tracking.                                             *)

page_dirty(p) == data[p] # ecu[p]
page_burn_pending_Dirty(p) == data[p] # ecu[p]
page_burn_pending(p) == ecu[p] # burned[p]

DirtyBytes(p) == {o \in Offset : data[p][o] # ecu[p][o]}

(* A span starts at a dirty byte with no dirty byte at most MaxGap clean    *)
(* bytes before it, and reaches to the last dirty byte before the next one. *)
SpanStarts(p) ==
  {s \in DirtyBytes(p) :
     \A d \in DirtyBytes(p) : d < s => s - (d + 1) > MaxGap}
InSpan(p, s, o) ==
  /\ s <= o
  /\ \E d \in DirtyBytes(p) : d >= o
                            /\ \A t \in SpanStarts(p) : t > s => d < t

(* The spans cut into M writes of at most BlockingFactor bytes. *)
dirty_spans(p) ==
  {{o \in Offset : InSpan(p, s, o) /\ (o - s) \div BlockingFactor = k} :
      s \in SpanStarts(p), k \in 0..PageSize} \ {{}}

(* The loops over pages and chunks go upwards. *)
IsLeast(p, S) == p \in S /\ \A q \in S : p <= q
IsFirst(c, S) == c \in S /\ \A d \in S \ {c} : \A x \in c, y \in d : x < y

load_page(p, bytes) == /\ data' = [data EXCEPT ![p] = bytes]
                       /\ ecu' = [ecu EXCEPT ![p] = bytes]
                       /\ burned' = [burned EXCEPT ![p] = bytes]

mark_sent(p, span) ==
  /\ ecu' = [ecu EXCEPT ![p] =
               [o \in Offset |-> IF o \in span THEN data[p][o] ELSE ecu[p][o]]]
  /\ UNCHANGED <<data, burned>>

resync_ecu_Skipped(p, bytes) == UNCHANGED <<data, ecu, burned>>
resync_ecu_Reloads(p, bytes) == load_page(p, bytes)
resync_ecu(p, bytes) == /\ ecu' = [ecu EXCEPT ![p] = bytes]
                        /\ UNCHANGED <<data, burned>>

mark_burned_Data(p) == /\ burned' = [burned EXCEPT ![p] = data[p]]
                       /\ UNCHANGED <<data, ecu>>
mark_burned(p) == /\ burned' = [burned EXCEPT ![p] = ecu[p]]
                  /\ UNCHANGED <<data, ecu>>

-----------------------------------------------------------------------------
(* The serial exchange, from the comms thread's side (Session::request).   *)

AwaitStates == {"query", "read", "crc", "write", "verify", "resync", "burn",
                "poll"}
AwaitedCmd == IF pc \in {"read", "resync"} THEN "p"
              ELSE IF pc \in {"crc", "verify"} THEN "d"
              ELSE IF pc = "burn" THEN "b" ELSE "any"

Send(req) == toEcu' = Append(toEcu, req)

(* read_enveloped takes the next answer in the input, whichever request it  *)
(* belongs to; answers behind it that came with the same read are dropped.  *)
Leftovers == {SubSeq(inbox, k, Len(inbox)) : k \in 2..(Len(inbox) + 1)}
Receive == /\ inbox # <<>>
           /\ Accepts(AwaitedCmd, Head(inbox))
           /\ inbox' \in Leftovers
           /\ UNCHANGED trouble
Payload == Head(inbox).v

(* The exchange ends in a ProtoError: a wrong return code or length; a      *)
(* corrupted frame, after which the input is flushed; or the deadline, which *)
(* flushes nothing.  A deadline that passes while the answer is still to     *)
(* come, or unread, leaves it for the next exchange.                         *)
Rejected == /\ inbox # <<>>
            /\ ~Accepts(AwaitedCmd, Head(inbox))
            /\ inbox' \in Leftovers
            /\ UNCHANGED trouble
CrcMismatch == /\ inbox # <<>>
               /\ TroubleLeft
               /\ faults' = faults + 1
               /\ inbox' = <<>>
               /\ UNCHANGED <<lates, reboots>>
Timeout == /\ \/ toEcu = <<>> /\ inbox = <<>> /\ UNCHANGED lates
              \/ /\ toEcu # <<>> \/ inbox # <<>>
                 /\ TroubleLeft
                 /\ lates' = lates + 1
           /\ UNCHANGED <<inbox, faults, reboots>>
ExchangeFails == Rejected \/ CrcMismatch \/ Timeout

(* read_page appends the parts it gets, one exchange after the other. *)
Filled == [o \in Offset |-> IF o \in at..PartEnd(at) THEN Payload[o - at + 1]
                            ELSE got[o]]
LastPart == PartEnd(at) = PageSize
ReadOn ==
  /\ pc \in {"read", "resync"}
  /\ ~LastPart
  /\ Receive
  /\ got' = Filled
  /\ at' = PartEnd(at) + 1
  /\ Send(ReadPage(cur, PartEnd(at) + 1))
  /\ UNCHANGED <<tune, store, pc, cur, todo, writing, attempt, burning, cmds,
                 reply, client, ghost>>

-----------------------------------------------------------------------------
(* Connecting: a fresh tune, a flushed port, a new comms thread that asks   *)
(* for the signature and then downloads every page.  The flush drops what   *)
(* the kernel still holds; a request the ECU already has, it will answer.   *)

Connect ==
  /\ pc = "down"
  /\ sessions < MaxSessions
  /\ sessions' = sessions + 1
  /\ data' = [p \in Page |-> BlankPage]
  /\ ecu' = [p \in Page |-> BlankPage]
  /\ burned' = [p \in Page |-> BlankPage]
  /\ loaded' = FALSE
  /\ inbox' = <<>>
  /\ \E held \in {toEcu, <<>>} :
       /\ toEcu' = Append(held, Query)
       /\ excused' = IF held = <<>> THEN {} ELSE Page \X Offset
  /\ pc' = "query"
  /\ reply' = "none"
  /\ blind' = {} /\ unsure' = {}
  /\ UNCHANGED <<store, cur, todo, writing, reading, burning, cmds, edits,
                 burns, trouble>>

(* A signature that differs or does not come is reported and nothing more. *)
QueryEnds ==
  /\ pc = "query"
  /\ Receive \/ ExchangeFails
  /\ pc' = "read" /\ cur' = 1 /\ attempt' = 1
  /\ Send(ReadPage(1, 1))
  /\ UNCHANGED <<tune, store, todo, writing, got, at, burning, cmds, reply,
                 client, ghost>>

(* download_tune: read a page, ask for its checksum, load it if they agree, *)
(* read it once more if they do not.                                        *)
DownloadRead ==
  /\ pc = "read"
  /\ LastPart
  /\ Receive
  /\ got' = Filled /\ at' = 1
  /\ pc' = "crc"
  /\ Send(PageCrc(cur))
  /\ UNCHANGED <<tune, store, cur, todo, writing, attempt, burning, cmds,
                 reply, client, ghost>>

CrcAgrees_Ignored == TRUE
CrcAgrees == Payload = got
MayRetry == attempt < 2

DownloadPage ==
  /\ pc = "crc"
  /\ Receive /\ CrcAgrees
  /\ load_page(cur, got)
  /\ got' = BlankPage
  /\ attempt' = 1
  /\ blind' = blind \ {cur}
  /\ unsure' = IF eeprom[cur] = got THEN unsure \ {cur} ELSE unsure \cup {cur}
  /\ \/ /\ cur < NumPages
        /\ cur' = cur + 1
        /\ pc' = "read"
        /\ Send(ReadPage(cur + 1, 1))
        /\ UNCHANGED loaded
     \/ /\ cur = NumPages
        /\ loaded' = TRUE
        /\ pc' = "idle" /\ cur' = 1
        /\ UNCHANGED toEcu
  /\ UNCHANGED <<store, todo, writing, at, burning, cmds, reply, client,
                 excused>>

DownloadMismatch ==
  /\ pc = "crc"
  /\ Receive /\ ~CrcAgrees
  /\ got' = BlankPage
  /\ IF MayRetry
       THEN /\ attempt' = attempt + 1
            /\ pc' = "read"
            /\ Send(ReadPage(cur, 1))
            /\ UNCHANGED cur
       ELSE /\ attempt' = 1 /\ pc' = "idle" /\ cur' = 1
            /\ UNCHANGED toEcu
  /\ UNCHANGED <<tune, store, todo, writing, at, burning, cmds, reply, client,
                 ghost>>

(* A failed download is reported; the thread goes on without a loaded tune. *)
DownloadFails ==
  /\ pc \in {"read", "crc"}
  /\ ExchangeFails
  /\ pc' = "idle" /\ cur' = 1 /\ got' = BlankPage /\ at' = 1
  /\ attempt' = 1
  /\ UNCHANGED <<tune, store, toEcu, todo, writing, burning, cmds, reply,
                 client, ghost>>

-----------------------------------------------------------------------------
(* The thread's main loop: drain the commands, flush the edits, poll.      *)

(* The thread returns: the tune is unloaded, its queue dropped, and nothing *)
(* that is still dirty is sent.                                             *)
Exit == /\ pc' = "down"
        /\ loaded' = FALSE
        /\ cmds' = <<>>
        /\ UNCHANGED <<data, ecu, burned, store, cur, todo, writing, reading,
                       burning, reply, client, ghost>>

Shutdown ==
  /\ pc = "idle"
  /\ cmds # <<>> /\ Head(cmds) = "shutdown"
  /\ Exit
  /\ UNCHANGED <<wire, trouble>>

BurnRefused ==
  /\ pc = "idle"
  /\ cmds # <<>> /\ Head(cmds) = "burn"
  /\ ~loaded
  /\ cmds' = Tail(cmds)
  /\ reply' = "err"
  /\ UNCHANGED <<tune, store, wire, thread, client, trouble, ghost>>

(* flush_dirty collects the dirty pages under one lock ... *)
StartFlush ==
  /\ pc = "idle"
  /\ loaded
  /\ \/ /\ cmds # <<>> /\ Head(cmds) = "burn"
        /\ cmds' = Tail(cmds)
        /\ reply' = "none"
        /\ burning' = TRUE
     \/ /\ cmds = <<>>
        /\ UNCHANGED <<cmds, reply, burning>>
  /\ todo' = {p \in Page : page_dirty(p)}
  /\ pc' = "flush"
  /\ UNCHANGED <<tune, store, wire, cur, writing, reading, client, trouble,
                 ghost>>

(* The next chunk of page p goes out, or the checksum request after the last. *)
WriteNext(p, S, bytes) ==
  \/ /\ S = {}
     /\ pc' = "verify" /\ chunk' = {} /\ spans' = {} /\ sent' = BlankPage
     /\ Send(PageCrc(p))
  \/ \E c \in S :
       /\ IsFirst(c, S)
       /\ pc' = "write" /\ chunk' = c /\ spans' = S \ {c} /\ sent' = bytes
       /\ Send(WriteChunk(p, [o \in c |-> bytes[o]]))

(* ... takes the spans of each under another, with the bytes they hold now, *)
(* and writes them chunk by chunk with the lock released.                   *)
FlushPage ==
  /\ pc = "flush"
  /\ \E p \in todo :
       /\ IsLeast(p, todo)
       /\ cur' = p
       /\ todo' = todo \ {p}
       /\ WriteNext(p, dirty_spans(p), data[p])
  /\ UNCHANGED <<tune, store, inbox, reading, burning, cmds, reply, client,
                 trouble, ghost>>

(* An accepted M answer marks the chunk's range sent -- with the bytes the  *)
(* tune holds by then -- and the next chunk, or the checksum request, goes. *)
WriteAcked ==
  /\ pc = "write"
  /\ Receive
  /\ mark_sent(cur, chunk)
  /\ WriteNext(cur, spans, sent)
  /\ UNCHANGED <<loaded, store, cur, todo, reading, burning, cmds, reply,
                 client, ghost>>

(* A failed write ends flush_dirty at once: no verification, no later page. *)
WriteFails ==
  /\ pc = "write"
  /\ ExchangeFails
  /\ pc' = "flush" /\ todo' = {}
  /\ chunk' = {} /\ spans' = {} /\ sent' = BlankPage
  /\ blind' = blind \cup {cur}
  /\ UNCHANGED <<tune, store, toEcu, cur, reading, burning, cmds, reply,
                 client, unsure, excused>>

Verified ==
  /\ pc = "verify"
  /\ Receive /\ Payload = ecu[cur]
  /\ pc' = "flush"
  /\ blind' = blind \ {cur}
  /\ UNCHANGED <<tune, store, toEcu, cur, todo, writing, reading, burning,
                 cmds, reply, client, unsure, excused>>

VerifyMismatch ==
  /\ pc = "verify"
  /\ Receive /\ Payload # ecu[cur]
  /\ pc' = "resync"
  /\ Send(ReadPage(cur, 1))
  /\ UNCHANGED <<tune, store, cur, todo, writing, reading, burning, cmds,
                 reply, client, ghost>>

Resynced ==
  /\ pc = "resync"
  /\ LastPart
  /\ Receive
  /\ resync_ecu(cur, Filled)
  /\ pc' = "flush" /\ got' = BlankPage /\ at' = 1
  /\ blind' = blind \ {cur}
  /\ UNCHANGED <<loaded, store, toEcu, cur, todo, writing,
                 attempt, burning, cmds, reply, client, unsure, excused>>

(* A checksum or re-read that fails is logged; the next page follows. *)
VerifyFails ==
  /\ pc \in {"verify", "resync"}
  /\ ExchangeFails
  /\ pc' = "flush" /\ got' = BlankPage /\ at' = 1
  /\ blind' = blind \cup {cur}
  /\ UNCHANGED <<tune, store, toEcu, cur, todo, writing, attempt, burning,
                 cmds, reply, client, unsure, excused>>

(* do_burn goes on whatever became of the flush: the pages whose shadows    *)
(* differ are burned one after the other; the first failure is the reply.   *)
BurnNext(S) ==
  \/ /\ S = {}
     /\ reply' = "ok" /\ burning' = FALSE /\ pc' = "idle" /\ todo' = {}
     /\ UNCHANGED <<cur, toEcu>>
  \/ \E p \in S :
       /\ IsLeast(p, S)
       /\ cur' = p /\ todo' = S \ {p} /\ pc' = "burn"
       /\ Send(Burn(p))
       /\ UNCHANGED <<reply, burning>>

StartBurn ==
  /\ pc = "flush" /\ todo = {} /\ burning
  /\ BurnNext({p \in Page : page_burn_pending(p)})
  /\ UNCHANGED <<tune, store, inbox, writing, reading, cmds, client, trouble,
                 ghost>>

BurnAcked ==
  /\ pc = "burn"
  /\ Receive
  /\ mark_burned(cur)
  /\ unsure' = IF cur \in blind THEN unsure \cup {cur} ELSE unsure \ {cur}
  /\ BurnNext(todo)
  /\ UNCHANGED <<loaded, store, writing, reading, cmds, client, blind, excused>>

BurnFails ==
  /\ pc = "burn"
  /\ ExchangeFails
  /\ reply' = "err" /\ burning' = FALSE /\ pc' = "idle" /\ todo' = {}
  /\ unsure' = unsure \cup {cur}
  /\ UNCHANGED <<tune, store, toEcu, cur, writing, reading, cmds, client,
                 blind, excused>>

(* After the flush: poll if the poll interval has passed, else loop. *)
FlushDone ==
  /\ \/ pc = "flush" /\ todo = {} /\ ~burning
     \/ pc = "idle" /\ cmds = <<>> /\ ~loaded
  /\ \/ pc' = "poll" /\ Send(Poll)
     \/ pc' = "idle" /\ UNCHANGED toEcu
  /\ UNCHANGED <<tune, store, inbox, cur, todo, writing, reading, burning,
                 cmds, reply, client, trouble, ghost>>

(* A frame, a corrupted frame and silence all lead back to the loop (the     *)
(* engine-off return after a frame is EngineShutdown's; here it is disabled) *)
(* ... *)
PollEnds ==
  /\ pc = "poll"
  /\ Receive \/ CrcMismatch \/ Timeout
  /\ pc' = "idle"
  /\ UNCHANGED <<tune, store, toEcu, cur, todo, writing, reading, burning,
                 cmds, reply, client, ghost>>

(* ... an error code or a lost device ends the session. *)
PollDisconnects ==
  /\ pc = "poll"
  /\ \/ Rejected /\ UNCHANGED toEcu
     \/ /\ TroubleLeft
        /\ faults' = faults + 1
        /\ toEcu' = <<>> /\ inbox' = <<>>
        /\ UNCHANGED <<lates, reboots>>
  /\ Exit

-----------------------------------------------------------------------------
(* HTTP handlers, which run beside the thread.                             *)

Edit(p, o, v) ==
  /\ loaded
  /\ edits < MaxEdits
  /\ edits' = edits + 1
  /\ v # data[p][o]
  /\ data' = [data EXCEPT ![p][o] = v]
  /\ excused' = excused \cup {<<p, o>>}
  /\ UNCHANGED <<ecu, burned, loaded, store, wire, thread, cmds, reply, burns,
                 sessions, trouble, blind, unsure>>

Enqueue(cmd) ==
  /\ pc # "down"
  /\ Len(cmds) < MaxCmds
  /\ \A i \in DOMAIN cmds : cmds[i] # "shutdown"
  /\ cmds' = Append(cmds, cmd)
  /\ UNCHANGED <<tune, store, wire, thread, reply, edits, sessions, trouble,
                 ghost>>

tune_burn == Enqueue("burn") /\ burns < MaxBurns /\ burns' = burns + 1
disconnect == Enqueue("shutdown") /\ UNCHANGED burns

-----------------------------------------------------------------------------
(* The ECU, and what can go wrong on the way to it and back.               *)

EcuServes ==
  /\ toEcu # <<>>
  /\ LET req == Head(toEcu)
     IN /\ ram' = IF req.cmd = "M"
                    THEN [ram EXCEPT ![req.page] = Overlay(@, req.bytes)]
                    ELSE ram
        /\ eeprom' = IF req.cmd = "b"
                       THEN [eeprom EXCEPT ![req.page] = ram[req.page]]
                       ELSE eeprom
        /\ inbox' = Append(inbox, Response(req))
        /\ toEcu' = Tail(toEcu)
  /\ UNCHANGED <<tune, resized, thread, cmds, reply, client, trouble, ghost>>

(* A request the ECU drops for its bad checksum, an answer that never comes. *)
MessageLost ==
  /\ TroubleLeft
  /\ faults' = faults + 1
  /\ \/ toEcu # <<>> /\ toEcu' = Tail(toEcu) /\ UNCHANGED inbox
     \/ inbox # <<>> /\ inbox' = Tail(inbox) /\ UNCHANGED toEcu
  /\ UNCHANGED <<tune, store, thread, cmds, reply, client, lates, reboots,
                 ghost>>

(* The ignition is cycled: the working copy starts from the burned one. *)
PowerCycle ==
  /\ TroubleLeft
  /\ reboots' = reboots + 1
  /\ ram' = eeprom
  /\ toEcu' = <<>>
  /\ UNCHANGED <<tune, eeprom, resized, inbox, thread, cmds, reply, client,
                 faults, lates, ghost>>

(* The last session of the bounded run is over. *)
Closed == pc = "down" /\ sessions = MaxSessions /\ UNCHANGED vars

-----------------------------------------------------------------------------
Init ==
  /\ eeprom \in [Page -> Contents] /\ ram = eeprom
  /\ resized \in SUBSET Page
  /\ data = [p \in Page |-> BlankPage]
  /\ ecu = [p \in Page |-> BlankPage]
  /\ burned = [p \in Page |-> BlankPage]
  /\ loaded = FALSE
  /\ toEcu = <<>> /\ inbox = <<>>
  /\ pc = "down" /\ cur = 1 /\ todo = {}
  /\ chunk = {} /\ spans = {} /\ sent = BlankPage
  /\ got = BlankPage /\ at = 1 /\ attempt = 1 /\ burning = FALSE
  /\ cmds = <<>> /\ reply = "none"
  /\ edits = 0 /\ burns = 0 /\ sessions = 0
  /\ faults = 0 /\ lates = 0 /\ reboots = 0
  /\ blind = {} /\ unsure = {} /\ excused = {}

Download == QueryEnds \/ ReadOn \/ DownloadRead \/ DownloadPage
            \/ DownloadMismatch \/ DownloadFails
FlushDirty == StartFlush \/ FlushPage \/ WriteAcked \/ WriteFails \/ Verified
              \/ VerifyMismatch \/ Resynced \/ VerifyFails
DoBurn == BurnRefused \/ StartBurn \/ BurnAcked \/ BurnFails
CommsThread == Download \/ FlushDirty \/ DoBurn \/ FlushDone \/ PollEnds
               \/ PollDisconnects \/ Shutdown
Clients == \/ Connect \/ tune_burn \/ disconnect
           \/ \E p \in Page, o \in Offset, v \in Values : Edit(p, o, v)
Next == CommsThread \/ Clients \/ EcuServes \/ MessageLost \/ PowerCycle \/ Closed

Spec == Init /\ [][Next]_vars

(* The thread never stops stepping and the ECU answers what it is sent; no  *)
(* client has to do anything, and losing messages is never an obligation.   *)
FairSpec == Spec /\ WF_vars(CommsThread) /\ WF_vars(EcuServes)

-----------------------------------------------------------------------------
(* Properties.                                                             *)

Bytes == UNION {[S -> Values] : S \in SUBSET Offset}
Commands == {"Q", "p", "d", "M", "b", "r"}
RequestType == [cmd : Commands, page : Page, from : Offset, bytes : Bytes]
AnswerType == [kind : Commands, v : Bytes]

(* The state stays within its types: three copies of every page, one        *)
(* command of at most one page in each wire slot, a chunk list of the page  *)
(* being flushed.                                                           *)
TypeOK ==
  /\ data \in [Page -> Contents]
  /\ ecu \in [Page -> Contents]
  /\ burned \in [Page -> Contents]
  /\ ram \in [Page -> Contents]
  /\ eeprom \in [Page -> Contents]
  /\ loaded \in BOOLEAN
  /\ resized \subseteq Page
  /\ toEcu \in Seq(RequestType)
  /\ inbox \in Seq(AnswerType)
  /\ pc \in AwaitStates \cup {"down", "idle", "flush"}
  /\ cur \in Page
  /\ todo \subseteq Page
  /\ chunk \subseteq Offset
  /\ spans \subseteq SUBSET Offset
  /\ sent \in Contents
  /\ got \in Contents
  /\ at \in Offset
  /\ attempt \in 1..2
  /\ burning \in BOOLEAN
  /\ cmds \in Seq({"burn", "shutdown"})
  /\ reply \in {"none", "ok", "err"}
  /\ edits \in Nat /\ burns \in Nat /\ sessions \in Nat
  /\ faults \in Nat /\ lates \in Nat /\ reboots \in Nat
  /\ blind \subseteq Page
  /\ unsure \subseteq Page
  /\ excused \subseteq Page \X Offset

(* No deadline has passed over an answer still to come, no power cycle. *)
Quiet == lates = 0 /\ reboots = 0
InFlush(p) == pc \in {"write", "verify", "resync"} /\ cur = p

(* However edits, writes and verification interleave and whichever messages *)
(* are lost or corrupted, the RAM shadow of a page that is not being flushed *)
(* is the ECU's RAM, unless an exchange about that page failed and it has    *)
(* not been verified since (flush_dirty, mark_sent, resync_ecu).             *)
ShadowMatchesRam ==
  Quiet /\ loaded =>
    \A p \in Page : p \in blind \/ InFlush(p) \/ ecu[p] = ram[p]

(* The EEPROM shadow of a page not being burned is the ECU's EEPROM, unless  *)
(* the page was downloaded while RAM and EEPROM differed, a burn of it       *)
(* failed, or it was burned while its RAM shadow was in doubt (mark_burned). *)
BurnedMatchesEeprom ==
  Quiet /\ loaded =>
    \A p \in Page : \/ p \in unsure
                    \/ pc = "burn" /\ cur = p
                    \/ burned[p] = eeprom[p]

(* When do_burn replies Ok no page is left with shadows that differ, and     *)
(* every page whose shadows are not in doubt is durable: its EEPROM is its   *)
(* RAM, edits that arrived while the burn ran included or still dirty.       *)
BurnReplyHonest ==
  [][reply # "ok" /\ reply' = "ok" =>
       \A p \in Page : /\ burned'[p] = ecu'[p]
                       /\ Quiet => \/ p \in blind' \cup unsure'
                                   \/ eeprom'[p] = ram'[p]]_vars

(* A byte no client edited is never altered in the ECU: whatever spans are   *)
(* merged and chunked, whichever answers are lost, corrupted or late, it     *)
(* keeps the value that was downloaded (dirty_spans, write_chunk).  A session *)
(* that began while the ECU still had requests of an earlier one is excused:  *)
(* it may download their answers and be overtaken by their writes.           *)
UneditedBytesUntouched ==
  loaded /\ reboots = 0 =>
    \A p \in Page, o \in Offset :
      <<p, o>> \in excused \/ ram[p][o] = data[p][o]

(* Flushing, verifying, resyncing and burning never change what the user     *)
(* typed: in a loaded tune the wanted bytes change by edits only.            *)
PendingEditsSurvive ==
  [][loaded /\ loaded' /\ data' # data => edits' # edits]_vars

(* An ECU with a page of another size than the INI's is never written to.  A *)
(* signature mismatch is only reported, so what protects it is that the      *)
(* page's checksum fails the download, and edits and burns wait for a loaded *)
(* tune.  Where some pages have the INI's size, a session that began while   *)
(* the ECU still had requests of an earlier one is excused: the checksum of  *)
(* another page may be taken for the failing one's.  Firmware whose pages    *)
(* have the INI's sizes and other fields (resized = {}) is not protected.    *)
Foreign == resized = Page \/ (resized # {} /\ excused # Page \X Offset)
WrongSizesNeverWritten ==
  [][Foreign => eeprom' = eeprom /\ (ram' = ram \/ reboots' # reboots)]_vars

(* On a line that loses nothing every edit reaches the ECU: once the clients *)
(* stop typing, RAM becomes what they typed and stays so, even when an edit  *)
(* overtook the write of an earlier one and was marked sent unsent.          *)
EditsReachEcu ==
  [](faults = 0 /\ lates = 0 /\ reboots = 0) => <>[](loaded => ram = data)

(* flush_dirty's comment: "On a verify failure the page is re-downloaded so  *)
(* our ECU shadow matches reality and the edit goes out again next pass."    *)
VerifyFailureHeals ==
  \A p \in Page :
    (pc = "resync" /\ cur = p) ~> (~loaded \/ ram[p] = data[p])

(* Cmd::Burn's comment: "Flush pending edits, then burn every page whose ECU *)
(* RAM differs from EEPROM."  An Ok reply leaves no such page.               *)
BurnMakesDurable ==
  [][reply # "ok" /\ reply' = "ok" => \A p \in Page : eeprom'[p] = ram'[p]]_vars

=============================================================================
