--------------------------- MODULE TuneSyncProofs ---------------------------
(***************************************************************************)
(* Proofs about TuneSync for every number and size of pages, every value   *)
(* set, blocking factor and merge gap, and every bound on edits, commands, *)
(* sessions and faults.                                                    *)
(***************************************************************************)
EXTENDS TuneSync, SequenceTheorems, TLAPS

-----------------------------------------------------------------------------
(* The inductive invariant.                                                *)

(* A tune is loaded only while its thread is past the download, and never   *)
(* from an ECU that sizes all its pages otherwise; everything that writes   *)
(* runs with a loaded tune.                                                 *)
LoadInv == /\ loaded => resized # Page
           /\ pc \in {"down", "query", "read", "crc"} => ~loaded
           /\ pc \in {"flush", "write", "verify", "resync", "burn"} => loaded

(* A foreign ECU is asked nothing that writes, and where it sizes all pages *)
(* otherwise none of its checksums is that of a page.                       *)
NoWriteSent ==
  Foreign => \A i \in 1..Len(toEcu) : toEcu[i].cmd \notin {"M", "b"}
NoChecksum ==
  resized = Page =>
    \A i \in 1..Len(inbox) : inbox[i].kind = "d" => inbox[i].v = NoBytes
LayoutInv == NoWriteSent /\ NoChecksum

(* No request of an earlier session was on its way when this one began, and *)
(* some bytes no client has edited.                                         *)
Fresh == excused # Page \X Offset

(* In such a session, and while no deadline has passed over an answer, the  *)
(* pages downloaded have the INI's size.                                    *)
SizeInv ==
  Quiet \/ Fresh => /\ loaded => resized = {}
                    /\ pc \in {"read", "crc"} => \A p \in resized : p >= cur

(* A page read begins at the first offset. *)
AtInv == pc \notin {"read", "resync"} => at = 1

(* The request whose answer the thread waits for. *)
Pending == IF pc = "query" THEN Query
           ELSE IF pc \in {"read", "resync"} THEN ReadPage(cur, at)
           ELSE IF pc \in {"crc", "verify"} THEN PageCrc(cur)
           ELSE IF pc = "write" THEN WriteChunk(cur, [o \in chunk |-> sent[o]])
           ELSE IF pc = "burn" THEN Burn(cur) ELSE Poll

(* While no deadline has passed over an answer, the line holds nothing, the *)
(* awaited request, or its answer.                                          *)
WireInv ==
  Quiet => \/ toEcu = <<>> /\ inbox = <<>>
           \/ pc \in AwaitStates /\ toEcu = <<Pending>> /\ inbox = <<>>
           \/ pc \in AwaitStates /\ toEcu = <<>> /\ inbox = <<Response(Pending)>>

(* ShadowMatchesRam, for the pages already downloaded too, and for the part *)
(* of a page already read again.                                            *)
ShadowInv ==
  Quiet => /\ loaded => \A p \in Page :
                          p \in blind \/ InFlush(p) \/ ecu[p] = ram[p]
           /\ pc \in {"read", "crc"} =>
                \A p \in Page : p < cur => ecu[p] = ram[p]
           /\ pc = "resync" =>
                \A o \in Offset : o < at => got[o] = ram[cur][o]

(* BurnedMatchesEeprom, for the pages already downloaded too; an answered   *)
(* burn has been done.                                                      *)
BurnedInv ==
  Quiet => /\ loaded => \A p \in Page : \/ p \in unsure
                                        \/ pc = "burn" /\ cur = p
                                        \/ burned[p] = eeprom[p]
           /\ pc \in {"read", "crc"} =>
                \A p \in Page : p < cur => p \in unsure \/ burned[p] = eeprom[p]
           /\ pc = "burn" /\ inbox # <<>> => eeprom[cur] = ram[cur]

(* Every page do_burn found pending is burned, being burned or to come. *)
BurnListInv ==
  pc = "burn" => \A p \in Page : p \in todo \/ p = cur \/ burned[p] = ecu[p]

(* While a fresh session downloads, the line holds at most its own query     *)
(* and, behind it, the request it waits for or the answer to that: what the  *)
(* ECU would answer now, unless it was restarted in between.                 *)
Answered(a) == /\ a.kind = Pending.cmd
               /\ reboots = 0 => a = Response(Pending)
               /\ a.kind = "d" /\ cur \in resized => a.v = NoBytes
OwnRequests ==
  \A i \in 1..Len(toEcu) :
    toEcu[i].cmd = "Q" \/ (i = Len(toEcu) /\ toEcu[i] = Pending)
OwnAnswers ==
  \A i \in 1..Len(inbox) :
    \/ inbox[i].kind = "Q"
    \/ i = Len(inbox) /\ toEcu = <<>> /\ Answered(inbox[i])
DownloadOwn == pc \in {"query", "read", "crc"} => OwnRequests /\ OwnAnswers

(* The pages it has downloaded are the ECU's. *)
DownloadedRight ==
  pc \in {"read", "crc"} => \A p \in Page : p < cur => data[p] = ram[p]

(* Once loaded, every write on its way, and every chunk still to be sent,    *)
(* carries the wanted value of the bytes no client edited.                   *)
Carries(p, bytes) ==
  \A o \in DOMAIN bytes : <<p, o>> \in excused \/ bytes[o] = data[p][o]
WritesOwn ==
  \A i \in 1..Len(toEcu) :
    toEcu[i].cmd = "M" => Carries(toEcu[i].page, toEcu[i].bytes)
UneditedHeld ==
  \A p \in Page, o \in Offset : <<p, o>> \in excused \/ ram[p][o] = data[p][o]
LoadedOwn == /\ loaded => WritesOwn /\ UneditedHeld
             /\ pc = "write" => Carries(cur, sent)

FreshInv ==
  Fresh => DownloadOwn /\ (reboots = 0 => DownloadedRight /\ LoadedOwn)

IInv == TypeOK /\ LoadInv /\ LayoutInv /\ SizeInv /\ AtInv /\ WireInv /\ ShadowInv /\ BurnedInv
        /\ BurnListInv /\ FreshInv

-----------------------------------------------------------------------------
(* Facts about the operators.                                              *)

(* The byte-free requests, and an M write of page bytes, are requests. *)
LEMMA RequestsTyped ==
  ASSUME NEW p \in Page, NEW o1 \in Offset,
         NEW c \in SUBSET Offset, NEW bytes \in Contents
  PROVE  /\ Query \in RequestType
         /\ Poll \in RequestType
         /\ ReadPage(p, o1) \in RequestType
         /\ PageCrc(p) \in RequestType
         /\ Burn(p) \in RequestType
         /\ WriteChunk(p, [o \in c |-> bytes[o]]) \in RequestType
<1>1. NoBytes \in Bytes
  <2>1. NoBytes \in [{} -> Values]
    BY DEF NoBytes
  <2> QED BY <2>1 DEF Bytes
<1>2. [o \in c |-> bytes[o]] \in Bytes
  <2>1. [o \in c |-> bytes[o]] \in [c -> Values]
    BY DEF Contents
  <2> QED BY <2>1 DEF Bytes
<1>3. 1 \in Page /\ 1 \in Offset
  BY SizeAssumption DEF Page, Offset
<1> QED
  BY <1>1, <1>2, <1>3 DEF RequestType, Query, Poll, ReadPage, PageCrc, Burn,
                          WriteChunk, Request, Commands

(* A page overlaid with the bytes of an M write is a page. *)
LEMMA OverlayTyped ==
  ASSUME NEW page \in Contents, NEW bytes \in Bytes
  PROVE  Overlay(page, bytes) \in Contents
<1>1. PICK S \in SUBSET Offset : bytes \in [S -> Values]
  BY DEF Bytes
<1> QED BY <1>1 DEF Overlay, Contents

(* The parts read_page cuts a page into lie within it, one after the other. *)
LEMMA PartFacts ==
  ASSUME NEW from \in Offset
  PROVE  /\ PartEnd(from) \in Offset /\ from <= PartEnd(from)
         /\ PartLen(from) = PartEnd(from) - from + 1
         /\ 1..PartLen(from) \subseteq Offset
         /\ \A i \in 1..PartLen(from) : from + i - 1 \in Offset
         /\ PartEnd(from) # PageSize => PartEnd(from) + 1 \in Offset
BY SizeAssumption DEF PartEnd, PartLen, Offset

(* Whatever a request asks, the ECU's answer is an answer. *)
LEMMA ResponseTyped ==
  ASSUME TypeOK, NEW req \in RequestType
  PROVE  Response(req) \in AnswerType
<1>1. /\ ram[req.page] \in Contents /\ req.cmd \in Commands
      /\ req.from \in Offset
  BY DEF TypeOK, RequestType
<1> DEFINE part == [i \in 1..PartLen(req.from) |-> ram[req.page][req.from + i - 1]]
<1>2. part \in Bytes
  <2>1. part \in [1..PartLen(req.from) -> Values]
    BY <1>1, PartFacts DEF Contents
  <2>2. 1..PartLen(req.from) \in SUBSET Offset
    BY <1>1, PartFacts
  <2> HIDE DEF part
  <2> QED BY <2>1, <2>2 DEF Bytes
<1>3. ram[req.page] \in Bytes
  BY <1>1 DEF Bytes, Contents
<1>4. NoBytes \in Bytes
  <2>1. NoBytes \in [{} -> Values]
    BY DEF NoBytes
  <2> QED BY <2>1 DEF Bytes
<1>5. Response(req).v \in Bytes /\ Response(req).kind = req.cmd
  BY <1>2, <1>3, <1>4 DEF Response
<1>6. Response(req) = [kind |-> Response(req).kind, v |-> Response(req).v]
  BY DEF Response
<1> HIDE DEF part
<1> QED BY <1>1, <1>5, <1>6 DEF AnswerType

(* Sending keeps the wire a queue of requests. *)
LEMMA SendTyped ==
  ASSUME TypeOK, NEW req \in RequestType, Send(req)
  PROVE  toEcu' \in Seq(RequestType)
BY AppendProperties DEF TypeOK, Send

(* Taking an answer, with those behind it that are dropped, leaves answers. *)
LEMMA TakeTyped ==
  ASSUME TypeOK, inbox # <<>>, inbox' \in Leftovers
  PROVE  inbox' \in Seq(AnswerType)
<1>1. PICK k \in 2..(Len(inbox) + 1) : inbox' = SubSeq(inbox, k, Len(inbox))
  BY DEF Leftovers
<1>2. inbox \in Seq(AnswerType) /\ Len(inbox) \in Nat
  BY LenProperties DEF TypeOK
<1>3. \A i \in k..Len(inbox) : inbox[i] \in AnswerType
  BY <1>2, ElementOfSeq
<1> QED BY <1>1, <1>2, <1>3, SubSeqProperties

LEMMA ReceiveTyped ==
  ASSUME TypeOK, Receive
  PROVE  /\ inbox' \in Seq(AnswerType)
         /\ Head(inbox) \in AnswerType
         /\ Payload \in Bytes
         /\ UNCHANGED <<faults, lates, reboots>>
<1>1. Head(inbox) \in AnswerType
  BY HeadTailProperties DEF TypeOK, Receive
<1>2. Payload \in Bytes
  BY <1>1 DEF Payload, AnswerType
<1> QED BY <1>1, <1>2, TakeTyped DEF Receive, trouble

LEMMA FailsTyped ==
  ASSUME TypeOK, ExchangeFails
  PROVE  /\ inbox' \in Seq(AnswerType)
         /\ faults' \in Nat /\ lates' \in Nat /\ reboots' \in Nat
<1>1. CASE Rejected
  BY <1>1, TakeTyped DEF Rejected, trouble, TypeOK
<1>2. CASE CrcMismatch
  BY <1>2, EmptySeq DEF CrcMismatch, TypeOK
<1>3. CASE Timeout
  BY <1>3 DEF Timeout, TypeOK
<1> QED BY <1>1, <1>2, <1>3 DEF ExchangeFails

(* What read_page has so far is a page, whichever answer it accepted. *)
LEMMA FilledTyped ==
  ASSUME TypeOK, Receive, pc \in {"read", "resync"}
  PROVE  Filled \in Contents
<1>1. PICK S \in SUBSET Offset : Payload \in [S -> Values]
  BY ReceiveTyped DEF Bytes
<1>2. DOMAIN Payload = 1..PartLen(at)
  BY DEF Receive, Accepts, AwaitedCmd, Payload
<1>3. \A o \in at..PartEnd(at) : o - at + 1 \in 1..PartLen(at)
  BY PartFacts DEF TypeOK, Offset
<1>4. \A o \in at..PartEnd(at) : Payload[o - at + 1] \in Values
  BY <1>1, <1>2, <1>3
<1> QED BY <1>4 DEF Filled, TypeOK, Contents

(* dirty_spans cuts a page into sets of its offsets. *)
LEMMA SpansTyped ==
  ASSUME NEW p PROVE dirty_spans(p) \subseteq SUBSET Offset
BY DEF dirty_spans

(* The page Tune::new starts from is a page. *)
LEMMA BlankTyped == BlankPage \in Contents
BY ValuesAssumption DEF BlankPage, Contents

-----------------------------------------------------------------------------
(* Type correctness.                                                       *)

LEMMA InitTyped == Init => TypeOK
<1>1. [p \in Page |-> BlankPage] \in [Page -> Contents]
  BY BlankTyped
<1>2. 1 \in Page /\ 1 \in Offset
  BY SizeAssumption DEF Page, Offset
<1> SUFFICES ASSUME Init PROVE TypeOK
  OBVIOUS
<1>3. /\ toEcu \in Seq(RequestType) /\ inbox \in Seq(AnswerType)
      /\ cmds \in Seq({"burn", "shutdown"})
  BY EmptySeq DEF Init
<1>4. /\ data \in [Page -> Contents] /\ ecu \in [Page -> Contents]
      /\ burned \in [Page -> Contents]
  BY <1>1 DEF Init
<1>5. /\ todo \subseteq Page /\ chunk \subseteq Offset /\ spans \subseteq SUBSET Offset
      /\ blind \subseteq Page /\ unsure \subseteq Page /\ excused \subseteq Page \X Offset
  BY DEF Init
<1>6. /\ ram \in [Page -> Contents] /\ eeprom \in [Page -> Contents]
      /\ sent \in Contents /\ got \in Contents
  BY BlankTyped DEF Init
<1>7. loaded \in BOOLEAN /\ resized \subseteq Page /\ burning \in BOOLEAN
  BY DEF Init
<1>8. cur \in Page /\ at \in Offset /\ attempt \in 1..2
  BY <1>2 DEF Init
<1>9. /\ edits \in Nat /\ burns \in Nat /\ sessions \in Nat
      /\ faults \in Nat /\ lates \in Nat /\ reboots \in Nat
  BY DEF Init
<1>10. /\ pc \in AwaitStates \cup {"down", "idle", "flush"}
       /\ reply \in {"none", "ok", "err"}
  BY DEF Init
<1> QED BY <1>3, <1>4, <1>5, <1>6, <1>7, <1>8, <1>9, <1>10 DEF TypeOK

LEMMA NextTyped == TypeOK /\ [Next]_vars => TypeOK'
<1> SUFFICES ASSUME TypeOK, [Next]_vars PROVE TypeOK'
  OBVIOUS
<1> USE DEF tune, store, wire, writing, reading, thread, client, trouble, ghost
<1>0. /\ BlankPage \in Contents /\ 1 \in Page /\ 1 \in Offset
      /\ <<>> \in Seq(RequestType) /\ <<>> \in Seq(AnswerType)
      /\ <<>> \in Seq({"burn", "shutdown"})
      /\ [p \in Page |-> BlankPage] \in [Page -> Contents]
  BY BlankTyped, EmptySeq, SizeAssumption DEF Page, Offset
<1>1. ASSUME Connect PROVE TypeOK'
  <2>1. toEcu' \in Seq(RequestType)
    <3>1. PICK held \in {toEcu, <<>>} : toEcu' = Append(held, Query)
      BY <1>1 DEF Connect
    <3>2. held \in Seq(RequestType) /\ Query \in RequestType
      BY <1>0, RequestsTyped DEF TypeOK
    <3> QED BY <3>1, <3>2, AppendProperties
  <2>2. inbox' \in Seq(AnswerType)
    BY <1>0, <1>1 DEF Connect
  <2>3. /\ data' \in [Page -> Contents] /\ ecu' \in [Page -> Contents]
        /\ burned' \in [Page -> Contents]
    BY <1>0, <1>1 DEF Connect
  <2>4. /\ blind' \subseteq Page /\ unsure' \subseteq Page
        /\ excused' \subseteq Page \X Offset
    BY <1>1 DEF Connect
  <2>5. loaded' \in BOOLEAN
    BY <1>1, Zenon DEF Connect
  <2>7. /\ pc' \in AwaitStates /\ reply' \in {"none", "ok", "err"}
        /\ sessions' \in Nat
    BY <1>1 DEF Connect, TypeOK, AwaitStates
  <2>6. UNCHANGED <<store, cur, todo, writing, reading, burning, cmds, edits,
                    burns, trouble>>
    BY <1>1 DEF Connect
  <2> QED BY <2>1, <2>2, <2>3, <2>4, <2>5, <2>6, <2>7 DEF TypeOK
<1>2. ASSUME QueryEnds PROVE TypeOK'
  <2>1. toEcu' \in Seq(RequestType)
    BY <1>0, <1>2, RequestsTyped, SendTyped DEF QueryEnds
  <2>2. /\ inbox' \in Seq(AnswerType)
        /\ faults' \in Nat /\ lates' \in Nat /\ reboots' \in Nat
    BY <1>2, ReceiveTyped, FailsTyped DEF QueryEnds, TypeOK
  <2> QED BY <1>0, <1>2, <2>1, <2>2 DEF QueryEnds, TypeOK, AwaitStates
<1>3. ASSUME ReadOn PROVE TypeOK'
  <2>1. PartEnd(at) + 1 \in Offset
    BY <1>3, PartFacts DEF ReadOn, LastPart, TypeOK
  <2>2. toEcu' \in Seq(RequestType)
    BY <1>0, <1>3, <2>1, RequestsTyped, SendTyped DEF ReadOn, TypeOK
  <2> QED BY <1>3, <2>1, <2>2, FilledTyped, ReceiveTyped DEF ReadOn, TypeOK
<1>4. ASSUME DownloadRead PROVE TypeOK'
  <2>1. toEcu' \in Seq(RequestType)
    BY <1>0, <1>4, RequestsTyped, SendTyped DEF DownloadRead, TypeOK
  <2> QED BY <1>0, <1>4, <2>1, FilledTyped, ReceiveTyped
          DEF DownloadRead, TypeOK, AwaitStates
<1>5. ASSUME DownloadPage PROVE TypeOK'
  <2>1. cur < NumPages => cur + 1 \in Page
    BY SizeAssumption DEF TypeOK, Page
  <2>2. toEcu' \in Seq(RequestType)
    BY <1>0, <1>5, <2>1, RequestsTyped, SendTyped DEF DownloadPage, TypeOK
  <2>3. /\ data' \in [Page -> Contents] /\ ecu' \in [Page -> Contents]
        /\ burned' \in [Page -> Contents]
    BY <1>5 DEF DownloadPage, load_page, TypeOK
  <2>4. /\ pc' \in {"read", "idle"} /\ cur' \in Page /\ loaded' \in BOOLEAN
    BY <1>0, <1>5, <2>1 DEF DownloadPage, TypeOK
  <2>5. unsure' \subseteq Page /\ blind' \subseteq Page
    BY <1>5 DEF DownloadPage, TypeOK
  <2> QED BY <1>0, <1>5, <2>2, <2>3, <2>4, <2>5, ReceiveTyped
          DEF DownloadPage, TypeOK, AwaitStates
<1>6. ASSUME DownloadMismatch PROVE TypeOK'
  <2>1. toEcu' \in Seq(RequestType)
    BY <1>0, <1>6, RequestsTyped, SendTyped DEF DownloadMismatch, TypeOK
  <2>2. attempt' \in 1..2
    BY <1>6 DEF DownloadMismatch, MayRetry, TypeOK
  <2> QED BY <1>0, <1>6, <2>1, <2>2, ReceiveTyped
          DEF DownloadMismatch, TypeOK, AwaitStates
<1>7. ASSUME DownloadFails PROVE TypeOK'
  BY <1>0, <1>7, FailsTyped DEF DownloadFails, TypeOK
<1>8. ASSUME Shutdown PROVE TypeOK'
  BY <1>0, <1>8 DEF Shutdown, Exit, TypeOK
<1>9. ASSUME BurnRefused PROVE TypeOK'
  <2>1. cmds' \in Seq({"burn", "shutdown"})
    BY <1>9, HeadTailProperties DEF BurnRefused, TypeOK
  <2> QED BY <1>9, <2>1 DEF BurnRefused, TypeOK
<1>10. ASSUME StartFlush PROVE TypeOK'
  <2>1. cmds' \in Seq({"burn", "shutdown"})
    BY <1>10, HeadTailProperties DEF StartFlush, TypeOK
  <2> QED BY <1>10, <2>1 DEF StartFlush, TypeOK
<1>11. ASSUME NEW p \in Page, NEW S \in SUBSET SUBSET Offset,
              NEW bytes \in Contents, WriteNext(p, S, bytes)
       PROVE  /\ toEcu' \in Seq(RequestType)
              /\ pc' \in AwaitStates /\ chunk' \subseteq Offset
              /\ spans' \subseteq SUBSET Offset /\ sent' \in Contents
  <2>1. CASE S = {} /\ Send(PageCrc(p)) /\ pc' = "verify" /\ chunk' = {}
             /\ spans' = {} /\ sent' = BlankPage
    BY <1>0, <2>1, RequestsTyped, SendTyped DEF AwaitStates
  <2>2. ASSUME NEW c \in S, pc' = "write", chunk' = c, spans' = S \ {c},
               sent' = bytes, Send(WriteChunk(p, [o \in c |-> bytes[o]]))
        PROVE  /\ toEcu' \in Seq(RequestType)
               /\ pc' \in AwaitStates /\ chunk' \subseteq Offset
               /\ spans' \subseteq SUBSET Offset /\ sent' \in Contents
    <3>1. WriteChunk(p, [o \in c |-> bytes[o]]) \in RequestType
      BY <1>0, RequestsTyped
    <3> QED BY <2>2, <3>1, SendTyped DEF AwaitStates
  <2> QED BY <1>11, <2>1, <2>2 DEF WriteNext
<1>12. ASSUME FlushPage PROVE TypeOK'
  <2>1. PICK p \in todo : /\ cur' = p /\ todo' = todo \ {p}
                          /\ WriteNext(p, dirty_spans(p), data[p])
    BY <1>12 DEF FlushPage
  <2>2. p \in Page /\ data[p] \in Contents
    BY DEF TypeOK
  <2>3. /\ toEcu' \in Seq(RequestType)
        /\ pc' \in AwaitStates /\ chunk' \subseteq Offset
        /\ spans' \subseteq SUBSET Offset /\ sent' \in Contents
    BY <1>11, <2>1, <2>2, SpansTyped
  <2> QED BY <1>12, <2>1, <2>2, <2>3 DEF FlushPage, TypeOK
<1>13. ASSUME WriteAcked PROVE TypeOK'
  <2>1. /\ toEcu' \in Seq(RequestType)
        /\ pc' \in AwaitStates /\ chunk' \subseteq Offset
        /\ spans' \subseteq SUBSET Offset /\ sent' \in Contents
    BY <1>11, <1>13 DEF WriteAcked, TypeOK
  <2>2. ecu' \in [Page -> Contents]
    BY <1>13 DEF WriteAcked, mark_sent, TypeOK, Contents
  <2> QED BY <1>13, <2>1, <2>2, ReceiveTyped DEF WriteAcked, mark_sent, TypeOK
<1>14. ASSUME WriteFails PROVE TypeOK'
  BY <1>0, <1>14, FailsTyped DEF WriteFails, TypeOK
<1>15. ASSUME Verified PROVE TypeOK'
  BY <1>15, ReceiveTyped DEF Verified, TypeOK
<1>16. ASSUME VerifyMismatch PROVE TypeOK'
  <2>1. toEcu' \in Seq(RequestType)
    BY <1>0, <1>16, RequestsTyped, SendTyped DEF VerifyMismatch, TypeOK
  <2> QED BY <1>16, <2>1, ReceiveTyped DEF VerifyMismatch, TypeOK, AwaitStates
<1>17. ASSUME Resynced PROVE TypeOK'
  <2>1. ecu' \in [Page -> Contents]
    BY <1>17, FilledTyped DEF Resynced, resync_ecu, TypeOK
  <2> QED BY <1>0, <1>17, <2>1, ReceiveTyped DEF Resynced, resync_ecu, TypeOK
<1>18. ASSUME VerifyFails PROVE TypeOK'
  BY <1>0, <1>18, FailsTyped DEF VerifyFails, TypeOK
<1>19. ASSUME NEW S \in SUBSET Page, BurnNext(S)
       PROVE  /\ toEcu' \in Seq(RequestType)
              /\ pc' \in {"idle", "burn"} /\ cur' \in Page /\ todo' \subseteq Page
              /\ reply' \in {"none", "ok", "err"} /\ burning' \in BOOLEAN
  <2>1. CASE S = {}
    BY <1>19, <2>1 DEF BurnNext, TypeOK
  <2>2. ASSUME NEW p \in S, cur' = p, todo' = S \ {p}, pc' = "burn",
               Send(Burn(p)), UNCHANGED <<reply, burning>>
        PROVE  /\ toEcu' \in Seq(RequestType)
               /\ pc' \in {"idle", "burn"} /\ cur' \in Page /\ todo' \subseteq Page
               /\ reply' \in {"none", "ok", "err"} /\ burning' \in BOOLEAN
    <3>1. Burn(p) \in RequestType
      BY <1>0, RequestsTyped
    <3> QED BY <2>2, <3>1, SendTyped DEF TypeOK
  <2> QED BY <1>19, <2>1, <2>2 DEF BurnNext
<1>20. ASSUME StartBurn PROVE TypeOK'
  BY <1>19, <1>20 DEF StartBurn, TypeOK, AwaitStates
<1>21. ASSUME BurnAcked PROVE TypeOK'
  <2>1. burned' \in [Page -> Contents] /\ unsure' \subseteq Page
    BY <1>21 DEF BurnAcked, mark_burned, TypeOK
  <2> QED BY <1>19, <1>21, <2>1, ReceiveTyped
          DEF BurnAcked, mark_burned, TypeOK, AwaitStates
<1>22. ASSUME BurnFails PROVE TypeOK'
  BY <1>22, FailsTyped DEF BurnFails, TypeOK
<1>23. ASSUME FlushDone PROVE TypeOK'
  <2>1. toEcu' \in Seq(RequestType)
    BY <1>0, <1>23, RequestsTyped, SendTyped DEF FlushDone, TypeOK
  <2> QED BY <1>23, <2>1 DEF FlushDone, TypeOK, AwaitStates
<1>24. ASSUME PollEnds PROVE TypeOK'
  BY <1>24, ReceiveTyped, FailsTyped DEF PollEnds, ExchangeFails, TypeOK
<1>25. ASSUME PollDisconnects PROVE TypeOK'
  <2>1. CASE Rejected
    BY <1>0, <1>25, <2>1, FailsTyped
       DEF PollDisconnects, Exit, ExchangeFails, TypeOK, Rejected
  <2>2. CASE /\ toEcu' = <<>> /\ inbox' = <<>>
             /\ faults' = faults + 1 /\ UNCHANGED <<lates, reboots>>
    <3>1. toEcu' \in Seq(RequestType) /\ inbox' \in Seq(AnswerType)
      BY <1>0, <2>2
    <3>2. faults' \in Nat /\ lates' \in Nat /\ reboots' \in Nat
      BY <2>2 DEF TypeOK
    <3>3. Exit /\ cmds' \in Seq({"burn", "shutdown"})
      BY <1>0, <1>25 DEF PollDisconnects, Exit
    <3> QED BY <3>1, <3>2, <3>3 DEF Exit, TypeOK
  <2> QED BY <1>25, <2>1, <2>2 DEF PollDisconnects
<1>26. ASSUME NEW p \in Page, NEW o \in Offset, NEW v \in Values, Edit(p, o, v)
       PROVE  TypeOK'
  <2>1. data' \in [Page -> Contents]
    BY <1>26 DEF Edit, TypeOK, Contents
  <2> QED BY <1>26, <2>1 DEF Edit, TypeOK
<1>27. ASSUME NEW c \in {"burn", "shutdown"}, Enqueue(c), burns' \in Nat PROVE TypeOK'
  <2>1. cmds' \in Seq({"burn", "shutdown"})
    BY <1>27, AppendProperties DEF Enqueue, TypeOK
  <2> QED BY <1>27, <2>1 DEF Enqueue, TypeOK
<1>28. ASSUME EcuServes PROVE TypeOK'
  <2> DEFINE req == Head(toEcu)
  <2>1. /\ req \in RequestType /\ toEcu' \in Seq(RequestType)
        /\ inbox' = Append(inbox, Response(req))
    BY <1>28, HeadTailProperties DEF EcuServes, TypeOK
  <2>2. inbox' \in Seq(AnswerType)
    BY <2>1, ResponseTyped, AppendProperties DEF TypeOK
  <2>3. Overlay(ram[req.page], req.bytes) \in Contents
    BY <2>1, OverlayTyped DEF TypeOK, RequestType
  <2>4. ram' \in [Page -> Contents] /\ eeprom' \in [Page -> Contents]
    BY <1>28, <2>1, <2>3 DEF EcuServes, TypeOK, RequestType
  <2> HIDE DEF req
  <2> QED BY <1>28, <2>1, <2>2, <2>4 DEF EcuServes, TypeOK
<1>29. ASSUME MessageLost PROVE TypeOK'
  <2>1. toEcu' \in Seq(RequestType) /\ inbox' \in Seq(AnswerType)
    <3>1. CASE toEcu # <<>> /\ toEcu' = Tail(toEcu) /\ UNCHANGED inbox
      BY <3>1, HeadTailProperties DEF TypeOK
    <3>2. CASE inbox # <<>> /\ inbox' = Tail(inbox) /\ UNCHANGED toEcu
      BY <3>2, HeadTailProperties DEF TypeOK
    <3> QED BY <1>29, <3>1, <3>2 DEF MessageLost
  <2> QED BY <1>29, <2>1 DEF MessageLost, TypeOK
<1>30. ASSUME PowerCycle PROVE TypeOK'
  BY <1>0, <1>30 DEF PowerCycle, TypeOK
<1>31. ASSUME UNCHANGED vars PROVE TypeOK'
  BY <1>31 DEF vars, TypeOK
<1>32. ASSUME tune_burn \/ disconnect PROVE TypeOK'
  BY <1>27, <1>32 DEF tune_burn, disconnect, TypeOK
<1> QED
  BY <1>1, <1>2, <1>3, <1>4, <1>5, <1>6, <1>7, <1>8, <1>9, <1>10, <1>12,
     <1>13, <1>14, <1>15, <1>16, <1>17, <1>18, <1>20, <1>21, <1>22, <1>23,
     <1>24, <1>25, <1>26, <1>28, <1>29, <1>30, <1>31, <1>32
  DEF Next, CommsThread, Download, FlushDirty, DoBurn, Clients, Closed

(* The state of TuneSync keeps its types, for every number and size of pages *)
(* and every bound: no page index, chunk or answer leaves its range.         *)
THEOREM TypeCorrect == Spec => []TypeOK
BY InitTyped, NextTyped, PTL DEF Spec

-----------------------------------------------------------------------------
(* The sizes of the ECU's pages.                                           *)

LEMMA SendKeepsLayout ==
  ASSUME TypeOK, NoWriteSent, Foreign, NEW req \in RequestType, Send(req),
         req.cmd \notin {"M", "b"}
  PROVE  NoWriteSent'
<1>1. /\ toEcu \in Seq(RequestType) /\ toEcu' = Append(toEcu, req)
      /\ Len(toEcu) \in Nat
  BY LenProperties DEF TypeOK, Send
<1>2. /\ Len(toEcu') = Len(toEcu) + 1
      /\ \A i \in 1..Len(toEcu) : toEcu'[i] = toEcu[i]
      /\ toEcu'[Len(toEcu) + 1] = req
  BY <1>1, AppendProperties
<1>3. \A i \in 1..Len(toEcu') : i \in 1..Len(toEcu) \/ i = Len(toEcu) + 1
  BY <1>1, <1>2
<1> QED BY <1>2, <1>3 DEF NoWriteSent

LEMMA TakeKeepsLayout ==
  ASSUME TypeOK, NoChecksum, UNCHANGED resized, inbox # <<>>, inbox' \in Leftovers
  PROVE  NoChecksum'
<1>1. PICK k \in 2..(Len(inbox) + 1) : inbox' = SubSeq(inbox, k, Len(inbox))
  BY DEF Leftovers
<1>2. inbox \in Seq(AnswerType) /\ Len(inbox) \in Nat
  BY LenProperties DEF TypeOK
<1>3. \A i \in k..Len(inbox) : inbox[i] \in AnswerType
  BY <1>2, ElementOfSeq
<1>4. /\ Len(inbox') = IF k <= Len(inbox) THEN Len(inbox) - k + 1 ELSE 0
      /\ \A i \in 1..(Len(inbox) - k + 1) : inbox'[i] = inbox[k + i - 1]
  BY <1>1, <1>2, <1>3, SubSeqProperties
<1>5. \A i \in 1..Len(inbox') : /\ inbox'[i] = inbox[k + i - 1]
                                /\ k + i - 1 \in 1..Len(inbox)
  BY <1>2, <1>4
<1> QED BY <1>5 DEF NoChecksum

LEMMA ExchangeKeepsLayout ==
  ASSUME TypeOK, NoChecksum, UNCHANGED resized, Receive \/ ExchangeFails
  PROVE  NoChecksum'
<1>1. CASE Receive
  BY <1>1, TakeKeepsLayout DEF Receive
<1>2. CASE Rejected
  BY <1>2, TakeKeepsLayout DEF Rejected
<1>3. CASE CrcMismatch
  BY <1>3 DEF CrcMismatch, NoChecksum
<1>4. CASE Timeout
  BY <1>4 DEF Timeout, NoChecksum
<1> QED BY <1>1, <1>2, <1>3, <1>4 DEF ExchangeFails

(* Only a page whose checksum agrees is loaded, so only one of the INI's. *)
LEMMA LoadedLayout ==
  ASSUME TypeOK, LayoutInv, pc = "crc", Receive, CrcAgrees
  PROVE  resized # Page
<1> SUFFICES ASSUME resized = Page PROVE FALSE
  OBVIOUS
<1>1. inbox \in Seq(AnswerType) /\ inbox # <<>> /\ Len(inbox) \in Nat
  BY LenProperties DEF TypeOK, Receive
<1>2. Head(inbox) = inbox[1] /\ 1 \in 1..Len(inbox)
  BY <1>1, EmptySeq
<1>3. Head(inbox).kind = "d"
  BY DEF Receive, Accepts, AwaitedCmd
<1>4. got = NoBytes
  BY <1>2, <1>3 DEF LayoutInv, NoChecksum, CrcAgrees, Payload
<1>5. DOMAIN got = Offset /\ DOMAIN NoBytes = {} /\ 1 \in Offset
  BY SizeAssumption DEF TypeOK, Contents, NoBytes, Offset
<1> QED BY <1>4, <1>5

(* Only a new session is fresh again; no step changes the ECU's page sizes, *)
(* and none makes the line quiet or the ECU unrestarted again.              *)
LEMMA Before ==
  ASSUME TypeOK, [Next]_vars, ~Connect
  PROVE  /\ UNCHANGED resized
         /\ Fresh' => Fresh
         /\ reboots' = 0 => reboots = 0 /\ ~PowerCycle
<1> USE DEF trouble, ghost, store
<1>0. reboots \in Nat /\ excused \subseteq Page \X Offset
  BY DEF TypeOK
<1>1. ASSUME UNCHANGED <<excused, reboots, resized>>
      PROVE  /\ UNCHANGED resized
             /\ Fresh' => Fresh
             /\ reboots' = 0 => reboots = 0 /\ ~PowerCycle
  BY <1>0, <1>1 DEF Fresh, PowerCycle
<1>2. CASE PowerCycle
  BY <1>0, <1>2 DEF PowerCycle, Fresh
<1>3. ASSUME Receive \/ ExchangeFails PROVE UNCHANGED reboots
  BY <1>3 DEF Receive, ExchangeFails, Rejected, CrcMismatch, Timeout
<1>4. CASE QueryEnds \/ ReadOn \/ DownloadRead \/ DownloadPage \/ DownloadMismatch
           \/ DownloadFails \/ WriteAcked \/ WriteFails \/ Verified
           \/ VerifyMismatch \/ Resynced \/ VerifyFails \/ BurnAcked \/ BurnFails
  BY <1>1, <1>3, <1>4
     DEF QueryEnds, ReadOn, DownloadRead, DownloadPage, DownloadMismatch,
         DownloadFails, WriteAcked, WriteFails, Verified, VerifyMismatch, Resynced,
         VerifyFails, BurnAcked, BurnFails
<1>5. CASE PollEnds \/ PollDisconnects
  BY <1>1, <1>3, <1>5 DEF PollEnds, PollDisconnects, Exit, ExchangeFails
<1>6. CASE Shutdown \/ BurnRefused \/ StartFlush \/ FlushPage \/ StartBurn
           \/ FlushDone
  BY <1>1, <1>6 DEF Shutdown, Exit, BurnRefused, StartFlush, FlushPage, StartBurn,
                    FlushDone
<1>7. CASE tune_burn \/ disconnect \/ EcuServes \/ MessageLost \/ UNCHANGED vars
  BY <1>1, <1>7 DEF tune_burn, disconnect, Enqueue, EcuServes, MessageLost, vars
<1>8. ASSUME NEW p \in Page, NEW o \in Offset, NEW v \in Values, Edit(p, o, v)
      PROVE  /\ UNCHANGED resized
             /\ Fresh' => Fresh
             /\ reboots' = 0 => reboots = 0 /\ ~PowerCycle
  <2>1. UNCHANGED <<reboots, resized>> /\ excused \subseteq excused'
    BY <1>8 DEF Edit
  <2> QED BY <1>0, <1>8, <2>1 DEF Edit, Fresh, PowerCycle
<1> QED
  BY <1>2, <1>4, <1>5, <1>6, <1>7, <1>8
  DEF Next, CommsThread, Download, FlushDirty, DoBurn, Clients, Closed

LEMMA InitLoad == Init => LoadInv /\ LayoutInv /\ SizeInv
BY DEF Init, LoadInv, LayoutInv, NoWriteSent, NoChecksum, SizeInv

LEMMA NextLoad == TypeOK /\ LoadInv /\ LayoutInv /\ [Next]_vars => LoadInv'
<1> SUFFICES ASSUME TypeOK, LoadInv, LayoutInv, [Next]_vars PROVE LoadInv'
  OBVIOUS
<1> USE DEF tune, store, wire, writing, reading, thread, client, trouble, ghost
<1>1. CASE Connect
  BY <1>1 DEF Connect, LoadInv
<1>2. CASE QueryEnds \/ ReadOn \/ DownloadRead \/ DownloadMismatch \/ DownloadFails
  BY <1>2 DEF QueryEnds, ReadOn, DownloadRead, DownloadMismatch, DownloadFails, LoadInv
<1>3. CASE DownloadPage
  BY <1>3, LoadedLayout DEF DownloadPage, LoadInv
<1>4. CASE Shutdown \/ PollDisconnects \/ PollEnds \/ FlushDone
  BY <1>4 DEF Shutdown, PollDisconnects, PollEnds, FlushDone, Exit, LoadInv
<1>5. CASE BurnRefused \/ StartFlush \/ StartBurn \/ BurnAcked \/ BurnFails
  <2>1. ASSUME NEW S, BurnNext(S) PROVE pc' \in {"idle", "burn"}
    BY <2>1 DEF BurnNext
  <2>2. CASE BurnRefused \/ StartFlush \/ BurnFails
    BY <2>2 DEF BurnRefused, StartFlush, BurnFails, LoadInv
  <2>3. CASE StartBurn \/ BurnAcked
    BY <2>1, <2>3 DEF StartBurn, BurnAcked, LoadInv
  <2> QED BY <1>5, <2>2, <2>3
<1>6. CASE FlushPage \/ WriteAcked \/ WriteFails
  BY <1>6 DEF FlushPage, WriteAcked, WriteFails, WriteNext, mark_sent, LoadInv
<1>7. CASE Verified \/ VerifyMismatch \/ Resynced \/ VerifyFails
  BY <1>7 DEF Verified, VerifyMismatch, Resynced, VerifyFails, resync_ecu, LoadInv
<1>8. CASE tune_burn \/ disconnect
  BY <1>8 DEF tune_burn, disconnect, Enqueue, LoadInv
<1>9. ASSUME NEW p \in Page, NEW o \in Offset, NEW v \in Values, Edit(p, o, v)
      PROVE  LoadInv'
  BY <1>9 DEF Edit, LoadInv
<1>10. CASE EcuServes \/ MessageLost \/ PowerCycle
  BY <1>10 DEF EcuServes, MessageLost, PowerCycle, LoadInv
<1>11. CASE UNCHANGED vars
  BY <1>11 DEF vars, LoadInv
<1> QED
  BY <1>1, <1>2, <1>3, <1>4, <1>5, <1>6, <1>7, <1>8, <1>9, <1>10, <1>11
  DEF Next, CommsThread, Download, FlushDirty, DoBurn, Clients, Closed

LEMMA NextLayout ==
  TypeOK /\ LoadInv /\ LayoutInv /\ SizeInv /\ [Next]_vars => LayoutInv'
<1>a. ASSUME TypeOK, LayoutInv, Connect PROVE LayoutInv'
  <2>1. NoChecksum'
    BY <1>a DEF Connect, NoChecksum
  <2>2. NoWriteSent'
    <3>1. PICK held \in {toEcu, <<>>} :
            /\ toEcu' = Append(held, Query)
            /\ excused' = IF held = <<>> THEN {} ELSE Page \X Offset
      BY <1>a DEF Connect
    <3>2. CASE held = <<>>
      <4>1. toEcu' = <<Query>>
        BY <3>1, <3>2
      <4> QED BY <4>1 DEF NoWriteSent, Query, Request
    <3>3. CASE held # <<>>
      <4> SUFFICES ASSUME Foreign' PROVE NoWriteSent'
        BY DEF NoWriteSent
      <4>1. Foreign
        BY <1>a, <3>1, <3>3 DEF Foreign, Connect, store
      <4>2. 1 \in Page /\ 1 \in Offset /\ BlankPage \in Contents
        BY SizeAssumption, BlankTyped DEF Page, Offset
      <4>3. Query \in RequestType /\ Query.cmd = "Q"
        BY <4>2, RequestsTyped DEF Query, Request
      <4> QED BY <1>a, <3>1, <3>3, <4>1, <4>3, SendKeepsLayout DEF LayoutInv, Send
    <3> QED BY <3>2, <3>3
  <2> QED BY <2>1, <2>2 DEF LayoutInv
<1> SUFFICES ASSUME TypeOK, LoadInv, LayoutInv, SizeInv, [Next]_vars, ~Connect,
                    Foreign
             PROVE  LayoutInv'
  <2> SUFFICES ASSUME TypeOK, LayoutInv, [Next]_vars, ~Connect, ~Foreign
               PROVE  LayoutInv'
    BY <1>a
  <2>1. ~Foreign' /\ UNCHANGED resized
    BY Before DEF Foreign, Fresh
  <2> QED BY <2>1 DEF LayoutInv, NoWriteSent, NoChecksum, Foreign
<1> USE DEF tune, store, wire, writing, reading, thread, client, trouble, ghost
<1>0. /\ NoWriteSent /\ NoChecksum /\ ~loaded /\ 1 \in Page /\ 1 \in Offset
      /\ pc \notin {"flush", "write", "verify", "resync", "burn"}
  BY SizeAssumption DEF LayoutInv, LoadInv, SizeInv, Foreign, Fresh, Page, Offset
<1>1. ASSUME NEW p \in Page, NEW o \in Offset
      PROVE  /\ Query \in RequestType /\ Query.cmd = "Q"
             /\ Poll \in RequestType /\ Poll.cmd = "r"
             /\ ReadPage(p, o) \in RequestType /\ ReadPage(p, o).cmd = "p"
             /\ PageCrc(p) \in RequestType /\ PageCrc(p).cmd = "d"
  <2>1. BlankPage \in Contents
    BY BlankTyped
  <2> QED BY <2>1, RequestsTyped DEF Query, Poll, ReadPage, PageCrc, Request
<1>3. CASE QueryEnds \/ ReadOn \/ DownloadRead \/ DownloadMismatch \/ DownloadFails
  <2>1. NoChecksum'
    BY <1>0, <1>3, ExchangeKeepsLayout
       DEF QueryEnds, ReadOn, DownloadRead, DownloadMismatch, DownloadFails
  <2>2. NoWriteSent'
    <3>1. CASE QueryEnds
      BY <1>0, <1>1, <3>1, SendKeepsLayout DEF QueryEnds
    <3>2. CASE ReadOn
      <4>1. PartEnd(at) + 1 \in Offset
        BY <3>2, PartFacts DEF ReadOn, LastPart, TypeOK
      <4> QED BY <1>0, <1>1, <3>2, <4>1, SendKeepsLayout DEF ReadOn, TypeOK
    <3>3. CASE DownloadRead
      BY <1>0, <1>1, <3>3, SendKeepsLayout DEF DownloadRead, TypeOK
    <3>4. CASE DownloadMismatch /\ MayRetry
      BY <1>0, <1>1, <3>4, SendKeepsLayout DEF DownloadMismatch, TypeOK
    <3>5. CASE DownloadMismatch /\ ~MayRetry
      BY <1>0, <3>5 DEF DownloadMismatch, NoWriteSent
    <3>6. CASE DownloadFails
      BY <1>0, <3>6 DEF DownloadFails, NoWriteSent
    <3> QED BY <1>3, <3>1, <3>2, <3>3, <3>4, <3>5, <3>6
  <2> QED BY <2>1, <2>2 DEF LayoutInv
<1>4. CASE DownloadPage
  <2>1. /\ pc = "crc" /\ Receive /\ UNCHANGED resized
        /\ \/ Send(ReadPage(cur + 1, 1)) /\ cur + 1 \in Page
           \/ UNCHANGED toEcu
    <3>1. cur \in Page /\ (cur < NumPages => cur + 1 \in Page)
      BY SizeAssumption DEF TypeOK, Page
    <3> QED BY <1>4, <3>1 DEF DownloadPage
  <2>2. NoChecksum'
    BY <1>0, <2>1, ExchangeKeepsLayout
  <2>3. NoWriteSent'
    <3>1. CASE Send(ReadPage(cur + 1, 1)) /\ cur + 1 \in Page
      BY <1>0, <1>1, <3>1, SendKeepsLayout
    <3>2. CASE UNCHANGED toEcu
      BY <1>0, <3>2 DEF NoWriteSent
    <3> QED BY <2>1, <3>1, <3>2
  <2> QED BY <2>2, <2>3 DEF LayoutInv
<1>5. CASE Shutdown \/ BurnRefused
  BY <1>0, <1>5 DEF Shutdown, BurnRefused, Exit, LayoutInv, NoWriteSent, NoChecksum
<1>6. CASE PollEnds
  <2>1. NoChecksum'
    BY <1>0, <1>6, ExchangeKeepsLayout DEF PollEnds, ExchangeFails
  <2> QED BY <1>0, <1>6, <2>1 DEF PollEnds, LayoutInv, NoWriteSent
<1>7. CASE PollDisconnects
  <2>1. CASE Rejected /\ UNCHANGED toEcu
    <3>1. NoChecksum'
      BY <1>0, <1>7, <2>1, ExchangeKeepsLayout DEF PollDisconnects, ExchangeFails, Exit
    <3> QED BY <1>0, <1>7, <2>1, <3>1 DEF PollDisconnects, Exit, LayoutInv, NoWriteSent
  <2>2. CASE toEcu' = <<>> /\ inbox' = <<>>
    BY <2>2 DEF LayoutInv, NoWriteSent, NoChecksum
  <2> QED BY <1>7, <2>1, <2>2 DEF PollDisconnects
<1>8. CASE FlushDone
  <2>1. NoWriteSent'
    <3>1. CASE Send(Poll)
      BY <1>0, <1>1, <1>8, <3>1, SendKeepsLayout DEF FlushDone
    <3>2. CASE UNCHANGED toEcu
      BY <1>0, <1>8, <3>2 DEF FlushDone, NoWriteSent
    <3> QED BY <1>8, <3>1, <3>2 DEF FlushDone
  <2> QED BY <1>0, <1>8, <2>1 DEF FlushDone, LayoutInv, NoChecksum
<1>9. CASE StartFlush \/ FlushPage \/ WriteAcked \/ WriteFails \/ Verified
           \/ VerifyMismatch \/ Resynced \/ VerifyFails \/ StartBurn \/ BurnAcked
           \/ BurnFails
  BY <1>0, <1>9 DEF StartFlush, FlushPage, WriteAcked, WriteFails, Verified,
     VerifyMismatch, Resynced, VerifyFails, StartBurn, BurnAcked, BurnFails
<1>10. CASE tune_burn \/ disconnect
  BY <1>0, <1>10 DEF tune_burn, disconnect, Enqueue, LayoutInv, NoWriteSent, NoChecksum
<1>11. ASSUME NEW p \in Page, NEW o \in Offset, NEW v \in Values, Edit(p, o, v)
       PROVE  LayoutInv'
  BY <1>0, <1>11 DEF Edit, LayoutInv, NoWriteSent, NoChecksum
<1>12. CASE EcuServes
  <2>1. /\ toEcu \in Seq(RequestType) /\ inbox \in Seq(AnswerType)
        /\ toEcu # <<>> /\ Len(toEcu) \in Nat /\ Len(inbox) \in Nat
    BY <1>12, LenProperties DEF EcuServes, TypeOK
  <2>2. NoWriteSent'
    <3>1. /\ Len(toEcu') = Len(toEcu) - 1
          /\ \A i \in 1..Len(toEcu') : toEcu'[i] = toEcu[i + 1]
      BY <1>12, <2>1, HeadTailProperties DEF EcuServes
    <3>2. \A i \in 1..Len(toEcu') : i + 1 \in 1..Len(toEcu)
      BY <2>1, <3>1
    <3> QED BY <1>0, <3>1, <3>2 DEF NoWriteSent
  <2>3. NoChecksum'
    <3>0. UNCHANGED resized
      BY Before
    <3> SUFFICES ASSUME resized = Page PROVE NoChecksum'
      BY <3>0 DEF NoChecksum
    <3> DEFINE a == Response(Head(toEcu))
    <3>1. a.kind = "d" => a.v = NoBytes
      <4>1. Head(toEcu) \in RequestType
        BY <2>1, HeadTailProperties
      <4> QED BY <4>1 DEF Response, RequestType
    <3>2. a \in AnswerType
      BY <2>1, HeadTailProperties, ResponseTyped
    <3>3. inbox' = Append(inbox, a)
      BY <1>12 DEF EcuServes
    <3> HIDE DEF a
    <3>4. /\ Len(inbox') = Len(inbox) + 1
          /\ \A i \in 1..Len(inbox) : inbox'[i] = inbox[i]
          /\ inbox'[Len(inbox) + 1] = a
      BY <2>1, <3>2, <3>3, AppendProperties
    <3>5. \A i \in 1..Len(inbox') : i \in 1..Len(inbox) \/ i = Len(inbox) + 1
      BY <2>1, <3>4
    <3> QED BY <1>0, <3>1, <3>4, <3>5 DEF NoChecksum
  <2> QED BY <2>2, <2>3 DEF LayoutInv
<1>13. CASE MessageLost
  <2>0. UNCHANGED resized
    BY <1>13 DEF MessageLost
  <2>1. CASE toEcu # <<>> /\ toEcu' = Tail(toEcu) /\ UNCHANGED inbox
    <3>1. toEcu \in Seq(RequestType) /\ Len(toEcu) \in Nat
      BY LenProperties DEF TypeOK
    <3>2. /\ Len(toEcu') = Len(toEcu) - 1
          /\ \A i \in 1..Len(toEcu') : toEcu'[i] = toEcu[i + 1]
      BY <2>1, <3>1, HeadTailProperties
    <3>3. \A i \in 1..Len(toEcu') : i + 1 \in 1..Len(toEcu)
      BY <3>1, <3>2
    <3> QED BY <1>0, <2>0, <2>1, <3>2, <3>3 DEF LayoutInv, NoWriteSent, NoChecksum
  <2>2. CASE inbox # <<>> /\ inbox' = Tail(inbox) /\ UNCHANGED toEcu
    <3>1. inbox \in Seq(AnswerType) /\ Len(inbox) \in Nat
      BY LenProperties DEF TypeOK
    <3>2. /\ Len(inbox') = Len(inbox) - 1
          /\ \A i \in 1..Len(inbox') : inbox'[i] = inbox[i + 1]
      BY <2>2, <3>1, HeadTailProperties
    <3>3. \A i \in 1..Len(inbox') : i + 1 \in 1..Len(inbox)
      BY <3>1, <3>2
    <3> QED BY <1>0, <2>0, <2>2, <3>2, <3>3 DEF LayoutInv, NoWriteSent, NoChecksum
  <2> QED BY <1>13, <2>1, <2>2 DEF MessageLost
<1>14. CASE PowerCycle
  BY <1>0, <1>14 DEF PowerCycle, LayoutInv, NoWriteSent, NoChecksum
<1>15. CASE UNCHANGED vars
  BY <1>0, <1>15 DEF vars, LayoutInv, NoWriteSent, NoChecksum
<1> QED
  BY <1>3, <1>4, <1>5, <1>6, <1>7, <1>8, <1>9, <1>10, <1>11, <1>12, <1>13,
     <1>14, <1>15
  DEF Next, CommsThread, Download, FlushDirty, DoBurn, Clients, Closed

-----------------------------------------------------------------------------
(* One exchange at a time.                                                 *)

LEMMA InitAt == Init => AtInv
BY DEF Init, AtInv

LEMMA NextAt == TypeOK /\ AtInv /\ [Next]_vars => AtInv'
<1> SUFFICES ASSUME TypeOK, AtInv, [Next]_vars PROVE AtInv'
  OBVIOUS
<1> USE DEF tune, store, wire, writing, reading, thread, client, trouble, ghost
<1>1. CASE Connect \/ QueryEnds \/ ReadOn \/ DownloadRead \/ DownloadPage
           \/ DownloadMismatch \/ DownloadFails
  BY <1>1 DEF Connect, QueryEnds, ReadOn, DownloadRead, DownloadPage,
              DownloadMismatch, DownloadFails, AtInv
<1>2. CASE Shutdown \/ PollDisconnects \/ PollEnds \/ FlushDone \/ BurnRefused
           \/ StartFlush
  BY <1>2 DEF Shutdown, PollDisconnects, PollEnds, FlushDone, Exit, BurnRefused,
              StartFlush, AtInv
<1>3. CASE StartBurn \/ BurnAcked \/ BurnFails
  BY <1>3 DEF StartBurn, BurnAcked, BurnFails, AtInv
<1>4. CASE FlushPage \/ WriteAcked \/ WriteFails
  BY <1>4 DEF FlushPage, WriteAcked, WriteFails, AtInv
<1>5. CASE Verified \/ VerifyMismatch \/ Resynced \/ VerifyFails
  BY <1>5 DEF Verified, VerifyMismatch, Resynced, VerifyFails, AtInv
<1>6. CASE tune_burn \/ disconnect
  BY <1>6 DEF tune_burn, disconnect, Enqueue, AtInv
<1>7. ASSUME NEW p \in Page, NEW o \in Offset, NEW v \in Values, Edit(p, o, v)
      PROVE  AtInv'
  BY <1>7 DEF Edit, AtInv
<1>8. CASE EcuServes \/ MessageLost \/ PowerCycle \/ UNCHANGED vars
  BY <1>8 DEF EcuServes, MessageLost, PowerCycle, vars, AtInv
<1> QED
  BY <1>1, <1>2, <1>3, <1>4, <1>5, <1>6, <1>7, <1>8
  DEF Next, CommsThread, Download, FlushDirty, DoBurn, Clients, Closed

(* What Receive finds on a quiet line is the answer to the awaited request, *)
(* and it leaves nothing behind.                                            *)
LEMMA QuietReceive ==
  ASSUME WireInv, Quiet, Receive
  PROVE  /\ toEcu = <<>> /\ inbox' = <<>>
         /\ pc \in AwaitStates /\ Head(inbox) = Response(Pending)
<1>1. /\ inbox = <<Response(Pending)>> /\ toEcu = <<>> /\ pc \in AwaitStates
  BY DEF WireInv, Receive
<1>2. Len(inbox) = 1
  BY <1>1
<1>3. PICK k \in 2..(Len(inbox) + 1) : inbox' = SubSeq(inbox, k, Len(inbox))
  BY DEF Receive, Leftovers
<1>4. inbox' = SubSeq(inbox, 2, 1)
  BY <1>2, <1>3
<1>5. inbox' = <<>>
  BY <1>4, SubSeqEmpty
<1> QED BY <1>1, <1>5

(* An exchange that fails and leaves the line quiet leaves it empty. *)
LEMMA QuietFails ==
  ASSUME TypeOK, WireInv, Quiet, Quiet', ExchangeFails
  PROVE  toEcu = <<>> /\ inbox' = <<>>
<1>1. CASE Rejected
  <2>1. /\ inbox = <<Response(Pending)>> /\ toEcu = <<>>
    BY <1>1 DEF WireInv, Rejected
  <2>2. Len(inbox) = 1
    BY <2>1
  <2>3. PICK k \in 2..(Len(inbox) + 1) : inbox' = SubSeq(inbox, k, Len(inbox))
    BY <1>1 DEF Rejected, Leftovers
  <2>4. inbox' = SubSeq(inbox, 2, 1)
    BY <2>2, <2>3
  <2>5. inbox' = <<>>
    BY <2>4, SubSeqEmpty
  <2> QED BY <2>1, <2>5
<1>2. CASE CrcMismatch
  BY <1>2 DEF WireInv, CrcMismatch
<1>3. CASE Timeout
  BY <1>3 DEF Timeout, TypeOK, Quiet
<1> QED BY <1>1, <1>2, <1>3 DEF ExchangeFails

(* What the payload is on a quiet line. *)
LEMMA QuietPayload ==
  ASSUME WireInv, Quiet, Receive
  PROVE  /\ pc \in {"crc", "verify"} /\ cur \notin resized => Payload = ram[cur]
         /\ pc \in {"read", "resync"} =>
              Payload = [i \in 1..PartLen(at) |-> ram[cur][at + i - 1]]
<1>1. Payload = Response(Pending).v
  BY QuietReceive DEF Payload
<1>2. CASE pc \in {"crc", "verify"} /\ cur \notin resized
  BY <1>1, <1>2 DEF Pending, Response, PageCrc, Request
<1>3. CASE pc \in {"read", "resync"}
  BY <1>1, <1>3 DEF Pending, Response, ReadPage, Request
<1> QED BY <1>2, <1>3

(* A request sent on an empty line is the only thing on it. *)
LEMMA QuietSend ==
  ASSUME NEW req, toEcu = <<>>, inbox' = <<>>, Send(req), pc' \in AwaitStates,
         Pending' = req
  PROVE  WireInv'
<1>1. toEcu' = <<req>>
  BY DEF Send
<1> QED BY <1>1 DEF WireInv

(* Nothing makes the line quiet again. *)
LEMMA QuietBefore == TypeOK /\ [Next]_vars /\ Quiet' => Quiet
<1> SUFFICES ASSUME TypeOK, [Next]_vars, Quiet' PROVE Quiet
  OBVIOUS
<1> USE DEF trouble
<1>0. lates \in Nat /\ reboots \in Nat
  BY DEF TypeOK
<1>1. CASE UNCHANGED <<lates, reboots>>
  BY <1>1 DEF Quiet
<1>2. CASE Timeout \/ PowerCycle
  BY <1>0, <1>2 DEF Timeout, PowerCycle, Quiet
<1>3. ASSUME Receive \/ ExchangeFails PROVE UNCHANGED <<lates, reboots>> \/ Timeout
  BY <1>3 DEF Receive, ExchangeFails, Rejected, CrcMismatch
<1>4. CASE QueryEnds \/ ReadOn \/ DownloadRead \/ DownloadPage \/ DownloadMismatch
           \/ DownloadFails \/ WriteAcked \/ WriteFails \/ Verified
           \/ VerifyMismatch \/ Resynced \/ VerifyFails \/ BurnAcked \/ BurnFails
  BY <1>1, <1>2, <1>3, <1>4
     DEF QueryEnds, ReadOn, DownloadRead, DownloadPage, DownloadMismatch,
         DownloadFails, WriteAcked, WriteFails, Verified, VerifyMismatch, Resynced,
         VerifyFails, BurnAcked, BurnFails
<1>5. CASE PollEnds \/ PollDisconnects
  BY <1>1, <1>2, <1>3, <1>5 DEF PollEnds, PollDisconnects, ExchangeFails, Rejected
<1>6. CASE Connect \/ Shutdown \/ BurnRefused \/ StartFlush \/ FlushPage \/ StartBurn
           \/ FlushDone
  BY <1>1, <1>6 DEF Connect, Shutdown, BurnRefused, StartFlush, FlushPage, StartBurn,
                    FlushDone
<1>7. CASE tune_burn \/ disconnect \/ EcuServes \/ MessageLost \/ UNCHANGED vars
  BY <1>1, <1>7 DEF tune_burn, disconnect, Enqueue, EcuServes, MessageLost, vars
<1>8. ASSUME NEW p \in Page, NEW o \in Offset, NEW v \in Values, Edit(p, o, v)
      PROVE  Quiet
  BY <1>1, <1>8 DEF Edit
<1> QED
  BY <1>2, <1>4, <1>5, <1>6, <1>7, <1>8
  DEF Next, CommsThread, Download, FlushDirty, DoBurn, Clients, Closed

LEMMA InitWire == Init => WireInv
BY DEF Init, WireInv

LEMMA NextWire == TypeOK /\ LoadInv /\ AtInv /\ WireInv /\ [Next]_vars => WireInv'
<1> SUFFICES ASSUME TypeOK, LoadInv, AtInv, WireInv, [Next]_vars, Quiet, Quiet'
             PROVE  WireInv'
  BY QuietBefore DEF WireInv
<1> USE DEF tune, store, wire, writing, reading, thread, client, trouble, ghost
<1>0. \/ toEcu = <<>> /\ inbox = <<>>
      \/ pc \in AwaitStates /\ toEcu = <<Pending>> /\ inbox = <<>>
      \/ pc \in AwaitStates /\ toEcu = <<>> /\ inbox = <<Response(Pending)>>
  BY DEF WireInv
<1>1. pc \notin AwaitStates => toEcu = <<>> /\ inbox = <<>>
  BY <1>0
<1>2. ASSUME toEcu' = <<>>, inbox' = <<>> PROVE WireInv'
  BY <1>2 DEF WireInv
<1>3. CASE Connect
  <2>1. toEcu = <<>> /\ inbox' = <<>> /\ Send(Query) /\ pc' = "query"
    BY <1>1, <1>3 DEF Connect, Send, AwaitStates
  <2> QED BY <2>1, QuietSend DEF AwaitStates, Pending
<1>4. CASE QueryEnds
  <2>1. toEcu = <<>> /\ inbox' = <<>>
    BY <1>4, QuietReceive, QuietFails DEF QueryEnds
  <2>2. Pending' = ReadPage(1, 1)
    BY <1>4 DEF QueryEnds, Pending, AtInv
  <2> QED BY <1>4, <2>1, <2>2, QuietSend DEF QueryEnds, AwaitStates
<1>5. CASE ReadOn
  <2>1. Pending' = ReadPage(cur, PartEnd(at) + 1)
    BY <1>5 DEF ReadOn, Pending
  <2> QED BY <1>5, <2>1, QuietReceive, QuietSend DEF ReadOn, AwaitStates
<1>6. CASE DownloadRead
  <2>1. Pending' = PageCrc(cur)
    BY <1>6 DEF DownloadRead, Pending
  <2> QED BY <1>6, <2>1, QuietReceive, QuietSend DEF DownloadRead, AwaitStates
<1>7. CASE DownloadPage
  <2>1. toEcu = <<>> /\ inbox' = <<>>
    BY <1>7, QuietReceive DEF DownloadPage
  <2>2. CASE cur < NumPages
    <3>1. /\ Send(ReadPage(cur + 1, 1)) /\ pc' = "read" /\ cur' = cur + 1
          /\ at' = 1
      BY <1>7, <2>2 DEF DownloadPage, AtInv, TypeOK, Page
    <3>2. Pending' = ReadPage(cur + 1, 1)
      BY <3>1 DEF Pending
    <3> QED BY <2>1, <3>1, <3>2, QuietSend DEF AwaitStates
  <2>3. CASE ~(cur < NumPages)
    BY <1>2, <1>7, <2>1, <2>3 DEF DownloadPage
  <2> QED BY <2>2, <2>3
<1>8. CASE DownloadMismatch
  <2>1. toEcu = <<>> /\ inbox' = <<>>
    BY <1>8, QuietReceive DEF DownloadMismatch
  <2>2. CASE MayRetry
    <3>1. Pending' = ReadPage(cur, 1)
      BY <1>8, <2>2 DEF DownloadMismatch, Pending, AtInv
    <3> QED BY <1>8, <2>1, <2>2, <3>1, QuietSend DEF DownloadMismatch, AwaitStates
  <2>3. CASE ~MayRetry
    BY <1>2, <1>8, <2>1, <2>3 DEF DownloadMismatch
  <2> QED BY <2>2, <2>3
<1>9. CASE DownloadFails \/ WriteFails \/ VerifyFails \/ BurnFails
  BY <1>2, <1>9, QuietFails DEF DownloadFails, WriteFails, VerifyFails, BurnFails
<1>10. CASE Shutdown \/ BurnRefused \/ StartFlush
  BY <1>1, <1>2, <1>10 DEF Shutdown, BurnRefused, StartFlush, AwaitStates
<1>11. ASSUME NEW p, NEW S, NEW bytes, WriteNext(p, S, bytes), cur' = p,
              toEcu = <<>>, inbox' = <<>>
       PROVE  WireInv'
  <2>1. CASE S = {} /\ pc' = "verify" /\ Send(PageCrc(p))
    <3>1. Pending' = PageCrc(p)
      BY <1>11, <2>1 DEF Pending
    <3> QED BY <1>11, <2>1, <3>1, QuietSend DEF AwaitStates
  <2>2. ASSUME NEW c \in S, pc' = "write", chunk' = c, sent' = bytes,
               Send(WriteChunk(p, [o \in c |-> bytes[o]]))
        PROVE  WireInv'
    <3>1. Pending' = WriteChunk(p, [o \in c |-> bytes[o]])
      BY <1>11, <2>2 DEF Pending
    <3> QED BY <1>11, <2>2, <3>1, QuietSend DEF AwaitStates
  <2> QED BY <1>11, <2>1, <2>2 DEF WriteNext
<1>12. CASE FlushPage
  <2>1. toEcu = <<>> /\ inbox' = <<>>
    BY <1>1, <1>12 DEF FlushPage, AwaitStates
  <2> QED BY <1>11, <1>12, <2>1 DEF FlushPage
<1>13. CASE WriteAcked
  BY <1>11, <1>13, QuietReceive DEF WriteAcked
<1>14. CASE Verified \/ Resynced
  BY <1>2, <1>14, QuietReceive DEF Verified, Resynced
<1>15. CASE VerifyMismatch
  <2>1. Pending' = ReadPage(cur, 1)
    BY <1>15 DEF VerifyMismatch, Pending, AtInv
  <2> QED BY <1>15, <2>1, QuietReceive, QuietSend DEF VerifyMismatch, AwaitStates
<1>16. ASSUME NEW S, BurnNext(S), toEcu = <<>>, inbox' = <<>>
       PROVE  WireInv'
  <2>1. ASSUME NEW p \in S, cur' = p, pc' = "burn", Send(Burn(p)) PROVE WireInv'
    <3>1. Pending' = Burn(p)
      BY <2>1 DEF Pending
    <3> QED BY <1>16, <2>1, <3>1, QuietSend DEF AwaitStates
  <2>2. CASE UNCHANGED toEcu
    BY <1>2, <1>16, <2>2
  <2> QED BY <1>16, <2>1, <2>2 DEF BurnNext
<1>17. CASE StartBurn
  <2>1. toEcu = <<>> /\ inbox' = <<>>
    BY <1>1, <1>17 DEF StartBurn, AwaitStates
  <2> QED BY <1>16, <1>17, <2>1 DEF StartBurn
<1>18. CASE BurnAcked
  BY <1>16, <1>18, QuietReceive DEF BurnAcked
<1>19. CASE FlushDone
  <2>1. toEcu = <<>> /\ inbox' = <<>>
    BY <1>1, <1>19 DEF FlushDone, AwaitStates
  <2>2. CASE pc' = "poll" /\ Send(Poll)
    BY <2>1, <2>2, QuietSend DEF AwaitStates, Pending
  <2>3. CASE UNCHANGED toEcu
    BY <1>2, <2>1, <2>3
  <2> QED BY <1>19, <2>2, <2>3 DEF FlushDone
<1>20. CASE PollEnds \/ PollDisconnects
  <2>1. CASE Receive \/ ExchangeFails
    BY <1>2, <1>20, <2>1, QuietReceive, QuietFails
       DEF PollEnds, PollDisconnects, ExchangeFails, Rejected
  <2>2. CASE toEcu' = <<>> /\ inbox' = <<>>
    BY <1>2, <2>2
  <2> QED BY <1>20, <2>1, <2>2 DEF PollEnds, PollDisconnects, ExchangeFails
<1>21. ASSUME UNCHANGED <<ram, resized, toEcu, inbox, pc, cur, at, chunk, sent>>
       PROVE  WireInv'
  <2>1. Pending' = Pending
    BY <1>21 DEF Pending
  <2>2. Response(Pending)' = Response(Pending)
    BY <1>21, <2>1 DEF Response
  <2> QED BY <1>0, <1>21, <2>1, <2>2 DEF WireInv
<1>22. ASSUME NEW p \in Page, NEW o \in Offset, NEW v \in Values, Edit(p, o, v)
       PROVE  WireInv'
  BY <1>21, <1>22 DEF Edit
<1>23. CASE tune_burn \/ disconnect \/ UNCHANGED vars
  BY <1>21, <1>23 DEF tune_burn, disconnect, Enqueue, vars
<1>24. CASE EcuServes
  <2>1. pc \in AwaitStates /\ toEcu = <<Pending>> /\ inbox = <<>>
    BY <1>0, <1>24 DEF EcuServes
  <2>2. Head(toEcu) = Pending /\ Tail(toEcu) = <<>>
    BY <2>1
  <2>3. toEcu' = <<>> /\ inbox' = <<Response(Pending)>>
    BY <1>24, <2>1, <2>2 DEF EcuServes
  <2>4. Pending' = Pending
    BY <1>24 DEF EcuServes, Pending
  <2>5. Response(Pending)' = Response(Pending)
    BY <1>24, <2>2, <2>4 DEF EcuServes, Response
  <2> QED BY <1>24, <2>1, <2>3, <2>4, <2>5 DEF EcuServes, WireInv
<1>25. CASE MessageLost
  <2>1. toEcu' = <<>> /\ inbox' = <<>>
    <3>1. CASE toEcu # <<>> /\ toEcu' = Tail(toEcu) /\ UNCHANGED inbox
      <4>1. toEcu = <<Pending>> /\ inbox = <<>>
        BY <1>0, <3>1
      <4> QED BY <3>1, <4>1
    <3>2. CASE inbox # <<>> /\ inbox' = Tail(inbox) /\ UNCHANGED toEcu
      <4>1. inbox = <<Response(Pending)>> /\ toEcu = <<>>
        BY <1>0, <3>2
      <4> QED BY <3>2, <4>1
    <3> QED BY <1>25, <3>1, <3>2 DEF MessageLost
  <2> QED BY <1>2, <2>1
<1>26. CASE PowerCycle
  BY <1>26 DEF PowerCycle, Quiet, TypeOK
<1> QED
  BY <1>3, <1>4, <1>5, <1>6, <1>7, <1>8, <1>9, <1>10, <1>12, <1>13, <1>14, <1>15,
     <1>17, <1>18, <1>19, <1>20, <1>22, <1>23, <1>24, <1>25, <1>26
  DEF Next, CommsThread, Download, FlushDirty, DoBurn, Clients, Closed

-----------------------------------------------------------------------------
(* The RAM shadow.                                                         *)

(* A page read part by part on a quiet line is the ECU's page. *)
LEMMA FilledIsRam ==
  ASSUME TypeOK, WireInv, Quiet, Receive, pc = "resync",
         \A o \in Offset : o < at => got[o] = ram[cur][o]
  PROVE  /\ \A o \in Offset : o <= PartEnd(at) => Filled[o] = ram[cur][o]
         /\ LastPart => Filled = ram[cur]
<1>1. at \in Offset /\ PartEnd(at) \in Offset /\ at <= PartEnd(at)
  BY PartFacts DEF TypeOK
<1>2. \A o \in at..PartEnd(at) : o - at + 1 \in 1..PartLen(at)
  BY <1>1, PartFacts DEF Offset
<1>3. \A o \in at..PartEnd(at) : Payload[o - at + 1] = ram[cur][o]
  <2> SUFFICES ASSUME NEW o \in at..PartEnd(at)
               PROVE  Payload[o - at + 1] = ram[cur][o]
    OBVIOUS
  <2>1. Payload[o - at + 1] = ram[cur][at + (o - at + 1) - 1]
    BY <1>2, QuietPayload
  <2>2. at + (o - at + 1) - 1 = o
    BY <1>1 DEF Offset
  <2> QED BY <2>1, <2>2
<1>4. \A o \in Offset : o <= PartEnd(at) => Filled[o] = ram[cur][o]
  <2> SUFFICES ASSUME NEW o \in Offset, o <= PartEnd(at)
               PROVE  Filled[o] = ram[cur][o]
    OBVIOUS
  <2>1. o < at \/ o \in at..PartEnd(at)
    BY <1>1 DEF Offset
  <2>2. CASE o \in at..PartEnd(at)
    BY <1>3, <2>2 DEF Filled
  <2>3. CASE o < at
    BY <1>1, <2>3 DEF Filled, Offset
  <2> QED BY <2>1, <2>2, <2>3
<1>5. ASSUME LastPart PROVE Filled = ram[cur]
  <2>1. \A o \in Offset : Filled[o] = ram[cur][o]
    BY <1>4, <1>5 DEF LastPart, Offset
  <2>2. ram[cur] \in [Offset -> Values]
    BY DEF TypeOK, Contents
  <2>3. Filled = [o \in Offset |-> Filled[o]]
    BY DEF Filled
  <2> HIDE DEF Filled
  <2> QED BY <2>1, <2>2, <2>3
<1> QED BY <1>4, <1>5

(* Only a page of the INI's size passes the download's checksum. *)
LEMMA LoadedSized ==
  ASSUME TypeOK, WireInv, Quiet, DownloadPage
  PROVE  cur \notin resized
<1> SUFFICES ASSUME cur \in resized PROVE FALSE
  OBVIOUS
<1>1. pc = "crc" /\ Receive /\ Payload = got
  BY DEF DownloadPage, CrcAgrees
<1>2. Payload = Response(PageCrc(cur)).v
  BY <1>1, QuietReceive DEF Payload, Pending
<1>3. got = NoBytes
  BY <1>1, <1>2 DEF Response, PageCrc, Request
<1>4. DOMAIN got = Offset /\ DOMAIN NoBytes = {} /\ 1 \in Offset
  BY SizeAssumption DEF TypeOK, Contents, NoBytes, Offset
<1> QED BY <1>3, <1>4

LEMMA InitShadow == Init => ShadowInv
BY DEF Init, ShadowInv

LEMMA NextShadow ==
  TypeOK /\ LoadInv /\ SizeInv /\ AtInv /\ WireInv /\ ShadowInv /\ [Next]_vars
    => ShadowInv'
<1> SUFFICES ASSUME TypeOK, LoadInv, SizeInv, AtInv, WireInv, ShadowInv,
                    [Next]_vars, Quiet, Quiet'
             PROVE  ShadowInv'
  BY QuietBefore DEF ShadowInv
<1> USE DEF tune, store, wire, writing, reading, thread, client, trouble, ghost
<1>0. /\ loaded => \A p \in Page :
                     p \in blind \/ InFlush(p) \/ ecu[p] = ram[p]
      /\ pc \in {"read", "crc"} => \A p \in Page : p < cur => ecu[p] = ram[p]
      /\ pc = "resync" => \A o \in Offset : o < at => got[o] = ram[cur][o]
      /\ cur \in Page
  BY DEF ShadowInv, TypeOK
<1>1. CASE Connect
  BY <1>1 DEF Connect, ShadowInv
<1>2. CASE QueryEnds
  BY <1>2 DEF QueryEnds, ShadowInv, LoadInv, Page
<1>3. CASE ReadOn
  <2>1. CASE pc = "read"
    BY <1>0, <1>3, <2>1 DEF ReadOn, ShadowInv, LoadInv
  <2>2. CASE pc = "resync"
    <3>1. \A o \in Offset : o < at' => got'[o] = ram'[cur'][o]
      <4>1. /\ got' = Filled /\ at' = PartEnd(at) + 1 /\ ram' = ram /\ cur' = cur
            /\ Receive
        BY <1>3 DEF ReadOn
      <4>2. \A o \in Offset : o < at' => o <= PartEnd(at)
        BY <4>1, PartFacts DEF TypeOK, Offset
      <4> QED BY <1>0, <2>2, <4>1, <4>2, FilledIsRam
    <3> QED BY <1>0, <1>3, <2>2, <3>1 DEF ReadOn, ShadowInv, InFlush
  <2> QED BY <1>3, <2>1, <2>2 DEF ReadOn
<1>4. CASE DownloadRead
  BY <1>0, <1>4 DEF DownloadRead, ShadowInv, LoadInv
<1>5. CASE DownloadPage
  <2>1. got = ram[cur]
    BY <1>5, LoadedSized, QuietPayload DEF DownloadPage, CrcAgrees
  <2>2. \A p \in Page : p <= cur => ecu'[p] = ram'[p]
    <3> SUFFICES ASSUME NEW p \in Page, p <= cur PROVE ecu'[p] = ram'[p]
      OBVIOUS
    <3>1. /\ ecu' = [ecu EXCEPT ![cur] = got] /\ ram' = ram
          /\ \A q \in Page : q < cur => ecu[q] = ram[q]
      BY <1>0, <1>5 DEF DownloadPage, load_page
    <3>2. p < cur \/ p = cur
      BY DEF TypeOK, Page
    <3> QED BY <2>1, <3>1, <3>2 DEF TypeOK
  <2>3. CASE cur < NumPages /\ cur' = cur + 1 /\ pc' = "read" /\ UNCHANGED loaded
    BY <1>5, <2>2, <2>3 DEF DownloadPage, LoadInv, ShadowInv, TypeOK, Page
  <2>4. CASE cur = NumPages /\ pc' = "idle"
    BY <2>2, <2>4 DEF ShadowInv, Page
  <2> QED BY <1>5, <2>3, <2>4 DEF DownloadPage
<1>6. CASE DownloadMismatch \/ DownloadFails
  BY <1>0, <1>6 DEF DownloadMismatch, DownloadFails, ShadowInv, LoadInv
<1>7. CASE Shutdown \/ PollDisconnects
  BY <1>7 DEF Shutdown, PollDisconnects, Exit, ShadowInv
<1>8. CASE BurnRefused \/ StartFlush \/ FlushDone \/ PollEnds
  BY <1>0, <1>8 DEF BurnRefused, StartFlush, FlushDone, PollEnds, ShadowInv, InFlush
<1>9. CASE FlushPage
  <2>1. pc' \in {"write", "verify"}
    BY <1>9 DEF FlushPage, WriteNext
  <2> QED BY <1>0, <1>9, <2>1 DEF FlushPage, ShadowInv, InFlush
<1>10. CASE WriteAcked
  <2>1. pc' \in {"write", "verify"} /\ cur' = cur
    BY <1>10 DEF WriteAcked, WriteNext
  <2>2. \A p \in Page : p # cur => ecu'[p] = ecu[p]
    BY <1>10 DEF WriteAcked, mark_sent, TypeOK
  <2> QED BY <1>0, <1>10, <2>1, <2>2 DEF WriteAcked, ShadowInv, InFlush
<1>11. CASE WriteFails \/ VerifyFails
  BY <1>0, <1>11 DEF WriteFails, VerifyFails, ShadowInv, InFlush
<1>12. CASE Verified
  <2>1. ecu[cur] = ram[cur]
    BY <1>12, QuietPayload DEF Verified, LoadInv, SizeInv
  <2> QED BY <1>0, <1>12, <2>1 DEF Verified, ShadowInv, InFlush
<1>13. CASE VerifyMismatch
  BY <1>0, <1>13 DEF VerifyMismatch, ShadowInv, InFlush, AtInv, Offset
<1>14. CASE Resynced
  <2>1. Filled = ram[cur]
    BY <1>0, <1>14, FilledIsRam DEF Resynced
  <2>2. \A p \in Page : ecu'[p] = IF p = cur THEN ram[cur] ELSE ecu[p]
    BY <1>14, <2>1 DEF Resynced, resync_ecu, TypeOK
  <2> QED BY <1>0, <1>14, <2>2 DEF Resynced, ShadowInv, InFlush
<1>15. CASE StartBurn \/ BurnAcked \/ BurnFails
  <2>1. /\ pc' \in {"idle", "burn"} /\ pc \in {"flush", "burn"}
        /\ UNCHANGED <<ecu, ram, loaded, blind>>
    BY <1>15 DEF StartBurn, BurnAcked, BurnFails, BurnNext, mark_burned
  <2> QED BY <1>0, <2>1 DEF ShadowInv, InFlush
<1>16. CASE tune_burn \/ disconnect \/ UNCHANGED vars
  BY <1>0, <1>16 DEF tune_burn, disconnect, Enqueue, vars, ShadowInv, InFlush
<1>17. ASSUME NEW p \in Page, NEW o \in Offset, NEW v \in Values, Edit(p, o, v)
       PROVE  ShadowInv'
  BY <1>0, <1>17 DEF Edit, ShadowInv, InFlush
<1>18. CASE EcuServes
  <2>1. pc \in AwaitStates /\ Head(toEcu) = Pending
    <3>1. pc \in AwaitStates /\ toEcu = <<Pending>>
      BY <1>18 DEF WireInv, EcuServes
    <3> QED BY <3>1
  <2>2. CASE Pending.cmd # "M"
    <3>1. ram' = ram
      BY <1>18, <2>1, <2>2 DEF EcuServes
    <3> QED BY <1>0, <1>18, <3>1 DEF EcuServes, ShadowInv, InFlush
  <2>3. CASE Pending.cmd = "M"
    <3>1. pc = "write" /\ Pending.page = cur
      BY <2>1, <2>3 DEF Pending, AwaitStates, Query, ReadPage, PageCrc, Burn, Poll,
                        WriteChunk, Request
    <3>2. \A p \in Page : p # cur => ram'[p] = ram[p]
      BY <1>18, <2>1, <3>1 DEF EcuServes, TypeOK
    <3> QED BY <1>0, <1>18, <3>1, <3>2 DEF EcuServes, ShadowInv, InFlush
  <2> QED BY <2>2, <2>3
<1>19. CASE MessageLost
  BY <1>0, <1>19 DEF MessageLost, ShadowInv, InFlush
<1>20. CASE PowerCycle
  BY <1>20 DEF PowerCycle, Quiet, TypeOK
<1> QED
  BY <1>1, <1>2, <1>3, <1>4, <1>5, <1>6, <1>7, <1>8, <1>9, <1>10, <1>11, <1>12,
     <1>13, <1>14, <1>15, <1>16, <1>17, <1>18, <1>19, <1>20
  DEF Next, CommsThread, Download, FlushDirty, DoBurn, Clients, Closed

-----------------------------------------------------------------------------
(* The EEPROM shadow.                                                      *)

LEMMA InitBurned == Init => BurnedInv /\ BurnListInv
BY DEF Init, BurnedInv, BurnListInv

LEMMA NextBurned ==
  TypeOK /\ LoadInv /\ LayoutInv /\ WireInv /\ ShadowInv /\ BurnedInv /\ [Next]_vars
    => BurnedInv'
<1> SUFFICES ASSUME TypeOK, LoadInv, LayoutInv, WireInv, ShadowInv, BurnedInv,
                    [Next]_vars, Quiet, Quiet'
             PROVE  BurnedInv'
  BY QuietBefore DEF BurnedInv
<1> USE DEF tune, store, wire, writing, reading, thread, client, trouble, ghost
<1>0. /\ loaded => \A p \in Page : \/ p \in unsure
                                   \/ pc = "burn" /\ cur = p
                                   \/ burned[p] = eeprom[p]
      /\ pc \in {"read", "crc"} =>
           \A p \in Page : p < cur => p \in unsure \/ burned[p] = eeprom[p]
      /\ pc = "burn" /\ inbox # <<>> => eeprom[cur] = ram[cur]
      /\ cur \in Page
  BY DEF BurnedInv, TypeOK
<1>1. CASE Connect
  BY <1>1 DEF Connect, BurnedInv
<1>2. CASE QueryEnds
  BY <1>2 DEF QueryEnds, BurnedInv, LoadInv, Page
<1>3. CASE ReadOn \/ DownloadRead
  BY <1>0, <1>3 DEF ReadOn, DownloadRead, BurnedInv, LoadInv
<1>4. CASE DownloadPage
  <2>1. \A p \in Page : p <= cur => p \in unsure' \/ burned'[p] = eeprom'[p]
    <3> SUFFICES ASSUME NEW p \in Page, p <= cur
                 PROVE  p \in unsure' \/ burned'[p] = eeprom'[p]
      OBVIOUS
    <3>1. /\ burned' = [burned EXCEPT ![cur] = got] /\ eeprom' = eeprom
          /\ unsure' = IF eeprom[cur] = got THEN unsure \ {cur} ELSE unsure \cup {cur}
          /\ \A q \in Page : q < cur => q \in unsure \/ burned[q] = eeprom[q]
      BY <1>0, <1>4 DEF DownloadPage, load_page
    <3>2. CASE p < cur
      BY <1>0, <3>1, <3>2 DEF TypeOK, Page
    <3>3. CASE p = cur
      BY <1>0, <3>1, <3>3 DEF TypeOK
    <3> QED BY <3>2, <3>3 DEF TypeOK, Page
  <2>2. CASE cur < NumPages /\ cur' = cur + 1 /\ pc' = "read" /\ UNCHANGED loaded
    BY <1>4, <2>1, <2>2 DEF DownloadPage, LoadInv, BurnedInv, TypeOK, Page
  <2>3. CASE cur = NumPages /\ pc' = "idle"
    BY <2>1, <2>3 DEF BurnedInv, Page
  <2> QED BY <1>4, <2>2, <2>3 DEF DownloadPage
<1>5. CASE DownloadMismatch \/ DownloadFails
  BY <1>0, <1>5 DEF DownloadMismatch, DownloadFails, BurnedInv, LoadInv
<1>6. CASE Shutdown \/ PollDisconnects
  BY <1>6 DEF Shutdown, PollDisconnects, Exit, BurnedInv
<1>7. CASE BurnRefused \/ StartFlush \/ FlushDone \/ PollEnds
  BY <1>0, <1>7 DEF BurnRefused, StartFlush, FlushDone, PollEnds, BurnedInv
<1>8. CASE FlushPage \/ WriteAcked
  <2>1. /\ pc' \in {"write", "verify"} /\ pc \in {"flush", "write"}
        /\ UNCHANGED <<burned, eeprom, loaded, unsure>>
    BY <1>8 DEF FlushPage, WriteAcked, WriteNext, mark_sent
  <2> QED BY <1>0, <2>1 DEF BurnedInv
<1>9. CASE WriteFails \/ VerifyFails \/ Verified \/ VerifyMismatch \/ Resynced
  BY <1>0, <1>9 DEF WriteFails, VerifyFails, Verified, VerifyMismatch, Resynced,
                    resync_ecu, BurnedInv
<1>10. CASE StartBurn
  <2>1. inbox = <<>> /\ pc = "flush"
    BY <1>10 DEF StartBurn, WireInv, AwaitStates
  <2>2. /\ pc' \in {"idle", "burn"} /\ inbox' = <<>>
        /\ UNCHANGED <<burned, eeprom, loaded, unsure>>
    BY <1>10, <2>1 DEF StartBurn, BurnNext
  <2> QED BY <1>0, <2>1, <2>2 DEF BurnedInv
<1>11. CASE BurnAcked
  <2>1. inbox # <<>> /\ inbox' = <<>> /\ loaded
    BY <1>11, QuietReceive DEF BurnAcked, Receive, LoadInv
  <2>2. /\ pc' \in {"idle", "burn"} /\ pc = "burn"
        /\ UNCHANGED <<eeprom, loaded>>
    BY <1>11 DEF BurnAcked, BurnNext
  <2>3. \A p \in Page : p \in unsure' \/ burned'[p] = eeprom'[p]
    <3> SUFFICES ASSUME NEW p \in Page PROVE p \in unsure' \/ burned'[p] = eeprom'[p]
      OBVIOUS
    <3>1. /\ burned' = [burned EXCEPT ![cur] = ecu[cur]]
          /\ unsure' = IF cur \in blind THEN unsure \cup {cur} ELSE unsure \ {cur}
      BY <1>11 DEF BurnAcked, mark_burned
    <3>2. CASE p # cur
      BY <1>0, <2>1, <2>2, <3>1, <3>2 DEF TypeOK
    <3>3. CASE p = cur /\ cur \in blind
      BY <3>1, <3>3
    <3>4. CASE p = cur /\ cur \notin blind
      <4>1. ecu[cur] = ram[cur]
        BY <1>0, <2>1, <2>2, <3>4 DEF ShadowInv, InFlush
      <4> QED BY <1>0, <2>1, <2>2, <3>1, <3>4, <4>1 DEF TypeOK
    <3> QED BY <3>2, <3>3, <3>4
  <2> QED BY <2>1, <2>2, <2>3 DEF BurnedInv
<1>12. CASE BurnFails
  BY <1>0, <1>12 DEF BurnFails, BurnedInv
<1>13. CASE tune_burn \/ disconnect \/ UNCHANGED vars
  BY <1>0, <1>13 DEF tune_burn, disconnect, Enqueue, vars, BurnedInv
<1>14. ASSUME NEW p \in Page, NEW o \in Offset, NEW v \in Values, Edit(p, o, v)
       PROVE  BurnedInv'
  BY <1>0, <1>14 DEF Edit, BurnedInv
<1>15. CASE EcuServes
  <2>1. pc \in AwaitStates /\ Head(toEcu) = Pending
    <3>1. pc \in AwaitStates /\ toEcu = <<Pending>>
      BY <1>15 DEF WireInv, EcuServes
    <3> QED BY <3>1
  <2>2. /\ UNCHANGED <<pc, cur, loaded, unsure, burned>>
        /\ eeprom' = IF Pending.cmd = "b"
                       THEN [eeprom EXCEPT ![Pending.page] = ram[Pending.page]]
                       ELSE eeprom
    BY <1>15, <2>1 DEF EcuServes
  <2>3. CASE pc = "burn"
    <3>1. Pending.cmd = "b" /\ Pending.page = cur
      BY <2>3 DEF Pending, Burn, Request
    <3>2. ram' = ram
      BY <1>15, <2>1, <3>1 DEF EcuServes
    <3>3. /\ eeprom'[cur] = ram'[cur]
          /\ \A p \in Page : p # cur => eeprom'[p] = eeprom[p]
      BY <1>0, <2>2, <3>1, <3>2 DEF TypeOK
    <3> QED BY <1>0, <2>2, <2>3, <3>3 DEF BurnedInv
  <2>4. CASE pc # "burn"
    <3>1. Pending.cmd # "b"
      BY <2>4 DEF Pending, Query, ReadPage, PageCrc, Poll, WriteChunk, Request
    <3> QED BY <1>0, <2>2, <2>4, <3>1 DEF BurnedInv
  <2> QED BY <2>3, <2>4
<1>16. CASE MessageLost
  <2>1. inbox' # <<>> => inbox # <<>>
    <3>1. CASE UNCHANGED inbox
      BY <3>1
    <3>2. CASE inbox # <<>>
      BY <3>2
    <3> QED BY <1>16, <3>1, <3>2 DEF MessageLost
  <2> QED BY <1>0, <1>16, <2>1 DEF MessageLost, BurnedInv
<1>17. CASE PowerCycle
  BY <1>17 DEF PowerCycle, Quiet, TypeOK
<1> QED
  BY <1>1, <1>2, <1>3, <1>4, <1>5, <1>6, <1>7, <1>8, <1>9, <1>10, <1>11, <1>12,
     <1>13, <1>14, <1>15, <1>16, <1>17
  DEF Next, CommsThread, Download, FlushDirty, DoBurn, Clients, Closed

(* The pages of S are those still to burn; all others have equal shadows. *)
LEMMA BurnNextList ==
  ASSUME NEW S \in SUBSET Page, BurnNext(S),
         \A p \in Page : p \in S \/ burned'[p] = ecu'[p]
  PROVE  BurnListInv' /\ (pc' # "burn" => \A p \in Page : burned'[p] = ecu'[p])
BY DEF BurnNext, BurnListInv

LEMMA NextBurnList ==
  TypeOK /\ BurnListInv /\ [Next]_vars
    => /\ BurnListInv'
       /\ reply # "ok" /\ reply' = "ok" =>
            /\ pc \in {"flush", "burn"} /\ pc' = "idle"
            /\ \A p \in Page : burned'[p] = ecu'[p]
            /\ UNCHANGED <<loaded, lates, reboots>>
<1> SUFFICES ASSUME TypeOK, BurnListInv, [Next]_vars
             PROVE  /\ BurnListInv'
                    /\ reply # "ok" /\ reply' = "ok" =>
                         /\ pc \in {"flush", "burn"} /\ pc' = "idle"
                         /\ \A p \in Page : burned'[p] = ecu'[p]
                         /\ UNCHANGED <<loaded, lates, reboots>>
  OBVIOUS
<1> USE DEF tune, store, wire, writing, reading, thread, client, trouble, ghost
<1> DEFINE Goal == /\ BurnListInv'
                   /\ reply # "ok" /\ reply' = "ok" =>
                        /\ pc \in {"flush", "burn"} /\ pc' = "idle"
                        /\ \A p \in Page : burned'[p] = ecu'[p]
                        /\ UNCHANGED <<loaded, lates, reboots>>
<1>1. ASSUME pc' # "burn", reply' \in {reply, "none", "err"} PROVE Goal
  BY <1>1 DEF BurnListInv
<1>2. CASE Connect \/ QueryEnds \/ ReadOn \/ DownloadRead \/ DownloadPage
           \/ DownloadMismatch \/ DownloadFails
  <2>1. pc' # "burn" /\ reply' \in {reply, "none"}
    BY <1>2 DEF Connect, QueryEnds, ReadOn, DownloadRead, DownloadPage,
                DownloadMismatch, DownloadFails
  <2> QED BY <1>1, <2>1
<1>3. CASE Shutdown \/ PollDisconnects \/ PollEnds \/ FlushDone \/ BurnRefused
           \/ StartFlush
  <2>1. pc' # "burn" /\ reply' \in {reply, "none", "err"}
    BY <1>3 DEF Shutdown, PollDisconnects, PollEnds, FlushDone, Exit, BurnRefused,
                StartFlush
  <2> QED BY <1>1, <2>1
<1>4. CASE FlushPage \/ WriteAcked \/ WriteFails
  <2>1. pc' # "burn" /\ reply' = reply
    BY <1>4 DEF FlushPage, WriteAcked, WriteNext, WriteFails
  <2> QED BY <1>1, <2>1
<1>5. CASE Verified \/ VerifyMismatch \/ Resynced \/ VerifyFails \/ BurnFails
  <2>1. pc' # "burn" /\ reply' \in {reply, "err"}
    BY <1>5 DEF Verified, VerifyMismatch, Resynced, VerifyFails, BurnFails
  <2> QED BY <1>1, <2>1
<1>6. CASE StartBurn
  <2> DEFINE S == {p \in Page : page_burn_pending(p)}
  <2>1. /\ BurnNext(S) /\ pc = "flush"
        /\ UNCHANGED <<burned, ecu, loaded, lates, reboots>>
    BY <1>6 DEF StartBurn
  <2>2. \A p \in Page : p \in S \/ burned'[p] = ecu'[p]
    BY <2>1 DEF page_burn_pending
  <2>3. S \in SUBSET Page
    OBVIOUS
  <2> HIDE DEF S
  <2>4. /\ BurnListInv' /\ (pc' # "burn" => \A p \in Page : burned'[p] = ecu'[p])
    BY <2>1, <2>2, <2>3, BurnNextList
  <2>5. reply # "ok" /\ reply' = "ok" => pc' = "idle"
    BY <2>1 DEF BurnNext
  <2> QED BY <2>1, <2>4, <2>5
<1>7. CASE BurnAcked
  <2>1. /\ BurnNext(todo) /\ pc = "burn" /\ burned' = [burned EXCEPT ![cur] = ecu[cur]]
        /\ UNCHANGED <<ecu, loaded, lates, reboots>>
    BY <1>7 DEF BurnAcked, mark_burned, Receive
  <2>2. \A p \in Page : p \in todo \/ burned'[p] = ecu'[p]
    BY <2>1 DEF BurnListInv, TypeOK
  <2>3. /\ BurnListInv' /\ (pc' # "burn" => \A p \in Page : burned'[p] = ecu'[p])
    BY <2>1, <2>2, BurnNextList DEF TypeOK
  <2>4. reply # "ok" /\ reply' = "ok" => pc' = "idle"
    BY <2>1 DEF BurnNext
  <2> QED BY <2>1, <2>3, <2>4
<1>8. ASSUME UNCHANGED <<pc, cur, todo, burned, ecu, reply>> PROVE Goal
  BY <1>8 DEF BurnListInv
<1>9. CASE tune_burn \/ disconnect \/ UNCHANGED vars
  BY <1>8, <1>9 DEF tune_burn, disconnect, Enqueue, vars
<1>10. ASSUME NEW p \in Page, NEW o \in Offset, NEW v \in Values, Edit(p, o, v)
       PROVE  Goal
  BY <1>8, <1>10 DEF Edit
<1>11. CASE EcuServes \/ MessageLost \/ PowerCycle
  BY <1>8, <1>11 DEF EcuServes, MessageLost, PowerCycle
<1> QED
  BY <1>2, <1>3, <1>4, <1>5, <1>6, <1>7, <1>9, <1>10, <1>11
  DEF Next, CommsThread, Download, FlushDirty, DoBurn, Clients, Closed

-----------------------------------------------------------------------------
(* Sessions that no request of an earlier one disturbs.                    *)

(* What is left after an answer is taken was there before. *)
LEMMA TakeKeeps ==
  ASSUME TypeOK, inbox' \in Leftovers
  PROVE  \A i \in 1..Len(inbox') :
           \E j \in 1..Len(inbox) : inbox'[i] = inbox[j]
<1>1. PICK k \in 2..(Len(inbox) + 1) : inbox' = SubSeq(inbox, k, Len(inbox))
  BY DEF Leftovers
<1>2. inbox \in Seq(AnswerType) /\ Len(inbox) \in Nat
  BY LenProperties DEF TypeOK
<1>3. \A i \in k..Len(inbox) : inbox[i] \in AnswerType
  BY <1>2, ElementOfSeq
<1>4. /\ Len(inbox') = IF k <= Len(inbox) THEN Len(inbox) - k + 1 ELSE 0
      /\ \A i \in 1..(Len(inbox) - k + 1) : inbox'[i] = inbox[k + i - 1]
  BY <1>1, <1>2, <1>3, SubSeqProperties
<1> QED BY <1>2, <1>4

(* What a request sent leaves on the way to the ECU. *)
LEMMA SendKeeps ==
  ASSUME TypeOK, NEW req, req \in RequestType, Send(req)
  PROVE  /\ Len(toEcu) \in Nat
         /\ Len(toEcu') = Len(toEcu) + 1
         /\ \A i \in 1..Len(toEcu) : toEcu'[i] = toEcu[i]
         /\ toEcu'[Len(toEcu) + 1] = req
BY LenProperties, AppendProperties DEF TypeOK, Send

(* What the ECU serves, or the line loses, is the oldest request. *)
LEMMA TailKeeps ==
  ASSUME TypeOK, toEcu # <<>>, toEcu' = Tail(toEcu)
  PROVE  /\ Len(toEcu) \in Nat \ {0}
         /\ Len(toEcu') = Len(toEcu) - 1
         /\ \A i \in 1..Len(toEcu') : toEcu'[i] = toEcu[i + 1]
         /\ Head(toEcu) = toEcu[1]
BY LenProperties, EmptySeq, HeadTailProperties DEF TypeOK

LEMMA TailAnswers ==
  ASSUME TypeOK, inbox # <<>>, inbox' = Tail(inbox)
  PROVE  /\ Len(inbox) \in Nat \ {0}
         /\ Len(inbox') = Len(inbox) - 1
         /\ \A i \in 1..Len(inbox') : inbox'[i] = inbox[i + 1]
BY LenProperties, EmptySeq, HeadTailProperties DEF TypeOK

(* An answer the download accepts is that of the request it waits for, and   *)
(* nothing is left on the line.                                              *)
LEMMA OwnReceive ==
  ASSUME TypeOK, pc \in {"read", "crc"}, OwnAnswers, Receive
  PROVE  toEcu = <<>> /\ inbox' = <<>> /\ Answered(Head(inbox))
<1>1. inbox \in Seq(AnswerType) /\ inbox # <<>> /\ Len(inbox) \in Nat
  BY LenProperties DEF TypeOK, Receive
<1>2. Head(inbox) = inbox[1] /\ 1 \in 1..Len(inbox)
  BY <1>1, EmptySeq
<1>3. Head(inbox).kind # "Q"
  BY DEF Receive, Accepts, AwaitedCmd
<1>4. 1 = Len(inbox) /\ toEcu = <<>> /\ Answered(inbox[1])
  BY <1>2, <1>3 DEF OwnAnswers
<1>5. PICK k \in 2..(Len(inbox) + 1) : inbox' = SubSeq(inbox, k, Len(inbox))
  BY DEF Receive, Leftovers
<1>6. Len(inbox) = 1
  BY <1>4
<1>7. inbox' = SubSeq(inbox, 2, 1)
  BY <1>5, <1>6
<1>8. inbox' = <<>>
  BY <1>7, SubSeqEmpty
<1> QED BY <1>2, <1>4, <1>8

(* A request sent on an empty line is the session's own. *)
LEMMA OwnSend ==
  ASSUME NEW req, toEcu = <<>>, inbox' = <<>>, Send(req), Pending' = req
  PROVE  DownloadOwn'
<1>1. toEcu' = <<req>>
  BY DEF Send
<1>2. Len(toEcu') = 1 /\ toEcu'[1] = req /\ Len(inbox') = 0
  BY <1>1
<1> QED BY <1>2 DEF DownloadOwn, OwnRequests, OwnAnswers

LEMMA NextDownloadOwn ==
  ASSUME TypeOK, LoadInv, AtInv, DownloadOwn, [Next]_vars, ~Connect
  PROVE  DownloadOwn'
<1> USE DEF tune, store, wire, writing, reading, thread, client, trouble, ghost
<1>0. ASSUME pc' \notin {"query", "read", "crc"} PROVE DownloadOwn'
  BY <1>0 DEF DownloadOwn
<1>1. CASE QueryEnds
  <2>1. /\ \A i \in 1..Len(toEcu) : toEcu[i].cmd = "Q"
        /\ \A i \in 1..Len(inbox) : inbox[i].kind = "Q"
    BY <1>1 DEF QueryEnds, DownloadOwn, OwnRequests, OwnAnswers, Answered, Pending,
                Query, Request
  <2>2. \A i \in 1..Len(inbox') : inbox'[i].kind = "Q"
    <3>1. inbox' \in Leftovers \/ inbox' = <<>> \/ inbox' = inbox
      BY <1>1 DEF QueryEnds, Receive, ExchangeFails, Rejected, CrcMismatch, Timeout
    <3>2. CASE inbox' \in Leftovers
      BY <2>1, <3>2, TakeKeeps
    <3>3. CASE inbox' = <<>>
      BY <3>3
    <3> QED BY <2>1, <3>1, <3>2, <3>3
  <2>3. /\ Send(ReadPage(1, 1)) /\ Pending' = ReadPage(1, 1)
    BY <1>1 DEF QueryEnds, Pending, AtInv
  <2>4. ReadPage(1, 1) \in RequestType
    <3>1. 1 \in Page /\ 1 \in Offset
      BY SizeAssumption DEF Page, Offset
    <3> QED BY <3>1, BlankTyped, RequestsTyped
  <2>5. OwnRequests'
    BY <2>1, <2>3, <2>4, SendKeeps DEF OwnRequests
  <2> QED BY <2>2, <2>5 DEF OwnAnswers, DownloadOwn
<1>2. CASE ReadOn
  <2>1. CASE pc = "read"
    <3>1. Pending' = ReadPage(cur, PartEnd(at) + 1)
      BY <1>2, <2>1 DEF ReadOn, Pending
    <3>2. toEcu = <<>> /\ inbox' = <<>>
      BY <1>2, <2>1, OwnReceive DEF ReadOn, DownloadOwn
    <3> QED BY <1>2, <3>1, <3>2, OwnSend DEF ReadOn
  <2>2. CASE pc = "resync"
    BY <1>0, <1>2, <2>2 DEF ReadOn
  <2> QED BY <1>2, <2>1, <2>2 DEF ReadOn
<1>3. CASE DownloadRead
  <2>1. Pending' = PageCrc(cur)
    BY <1>3 DEF DownloadRead, Pending
  <2>2. toEcu = <<>> /\ inbox' = <<>>
    BY <1>3, OwnReceive DEF DownloadRead, DownloadOwn
  <2> QED BY <1>3, <2>1, <2>2, OwnSend DEF DownloadRead
<1>4. CASE DownloadPage
  <2>1. toEcu = <<>> /\ inbox' = <<>>
    BY <1>4, OwnReceive DEF DownloadPage, DownloadOwn
  <2>2. CASE cur < NumPages
    <3>1. /\ Send(ReadPage(cur + 1, 1)) /\ pc' = "read" /\ cur' = cur + 1
          /\ at' = 1
      BY <1>4, <2>2 DEF DownloadPage, AtInv, TypeOK, Page
    <3>2. Pending' = ReadPage(cur + 1, 1)
      BY <3>1 DEF Pending
    <3> QED BY <2>1, <3>1, <3>2, OwnSend
  <2>3. CASE ~(cur < NumPages)
    BY <1>0, <1>4, <2>3 DEF DownloadPage
  <2> QED BY <2>2, <2>3
<1>5. CASE DownloadMismatch
  <2>1. toEcu = <<>> /\ inbox' = <<>>
    BY <1>5, OwnReceive DEF DownloadMismatch, DownloadOwn
  <2>2. CASE MayRetry
    <3>1. Pending' = ReadPage(cur, 1)
      BY <1>5, <2>2 DEF DownloadMismatch, Pending, AtInv
    <3> QED BY <1>5, <2>1, <2>2, <3>1, OwnSend DEF DownloadMismatch
  <2>3. CASE ~MayRetry
    BY <1>0, <1>5, <2>3 DEF DownloadMismatch
  <2> QED BY <2>2, <2>3
<1>6. CASE DownloadFails \/ WriteFails \/ VerifyFails \/ BurnFails \/ Shutdown
           \/ StartFlush \/ Verified \/ VerifyMismatch \/ Resynced
           \/ FlushDone \/ PollEnds \/ PollDisconnects \/ BurnRefused
  BY <1>0, <1>6 DEF DownloadFails, WriteFails, VerifyFails, BurnFails, Shutdown, Exit,
                    StartFlush, Verified, VerifyMismatch, Resynced, FlushDone,
                    PollEnds, PollDisconnects, BurnRefused
<1>7. CASE FlushPage \/ WriteAcked
  BY <1>0, <1>7 DEF FlushPage, WriteAcked, WriteNext
<1>8. CASE StartBurn \/ BurnAcked
  BY <1>0, <1>8 DEF StartBurn, BurnAcked, BurnNext
<1>9. ASSUME UNCHANGED <<ram, resized, toEcu, inbox, pc, cur, at, chunk, sent,
                         reboots>>
      PROVE  DownloadOwn'
  <2>1. Pending' = Pending
    BY <1>9 DEF Pending
  <2>2. Response(Pending)' = Response(Pending)
    BY <1>9, <2>1 DEF Response
  <2> QED BY <1>9, <2>1, <2>2 DEF DownloadOwn, OwnRequests, OwnAnswers, Answered
<1>10. ASSUME NEW p \in Page, NEW o \in Offset, NEW v \in Values, Edit(p, o, v)
       PROVE  DownloadOwn'
  BY <1>9, <1>10 DEF Edit
<1>11. CASE tune_burn \/ disconnect \/ UNCHANGED vars
  BY <1>9, <1>11 DEF tune_burn, disconnect, Enqueue, vars
<1>12. CASE EcuServes
  <2> SUFFICES ASSUME pc \in {"query", "read", "crc"} PROVE DownloadOwn'
    BY <1>0, <1>12 DEF EcuServes
  <2>1. /\ Len(toEcu) \in Nat \ {0} /\ Len(toEcu') = Len(toEcu) - 1
        /\ \A i \in 1..Len(toEcu') : toEcu'[i] = toEcu[i + 1]
        /\ Head(toEcu) = toEcu[1]
    BY <1>12, TailKeeps DEF EcuServes
  <2>2. OwnRequests /\ OwnAnswers
    BY DEF DownloadOwn
  <2>3. Head(toEcu).cmd = "Q" \/ (Len(toEcu) = 1 /\ Head(toEcu) = Pending)
    BY <2>1, <2>2 DEF OwnRequests
  <2>4. Pending.cmd \in {"Q", "p", "d"}
    BY DEF Pending, Query, ReadPage, PageCrc, Request
  <2>5. UNCHANGED <<ram, resized, pc, cur, at, chunk, sent, reboots>>
    BY <1>12, <2>3, <2>4 DEF EcuServes
  <2>6. Pending' = Pending
    BY <2>5 DEF Pending
  <2>7. Response(Pending)' = Response(Pending)
    BY <2>5, <2>6 DEF Response
  <2>8. OwnRequests'
    BY <2>1, <2>2, <2>6 DEF OwnRequests
  <2>9. \A i \in 1..Len(inbox) : inbox[i].kind = "Q"
    BY <1>12, <2>2 DEF OwnAnswers, EcuServes
  <2>10. /\ Len(inbox) \in Nat /\ Len(inbox') = Len(inbox) + 1
         /\ \A i \in 1..Len(inbox) : inbox'[i] = inbox[i]
         /\ inbox'[Len(inbox) + 1] = Response(Head(toEcu))
    <3>1. inbox \in Seq(AnswerType) /\ inbox' = Append(inbox, Response(Head(toEcu)))
      BY <1>12 DEF EcuServes, TypeOK
    <3>2. Response(Head(toEcu)) \in AnswerType
      BY <1>12, HeadTailProperties, ResponseTyped DEF EcuServes, TypeOK
    <3> QED BY <3>1, <3>2, LenProperties, AppendProperties
  <2>11. ASSUME NEW i, i = Len(inbox) + 1
         PROVE  inbox'[i].kind = "Q" \/ (toEcu' = <<>> /\ Answered(inbox[i])')
    <3>1. CASE Head(toEcu).cmd = "Q"
      BY <2>10, <2>11, <3>1 DEF Response
    <3>2. CASE Len(toEcu) = 1 /\ Head(toEcu) = Pending
      <4>1. toEcu' \in Seq(RequestType) /\ Len(toEcu') = 0
        BY <1>12, <2>1, <3>2, HeadTailProperties DEF EcuServes, TypeOK
      <4>2. toEcu' = <<>>
        BY <4>1, EmptySeq
      <4>3. /\ inbox'[i] = Response(Pending)
            /\ Response(Pending).kind = Pending.cmd
            /\ Pending.cmd = "d" /\ cur \in resized =>
                 Response(Pending).v = NoBytes
        BY <2>10, <2>11, <3>2 DEF Response, Pending, PageCrc, Query, ReadPage, Request
      <4>4. Answered(inbox[i])'
        BY <2>5, <2>6, <2>7, <4>3 DEF Answered
      <4> QED BY <4>2, <4>4
    <3> QED BY <2>3, <3>1, <3>2
  <2>12. \A i \in 1..Len(inbox') : i \in 1..Len(inbox) \/ i = Len(inbox) + 1
    BY <2>10
  <2>13. OwnAnswers'
    BY <2>9, <2>10, <2>11, <2>12 DEF OwnAnswers
  <2> QED BY <2>8, <2>13 DEF DownloadOwn
<1>13. CASE MessageLost
  <2> SUFFICES ASSUME pc \in {"query", "read", "crc"} PROVE DownloadOwn'
    BY <1>0, <1>13 DEF MessageLost
  <2>1. UNCHANGED <<ram, resized, pc, cur, at, chunk, sent, reboots>>
    BY <1>13 DEF MessageLost
  <2>2. Pending' = Pending
    BY <2>1 DEF Pending
  <2>3. Response(Pending)' = Response(Pending)
    BY <2>1, <2>2 DEF Response
  <2>4. OwnRequests /\ OwnAnswers
    BY DEF DownloadOwn
  <2>5. CASE toEcu # <<>> /\ toEcu' = Tail(toEcu) /\ UNCHANGED inbox
    <3>0. /\ Len(toEcu) \in Nat \ {0} /\ Len(toEcu') = Len(toEcu) - 1
          /\ \A i \in 1..Len(toEcu') : toEcu'[i] = toEcu[i + 1]
      BY <2>5, TailKeeps
    <3>1. OwnRequests'
      BY <2>2, <2>4, <3>0 DEF OwnRequests
    <3>2. OwnAnswers'
      BY <2>4, <2>5 DEF OwnAnswers
    <3> QED BY <3>1, <3>2 DEF DownloadOwn
  <2>6. CASE inbox # <<>> /\ inbox' = Tail(inbox) /\ UNCHANGED toEcu
    <3>1. OwnRequests'
      BY <2>2, <2>4, <2>6 DEF OwnRequests
    <3>2. /\ Len(inbox) \in Nat \ {0} /\ Len(inbox') = Len(inbox) - 1
          /\ \A i \in 1..Len(inbox') : inbox'[i] = inbox[i + 1]
      BY <2>6, TailAnswers
    <3>3. OwnAnswers'
      <4> SUFFICES ASSUME NEW i \in 1..Len(inbox'), inbox'[i].kind # "Q"
                   PROVE  /\ i = Len(inbox') /\ toEcu' = <<>>
                          /\ Answered(inbox[i])'
        BY DEF OwnAnswers
      <4>1. i + 1 \in 1..Len(inbox) /\ inbox'[i] = inbox[i + 1]
        BY <3>2
      <4>2. i + 1 = Len(inbox) /\ toEcu = <<>> /\ Answered(inbox[i + 1])
        BY <2>4, <4>1 DEF OwnAnswers
      <4>3. i = Len(inbox')
        BY <3>2, <4>2
      <4>4. Answered(inbox[i])'
        BY <2>1, <2>2, <2>3, <4>1, <4>2 DEF Answered
      <4> QED BY <2>6, <4>2, <4>3, <4>4
    <3> QED BY <3>1, <3>3 DEF DownloadOwn
  <2> QED BY <1>13, <2>5, <2>6 DEF MessageLost
<1>14. CASE PowerCycle
  <2>1. /\ UNCHANGED <<inbox, resized, pc, cur, at, chunk, sent>>
        /\ toEcu' = <<>> /\ reboots' # 0
    BY <1>14 DEF PowerCycle, TypeOK
  <2>2. Pending' = Pending
    BY <2>1 DEF Pending
  <2>3. OwnRequests'
    BY <2>1 DEF OwnRequests
  <2>4. OwnAnswers => OwnAnswers'
    BY <2>1, <2>2 DEF OwnAnswers, Answered
  <2> QED BY <2>1, <2>3, <2>4 DEF DownloadOwn
<1> QED
  BY <1>1, <1>2, <1>3, <1>4, <1>5, <1>6, <1>7, <1>8, <1>10, <1>11, <1>12, <1>13,
     <1>14
  DEF Next, CommsThread, Download, FlushDirty, DoBurn, Clients, Closed

(* The ECU alters nothing while a session downloads. *)
LEMMA ServesDownload ==
  ASSUME TypeOK, pc \in {"query", "read", "crc"}, OwnRequests, EcuServes
  PROVE  ram' = ram
<1>1. Len(toEcu) \in Nat \ {0} /\ Head(toEcu) = toEcu[1]
  BY TailKeeps DEF EcuServes
<1>2. Head(toEcu).cmd = "Q" \/ Head(toEcu) = Pending
  BY <1>1 DEF OwnRequests
<1>3. Pending.cmd \in {"Q", "p", "d"}
  BY DEF Pending, Query, ReadPage, PageCrc, Request
<1> QED BY <1>2, <1>3 DEF EcuServes

(* A page is loaded with the ECU's bytes. *)
LEMMA OwnPage ==
  ASSUME TypeOK, DownloadOwn, DownloadPage
  PROVE  /\ cur \notin resized /\ toEcu = <<>>
         /\ reboots = 0 => got = ram[cur]
<1>1. /\ pc = "crc" /\ Receive /\ CrcAgrees
  BY DEF DownloadPage
<1>2. toEcu = <<>> /\ Answered(Head(inbox)) /\ Head(inbox).kind = "d"
  BY <1>1, OwnReceive DEF DownloadOwn, Receive, Accepts, AwaitedCmd
<1>3. cur \notin resized
  <2>1. DOMAIN got = Offset /\ DOMAIN NoBytes = {} /\ 1 \in Offset
    BY SizeAssumption DEF TypeOK, Contents, NoBytes, Offset
  <2> QED BY <1>1, <1>2, <2>1 DEF Answered, CrcAgrees, Payload
<1>4. Response(Pending).v = ram[cur]
  BY <1>1, <1>3 DEF Pending, Response, PageCrc, Request
<1> QED BY <1>1, <1>2, <1>3, <1>4 DEF CrcAgrees, Answered, Payload

LEMMA NextDownloadedRight ==
  ASSUME TypeOK, LoadInv, DownloadOwn, DownloadedRight, [Next]_vars, reboots = 0
  PROVE  ~PowerCycle => DownloadedRight'
<1> USE DEF tune, store, wire, writing, reading, thread, client, trouble, ghost
<1>0. ASSUME pc' \notin {"read", "crc"} PROVE DownloadedRight'
  BY <1>0 DEF DownloadedRight
<1>1. ASSUME UNCHANGED <<data, ram, cur>>, pc \in {"read", "crc"}
      PROVE  DownloadedRight'
  BY <1>1 DEF DownloadedRight
<1>2. CASE Connect
  BY <1>0, <1>2 DEF Connect
<1>3. CASE QueryEnds
  BY <1>3 DEF QueryEnds, DownloadedRight, Page
<1>4. CASE ReadOn
  BY <1>0, <1>1, <1>4 DEF ReadOn
<1>5. CASE DownloadRead
  BY <1>1, <1>5 DEF DownloadRead
<1>6. CASE DownloadMismatch \/ DownloadFails
  BY <1>0, <1>1, <1>6 DEF DownloadMismatch, DownloadFails
<1>7. CASE DownloadPage
  <2>1. /\ data' = [data EXCEPT ![cur] = ram[cur]] /\ ram' = ram
        /\ \A p \in Page : p < cur => data[p] = ram[p]
    BY <1>7, OwnPage DEF DownloadPage, load_page, DownloadedRight
  <2>2. \A p \in Page : p < cur + 1 => data'[p] = ram'[p]
    <3> SUFFICES ASSUME NEW p \in Page, p < cur + 1 PROVE data'[p] = ram'[p]
      OBVIOUS
    <3>1. p < cur \/ p = cur
      BY DEF TypeOK, Page
    <3> QED BY <2>1, <3>1 DEF TypeOK
  <2>3. CASE cur' = cur + 1
    BY <2>2, <2>3 DEF DownloadedRight
  <2>4. CASE pc' = "idle"
    BY <1>0, <2>4
  <2> QED BY <1>7, <2>3, <2>4 DEF DownloadPage
<1>8. CASE WriteFails \/ VerifyFails \/ BurnFails \/ Shutdown
           \/ StartFlush \/ Verified \/ VerifyMismatch \/ Resynced
           \/ FlushDone \/ PollEnds \/ PollDisconnects \/ BurnRefused
  BY <1>0, <1>8 DEF WriteFails, VerifyFails, BurnFails, Shutdown, Exit,
                    StartFlush, Verified, VerifyMismatch, Resynced, FlushDone,
                    PollEnds, PollDisconnects, BurnRefused
<1>9. CASE FlushPage \/ WriteAcked
  BY <1>0, <1>9 DEF FlushPage, WriteAcked, WriteNext
<1>10. CASE StartBurn \/ BurnAcked
  BY <1>0, <1>10 DEF StartBurn, BurnAcked, BurnNext
<1>11. ASSUME NEW p \in Page, NEW o \in Offset, NEW v \in Values, Edit(p, o, v)
       PROVE  DownloadedRight'
  BY <1>0, <1>11 DEF Edit, LoadInv
<1>12. CASE tune_burn \/ disconnect \/ MessageLost \/ UNCHANGED vars
  BY <1>0, <1>1, <1>12 DEF tune_burn, disconnect, Enqueue, MessageLost, vars
<1>13. CASE EcuServes
  <2>1. CASE pc \in {"read", "crc"}
    BY <1>1, <1>13, <2>1, ServesDownload DEF EcuServes, DownloadOwn
  <2>2. CASE pc \notin {"read", "crc"}
    BY <1>0, <1>13, <2>2 DEF EcuServes
  <2> QED BY <2>1, <2>2
<1> QED
  BY <1>2, <1>3, <1>4, <1>5, <1>6, <1>7, <1>8, <1>9, <1>10, <1>11, <1>12, <1>13
  DEF Next, CommsThread, Download, FlushDirty, DoBurn, Clients, Closed

(* A request that is no write, or carries the unedited bytes, joins those   *)
(* already on their way.                                                    *)
LEMMA SendOwn ==
  ASSUME TypeOK, WritesOwn, UNCHANGED <<data, excused>>, NEW req \in RequestType,
         Send(req), req.cmd = "M" => Carries(req.page, req.bytes)
  PROVE  WritesOwn'
<1>1. /\ Len(toEcu) \in Nat /\ Len(toEcu') = Len(toEcu) + 1
      /\ \A i \in 1..Len(toEcu) : toEcu'[i] = toEcu[i]
      /\ toEcu'[Len(toEcu) + 1] = req
  BY SendKeeps
<1>2. \A i \in 1..Len(toEcu') : i \in 1..Len(toEcu) \/ i = Len(toEcu) + 1
  BY <1>1
<1> QED BY <1>1, <1>2 DEF WritesOwn, Carries

(* The chunk that goes out next, and those after it, carry them too. *)
LEMMA WriteNextOwn ==
  ASSUME TypeOK, WritesOwn, UNCHANGED <<data, excused>>, NEW p \in Page,
         NEW S \in SUBSET SUBSET Offset, NEW bytes \in Contents, Carries(p, bytes),
         WriteNext(p, S, bytes), cur' = p
  PROVE  WritesOwn' /\ (pc' = "write" => Carries(cur, sent)')
<1>0. DOMAIN bytes = Offset /\ 1 \in Offset
  BY SizeAssumption DEF Contents, Offset
<1>1. CASE S = {} /\ pc' = "verify" /\ Send(PageCrc(p))
  <2>1. PageCrc(p) \in RequestType /\ PageCrc(p).cmd = "d"
    BY <1>0, RequestsTyped DEF PageCrc, Request
  <2> QED BY <1>1, <2>1, SendOwn
<1>2. ASSUME NEW c \in S, pc' = "write", sent' = bytes,
             Send(WriteChunk(p, [o \in c |-> bytes[o]]))
      PROVE  WritesOwn' /\ Carries(cur, sent)'
  <2>1. c \subseteq Offset
    BY <1>2
  <2>2. WriteChunk(p, [o \in c |-> bytes[o]]) \in RequestType
    BY <1>0, <2>1, RequestsTyped
  <2>3. Carries(p, [o \in c |-> bytes[o]])
    BY <1>0, <2>1 DEF Carries
  <2>4. /\ WriteChunk(p, [o \in c |-> bytes[o]]).page = p
        /\ WriteChunk(p, [o \in c |-> bytes[o]]).bytes = [o \in c |-> bytes[o]]
    BY DEF WriteChunk, Request
  <2>5. WritesOwn'
    BY <1>2, <2>2, <2>3, <2>4, SendOwn
  <2>6. Carries(cur, sent)'
    BY <1>2 DEF Carries
  <2> QED BY <2>5, <2>6
<1> QED BY <1>1, <1>2 DEF WriteNext

LEMMA NextLoadedOwn ==
  ASSUME TypeOK, LoadInv, DownloadOwn, DownloadedRight, LoadedOwn,
         [Next]_vars, reboots = 0
  PROVE  ~PowerCycle => LoadedOwn'
<1> USE DEF tune, store, wire, writing, reading, thread, client, trouble, ghost
<1>a. /\ loaded => WritesOwn /\ UneditedHeld
      /\ pc = "write" => Carries(cur, sent)
      /\ cur \in Page /\ sent \in Contents /\ 1 \in Offset
  BY SizeAssumption DEF LoadedOwn, TypeOK, Offset
<1>b. ASSUME ~loaded', pc' # "write" PROVE LoadedOwn'
  BY <1>b DEF LoadedOwn
<1>c. ASSUME UNCHANGED <<data, excused, ram>>, UneditedHeld PROVE UneditedHeld'
  BY <1>c DEF UneditedHeld
<1>d. ASSUME UNCHANGED <<data, excused, toEcu>>, WritesOwn PROVE WritesOwn'
  BY <1>d DEF WritesOwn, Carries
<1>e. ASSUME UNCHANGED <<data, excused, toEcu, ram, loaded>>, pc' # "write"
      PROVE  LoadedOwn'
  BY <1>a, <1>c, <1>d, <1>e DEF LoadedOwn
<1>f. ASSUME UNCHANGED <<data, excused, ram, loaded>>, pc' # "write", loaded,
             NEW req \in RequestType, req.cmd # "M", Send(req)
      PROVE  LoadedOwn'
  BY <1>a, <1>c, <1>f, SendOwn DEF LoadedOwn
<1>1. CASE Connect \/ QueryEnds \/ DownloadRead \/ DownloadMismatch \/ DownloadFails
  BY <1>1, <1>b DEF Connect, QueryEnds, DownloadRead, DownloadMismatch, DownloadFails,
                    LoadInv
<1>2. CASE ReadOn
  <2>1. CASE pc = "read"
    BY <1>2, <1>b, <2>1 DEF ReadOn, LoadInv
  <2>2. CASE pc = "resync"
    <3>1. PartEnd(at) + 1 \in Offset
      BY <1>2, PartFacts DEF ReadOn, LastPart, TypeOK
    <3>2. /\ ReadPage(cur, PartEnd(at) + 1) \in RequestType
          /\ ReadPage(cur, PartEnd(at) + 1).cmd # "M"
      BY <1>a, <3>1, BlankTyped, RequestsTyped DEF ReadPage, Request
    <3> QED BY <1>2, <1>f, <2>2, <3>2 DEF ReadOn, LoadInv
  <2> QED BY <1>2, <2>1, <2>2 DEF ReadOn
<1>3. CASE DownloadPage
  <2>1. CASE cur < NumPages
    BY <1>3, <1>b, <2>1 DEF DownloadPage, LoadInv, TypeOK, Page
  <2>2. CASE ~(cur < NumPages)
    <3>1. /\ data' = [data EXCEPT ![cur] = ram[cur]] /\ ram' = ram
          /\ \A p \in Page : p < cur => data[p] = ram[p]
          /\ pc' = "idle" /\ toEcu' = <<>>
      BY <1>3, <2>2, OwnPage DEF DownloadPage, load_page, DownloadedRight
    <3>2. \A p \in Page : p < cur \/ p = cur
      BY <1>a, <2>2, SizeAssumption DEF Page
    <3>3. \A p \in Page : data'[p] = ram'[p]
      BY <3>1, <3>2 DEF TypeOK
    <3>4. Len(toEcu') = 0
      BY <3>1
    <3> QED BY <3>1, <3>3, <3>4 DEF LoadedOwn, WritesOwn, UneditedHeld
  <2> QED BY <2>1, <2>2
<1>4. CASE Shutdown \/ PollDisconnects
  BY <1>4, <1>b DEF Shutdown, PollDisconnects, Exit
<1>5. CASE StartFlush \/ WriteFails \/ Verified \/ VerifyFails \/ Resynced
           \/ BurnFails \/ PollEnds \/ BurnRefused
  BY <1>5, <1>e DEF StartFlush, WriteFails, Verified, VerifyFails, Resynced,
                    resync_ecu, BurnFails, PollEnds, BurnRefused
<1>6. CASE FlushPage
  <2>1. PICK p \in todo : cur' = p /\ WriteNext(p, dirty_spans(p), data[p])
    BY <1>6 DEF FlushPage
  <2>2. p \in Page /\ data[p] \in Contents
    BY <2>1 DEF TypeOK
  <2>3. Carries(p, data[p])
    BY DEF Carries
  <2>4. /\ dirty_spans(p) \in SUBSET SUBSET Offset
        /\ UNCHANGED <<data, excused, ram, loaded>> /\ loaded
    BY <1>6, SpansTyped DEF FlushPage, LoadInv
  <2>5. WritesOwn' /\ (pc' = "write" => Carries(cur, sent)')
    BY <1>a, <2>1, <2>2, <2>3, <2>4, WriteNextOwn
  <2> QED BY <1>a, <1>c, <2>4, <2>5 DEF LoadedOwn
<1>7. CASE WriteAcked
  <2>1. /\ WriteNext(cur, spans, sent) /\ cur' = cur /\ pc = "write" /\ loaded
        /\ UNCHANGED <<data, excused, ram, loaded>>
    BY <1>7 DEF WriteAcked, mark_sent, LoadInv
  <2>2. spans \in SUBSET SUBSET Offset
    BY DEF TypeOK
  <2>3. WritesOwn' /\ (pc' = "write" => Carries(cur, sent)')
    BY <1>a, <2>1, <2>2, WriteNextOwn
  <2> QED BY <1>a, <1>c, <2>1, <2>3 DEF LoadedOwn
<1>8. CASE VerifyMismatch
  <2>1. ReadPage(cur, 1) \in RequestType /\ ReadPage(cur, 1).cmd # "M"
    BY <1>a, BlankTyped, RequestsTyped DEF ReadPage, Request
  <2> QED BY <1>8, <1>f, <2>1 DEF VerifyMismatch, LoadInv
<1>9. CASE StartBurn \/ BurnAcked
  <2>1. /\ UNCHANGED <<data, excused, ram, loaded>> /\ loaded
        /\ \E S \in SUBSET Page : BurnNext(S)
    <3>1. {p \in Page : page_burn_pending(p)} \in SUBSET Page /\ todo \in SUBSET Page
      BY DEF TypeOK
    <3> QED BY <1>9, <3>1 DEF StartBurn, BurnAcked, mark_burned, LoadInv
  <2>2. PICK S \in SUBSET Page : BurnNext(S)
    BY <2>1
  <2>3. CASE UNCHANGED toEcu /\ pc' = "idle"
    BY <1>e, <2>1, <2>3
  <2>4. ASSUME NEW p \in S, Send(Burn(p)), pc' = "burn" PROVE LoadedOwn'
    <3>1. Burn(p) \in RequestType /\ Burn(p).cmd # "M"
      BY <1>a, BlankTyped, RequestsTyped DEF Burn, Request
    <3> QED BY <1>f, <2>1, <2>4, <3>1
  <2> QED BY <2>2, <2>3, <2>4 DEF BurnNext
<1>10. CASE FlushDone
  <2>1. CASE ~loaded
    BY <1>10, <1>b, <2>1 DEF FlushDone
  <2>2. CASE loaded
    <3>1. Poll \in RequestType /\ Poll.cmd # "M"
      BY <1>a, BlankTyped, RequestsTyped DEF Poll, Request
    <3> QED BY <1>10, <1>e, <1>f, <2>2, <3>1 DEF FlushDone
  <2> QED BY <2>1, <2>2
<1>11. CASE tune_burn \/ disconnect \/ UNCHANGED vars
  <2>1. UNCHANGED <<data, excused, toEcu, ram, loaded, pc, cur, sent>>
    BY <1>11 DEF tune_burn, disconnect, Enqueue, vars
  <2> QED BY <1>a, <1>c, <1>d, <2>1 DEF LoadedOwn, Carries
<1>12. ASSUME NEW p \in Page, NEW o \in Offset, NEW v \in Values, Edit(p, o, v)
       PROVE  LoadedOwn'
  <2>1. /\ data' = [data EXCEPT ![p][o] = v] /\ excused' = excused \cup {<<p, o>>}
        /\ UNCHANGED <<ram, toEcu, loaded, pc, cur, sent>> /\ loaded
    BY <1>12 DEF Edit
  <2>2. \A q \in Page, x \in Offset :
          /\ <<q, x>> \in excused => <<q, x>> \in excused'
          /\ <<q, x>> \in excused' \/ data'[q][x] = data[q][x]
    BY <2>1 DEF TypeOK, Contents
  <2>3. ASSUME NEW q \in Page, NEW bytes \in Bytes, Carries(q, bytes)
        PROVE  Carries(q, bytes)'
    BY <2>2, <2>3 DEF Carries, Bytes
  <2>4. \A i \in 1..Len(toEcu) : toEcu[i].page \in Page /\ toEcu[i].bytes \in Bytes
    <3>1. \A i \in 1..Len(toEcu) : toEcu[i] \in RequestType
      BY ElementOfSeq DEF TypeOK
    <3> QED BY <3>1 DEF RequestType
  <2>5. WritesOwn'
    BY <1>a, <2>1, <2>3, <2>4 DEF WritesOwn
  <2>6. UneditedHeld'
    BY <1>a, <2>1, <2>2 DEF UneditedHeld
  <2>7. pc = "write" => Carries(cur, sent)'
    BY <1>a, <2>1, <2>2 DEF Carries, Contents
  <2> QED BY <2>1, <2>5, <2>6, <2>7 DEF LoadedOwn
<1>13. CASE EcuServes
  <2>1. UNCHANGED <<data, excused, loaded, pc, cur, sent>>
    BY <1>13 DEF EcuServes
  <2> SUFFICES ASSUME loaded PROVE LoadedOwn'
    BY <1>a, <2>1 DEF LoadedOwn, LoadInv
  <2>2. /\ Len(toEcu) \in Nat \ {0} /\ Len(toEcu') = Len(toEcu) - 1
        /\ \A i \in 1..Len(toEcu') : toEcu'[i] = toEcu[i + 1]
        /\ Head(toEcu) = toEcu[1]
    BY <1>13, TailKeeps DEF EcuServes
  <2>3. WritesOwn'
    BY <1>a, <2>1, <2>2 DEF WritesOwn, Carries
  <2>4. UneditedHeld'
    <3>1. CASE Head(toEcu).cmd # "M"
      <4>1. ram' = ram
        BY <1>13, <3>1 DEF EcuServes
      <4> QED BY <1>a, <1>c, <2>1, <4>1
    <3>2. CASE Head(toEcu).cmd = "M"
      <4> DEFINE req == Head(toEcu)
      <4>1. Carries(req.page, req.bytes)
        BY <1>a, <2>2, <3>2 DEF WritesOwn
      <4>2. req.page \in Page
        <5>1. toEcu \in Seq(RequestType) /\ toEcu # <<>>
          BY <1>13 DEF EcuServes, TypeOK
        <5>2. req \in RequestType
          BY <5>1, HeadTailProperties
        <5> QED BY <5>2 DEF RequestType
      <4>3. ram' = [ram EXCEPT ![req.page] = Overlay(ram[req.page], req.bytes)]
        BY <1>13, <3>2 DEF EcuServes
      <4> HIDE DEF req
      <4>4. ASSUME NEW p \in Page, NEW o \in Offset
            PROVE  ram'[p][o] = IF p = req.page /\ o \in DOMAIN req.bytes
                                  THEN req.bytes[o] ELSE ram[p][o]
        BY <4>2, <4>3 DEF Overlay, TypeOK
      <4> SUFFICES ASSUME NEW p \in Page, NEW o \in Offset, <<p, o>> \notin excused
                   PROVE  ram'[p][o] = data[p][o]
        BY <2>1 DEF UneditedHeld
      <4>5. CASE p = req.page /\ o \in DOMAIN req.bytes
        BY <4>1, <4>4, <4>5 DEF Carries
      <4>6. CASE ~(p = req.page /\ o \in DOMAIN req.bytes)
        BY <1>a, <4>4, <4>6 DEF UneditedHeld
      <4> QED BY <4>5, <4>6
    <3> QED BY <3>1, <3>2
  <2>5. pc' = "write" => Carries(cur, sent)'
    BY <1>a, <2>1 DEF Carries
  <2> QED BY <2>3, <2>4, <2>5 DEF LoadedOwn
<1>14. CASE MessageLost
  <2>1. UNCHANGED <<data, excused, loaded, pc, cur, sent, ram>>
    BY <1>14 DEF MessageLost
  <2>2. ASSUME WritesOwn PROVE WritesOwn'
    <3>1. CASE UNCHANGED toEcu
      BY <1>d, <2>1, <2>2, <3>1
    <3>2. CASE toEcu # <<>> /\ toEcu' = Tail(toEcu)
      <4>1. /\ Len(toEcu) \in Nat \ {0} /\ Len(toEcu') = Len(toEcu) - 1
            /\ \A i \in 1..Len(toEcu') : toEcu'[i] = toEcu[i + 1]
        BY <3>2, TailKeeps
      <4> QED BY <2>1, <2>2, <4>1 DEF WritesOwn, Carries
    <3> QED BY <1>14, <3>1, <3>2 DEF MessageLost
  <2>3. pc' = "write" => Carries(cur, sent)'
    BY <1>a, <2>1 DEF Carries
  <2> QED BY <1>a, <1>c, <2>1, <2>2, <2>3 DEF LoadedOwn
<1> QED
  BY <1>1, <1>2, <1>3, <1>4, <1>5, <1>6, <1>7, <1>8, <1>9, <1>10, <1>11, <1>12,
     <1>13, <1>14
  DEF Next, CommsThread, Download, FlushDirty, DoBurn, Clients, Closed

LEMMA InitFresh == Init => FreshInv
BY DEF Init, FreshInv, DownloadOwn, DownloadedRight, LoadedOwn

LEMMA NextFresh ==
  TypeOK /\ LoadInv /\ AtInv /\ FreshInv /\ [Next]_vars => FreshInv'
<1> SUFFICES ASSUME TypeOK, LoadInv, AtInv, FreshInv, [Next]_vars, Fresh'
             PROVE  /\ DownloadOwn'
                    /\ reboots' = 0 => DownloadedRight' /\ LoadedOwn'
  BY DEF FreshInv
<1>1. CASE Connect
  <2>1. PICK held \in {toEcu, <<>>} :
          /\ toEcu' = Append(held, Query)
          /\ excused' = IF held = <<>> THEN {} ELSE Page \X Offset
    BY <1>1 DEF Connect
  <2>2. held = <<>>
    BY <2>1 DEF Fresh
  <2>3. toEcu' = <<Query>> /\ inbox' = <<>> /\ pc' = "query" /\ ~loaded'
    BY <1>1, <2>1, <2>2 DEF Connect
  <2>4. Pending' = Query /\ Len(toEcu') = 1 /\ toEcu'[1] = Query /\ Len(inbox') = 0
    BY <2>3 DEF Pending
  <2> QED BY <2>3, <2>4 DEF DownloadOwn, OwnRequests, OwnAnswers, DownloadedRight,
                            LoadedOwn
<1>2. CASE ~Connect
  <2>1. Fresh /\ (reboots' = 0 => reboots = 0 /\ ~PowerCycle)
    BY <1>2, Before
  <2>2. DownloadOwn /\ (reboots = 0 => DownloadedRight /\ LoadedOwn)
    BY <2>1 DEF FreshInv
  <2> QED BY <1>2, <2>1, <2>2, NextDownloadOwn, NextDownloadedRight, NextLoadedOwn
<1> QED BY <1>1, <1>2

(* The pages of a loaded tune have the ECU's sizes. *)
LEMMA NextSize ==
  TypeOK /\ LoadInv /\ WireInv /\ FreshInv /\ SizeInv /\ [Next]_vars => SizeInv'
<1> SUFFICES ASSUME TypeOK, LoadInv, WireInv, FreshInv, SizeInv, [Next]_vars,
                    Quiet' \/ Fresh'
             PROVE  /\ loaded' => resized' = {}
                    /\ pc' \in {"read", "crc"} => \A p \in resized' : p >= cur'
  BY DEF SizeInv
<1> USE DEF tune, store, wire, writing, reading, thread, client, trouble, ghost
<1>1. CASE Connect
  BY <1>1 DEF Connect
<1> SUFFICES ASSUME ~Connect
             PROVE  /\ loaded' => resized' = {}
                    /\ pc' \in {"read", "crc"} => \A p \in resized' : p >= cur'
  BY <1>1
<1>0. /\ Quiet \/ Fresh
      /\ UNCHANGED resized /\ resized \subseteq Page /\ cur \in Page
      /\ loaded => resized = {}
      /\ pc \in {"read", "crc"} => \A p \in resized : p >= cur
  BY Before, QuietBefore DEF SizeInv, TypeOK
<1>2. CASE DownloadPage
  <2>1. cur \notin resized
    BY <1>0, <1>2, LoadedSized, OwnPage DEF FreshInv
  <2>2. \A p \in resized : p >= cur + 1
    BY <1>0, <1>2, <2>1 DEF DownloadPage, Page
  <2>3. cur = NumPages => resized = {}
    BY <1>0, <2>2, SizeAssumption DEF Page
  <2> QED BY <1>0, <1>2, <2>2, <2>3 DEF DownloadPage, LoadInv
<1>3. CASE QueryEnds
  BY <1>0, <1>3 DEF QueryEnds, Page
<1>4. ASSUME UNCHANGED loaded,
             pc' \in {"read", "crc"} => pc \in {"read", "crc"} /\ UNCHANGED cur
      PROVE  /\ loaded' => resized' = {}
             /\ pc' \in {"read", "crc"} => \A p \in resized' : p >= cur'
  BY <1>0, <1>4
<1>5. CASE ReadOn \/ DownloadRead \/ DownloadMismatch \/ DownloadFails
  BY <1>0, <1>5 DEF ReadOn, DownloadRead, DownloadMismatch, DownloadFails
<1>6. CASE Shutdown \/ PollDisconnects
  BY <1>6 DEF Shutdown, PollDisconnects, Exit
<1>7. CASE PollEnds \/ FlushDone \/ BurnRefused \/ StartFlush \/ BurnFails
           \/ WriteFails \/ Verified \/ VerifyMismatch \/ Resynced \/ VerifyFails
  BY <1>0, <1>7 DEF PollEnds, FlushDone, BurnRefused, StartFlush, BurnFails,
            WriteFails, Verified, VerifyMismatch, Resynced, VerifyFails, resync_ecu
<1>8. CASE StartBurn \/ BurnAcked
  <2>1. ASSUME NEW S, BurnNext(S) PROVE pc' \in {"idle", "burn"}
    BY <2>1 DEF BurnNext
  <2> QED BY <1>4, <1>8, <2>1 DEF StartBurn, BurnAcked
<1>9. CASE FlushPage \/ WriteAcked
  <2>1. UNCHANGED loaded /\ pc' \in {"write", "verify"}
    BY <1>9 DEF FlushPage, WriteAcked, WriteNext
  <2> QED BY <1>4, <2>1
<1>10. CASE tune_burn \/ disconnect \/ EcuServes \/ MessageLost \/ PowerCycle
            \/ UNCHANGED vars
  BY <1>4, <1>10 DEF tune_burn, disconnect, Enqueue, EcuServes, MessageLost,
                     PowerCycle, vars
<1>11. ASSUME NEW p \in Page, NEW o \in Offset, NEW v \in Values, Edit(p, o, v)
       PROVE  /\ loaded' => resized' = {}
              /\ pc' \in {"read", "crc"} => \A q \in resized' : q >= cur'
  BY <1>0, <1>11 DEF Edit
<1> QED
  BY <1>2, <1>3, <1>5, <1>6, <1>7, <1>8, <1>9, <1>10, <1>11
  DEF Next, CommsThread, Download, FlushDirty, DoBurn, Clients, Closed

-----------------------------------------------------------------------------
(* The results.                                                            *)

LEMMA Inductive == Spec => []IInv
<1>1. Init => IInv
  BY InitTyped, InitLoad, InitAt, InitWire, InitShadow, InitBurned,
     InitFresh DEF IInv
<1>2. IInv /\ [Next]_vars => IInv'
  BY NextTyped, NextLoad, NextLayout, NextSize, NextAt, NextWire, NextShadow, NextBurned,
     NextBurnList, NextFresh DEF IInv
<1> QED BY <1>1, <1>2, PTL DEF Spec

(* However edits interleave with writes, verification and re-reads, and      *)
(* whichever messages are lost or corrupted, the RAM shadow of a page that    *)
(* is neither being flushed nor in doubt is the ECU's RAM.                    *)
THEOREM ShadowCorrect == Spec => []ShadowMatchesRam
<1>1. IInv => ShadowMatchesRam
  BY DEF IInv, ShadowInv, ShadowMatchesRam
<1> QED BY <1>1, Inductive, PTL

(* The EEPROM shadow of a page that is neither being burned nor in doubt is  *)
(* the ECU's EEPROM.                                                         *)
THEOREM BurnedCorrect == Spec => []BurnedMatchesEeprom
<1>1. IInv => BurnedMatchesEeprom
  BY DEF IInv, BurnedInv, BurnedMatchesEeprom
<1> QED BY <1>1, Inductive, PTL

(* Whatever is lost, corrupted or late, a byte no client edited keeps the    *)
(* value that was downloaded, in every session that did not begin with       *)
(* requests of an earlier one still on their way.                            *)
THEOREM UneditedSafe == Spec => []UneditedBytesUntouched
<1>1. IInv => UneditedBytesUntouched
  <2> SUFFICES ASSUME IInv, loaded, reboots = 0, NEW p \in Page, NEW o \in Offset,
                      <<p, o>> \notin excused
               PROVE  ram[p][o] = data[p][o]
    BY DEF UneditedBytesUntouched
  <2>1. Fresh
    BY DEF Fresh
  <2> QED BY <2>1 DEF IInv, FreshInv, LoadedOwn, UneditedHeld
<1> QED BY <1>1, Inductive, PTL

(* An Ok reply to a burn means that no page has shadows that differ, and     *)
(* that every page that is not in doubt is in the EEPROM as it is in RAM.    *)
THEOREM BurnHonest == Spec => BurnReplyHonest
<1>1. IInv /\ IInv' /\ [Next]_vars
        => [reply # "ok" /\ reply' = "ok" =>
              \A p \in Page : /\ burned'[p] = ecu'[p]
                              /\ Quiet => \/ p \in blind' \cup unsure'
                                          \/ eeprom'[p] = ram'[p]]_vars
  <2> SUFFICES ASSUME IInv, IInv', [Next]_vars, reply # "ok", reply' = "ok",
                      NEW p \in Page
               PROVE  /\ burned'[p] = ecu'[p]
                      /\ Quiet => p \in blind' \cup unsure' \/ eeprom'[p] = ram'[p]
    OBVIOUS
  <2>1. /\ pc \in {"flush", "burn"} /\ pc' = "idle"
        /\ burned'[p] = ecu'[p] /\ UNCHANGED <<loaded, lates, reboots>>
    BY NextBurnList DEF IInv
  <2>2. loaded'
    BY <2>1 DEF IInv, LoadInv
  <2>3. ASSUME Quiet PROVE p \in blind' \cup unsure' \/ eeprom'[p] = ram'[p]
    <3>1. Quiet'
      BY <2>1, <2>3 DEF Quiet
    <3>2. p \in blind' \/ ecu'[p] = ram'[p]
      BY <2>1, <2>2, <3>1 DEF IInv, ShadowInv, InFlush
    <3>3. p \in unsure' \/ burned'[p] = eeprom'[p]
      BY <2>1, <2>2, <3>1 DEF IInv, BurnedInv
    <3> QED BY <2>1, <3>2, <3>3
  <2> QED BY <2>1, <2>3
<1> QED BY <1>1, Inductive, PTL DEF Spec, BurnReplyHonest

(* An ECU that sizes a page otherwise than the INI is never written to or     *)
(* burned, unless a session began while an earlier one's requests were on     *)
(* their way and some other page has the INI's size.                          *)
THEOREM SizesSafe == Spec => WrongSizesNeverWritten
<1>1. IInv /\ [Next]_vars
        => [Foreign => /\ eeprom' = eeprom
                       /\ ram' = ram \/ reboots' # reboots]_vars
  <2> SUFFICES ASSUME IInv, Next, Foreign
               PROVE  eeprom' = eeprom /\ (ram' = ram \/ reboots' # reboots)
    OBVIOUS
  <2> USE DEF store
  <2>1. CASE EcuServes
    <3>1. /\ toEcu \in Seq(RequestType) /\ toEcu # <<>> /\ Len(toEcu) \in Nat
      BY <2>1, LenProperties DEF IInv, TypeOK, EcuServes
    <3>2. Head(toEcu) = toEcu[1] /\ 1 \in 1..Len(toEcu)
      BY <3>1, EmptySeq
    <3>3. Head(toEcu).cmd \notin {"M", "b"}
      BY <3>2 DEF IInv, LayoutInv, NoWriteSent
    <3> QED BY <2>1, <3>3 DEF EcuServes
  <2>2. CASE PowerCycle
    BY <2>2 DEF PowerCycle, IInv, TypeOK
  <2>3. CASE CommsThread \/ Clients \/ MessageLost \/ Closed
    BY <2>3 DEF CommsThread, Download, FlushDirty, DoBurn, Clients, Closed, vars,
           Connect, QueryEnds, ReadOn, DownloadRead, DownloadMismatch,
           DownloadFails, DownloadPage, Shutdown, PollDisconnects, PollEnds,
           FlushDone, Exit, BurnRefused, StartFlush, StartBurn, BurnAcked, BurnFails,
           FlushPage, WriteAcked, WriteFails, Verified, VerifyMismatch, Resynced,
           VerifyFails, tune_burn, disconnect, Enqueue, Edit, MessageLost
  <2> QED BY <2>1, <2>2, <2>3 DEF Next
<1> QED BY <1>1, Inductive, PTL DEF Spec, WrongSizesNeverWritten

(* In a loaded tune only edits change the bytes the user wants.             *)
THEOREM EditsSurvive == Spec => PendingEditsSurvive
<1>1. IInv /\ [Next]_vars
        => [loaded /\ loaded' /\ data' # data => edits' # edits]_vars
  <2> SUFFICES ASSUME IInv, Next, loaded, loaded', data' # data
               PROVE  edits' # edits
    OBVIOUS
  <2> USE DEF tune, vars
  <2>1. ~Connect /\ ~Download
    BY DEF IInv, LoadInv, Connect, Download, QueryEnds, ReadOn, DownloadRead,
           DownloadPage, DownloadMismatch, DownloadFails, resync_ecu, tune
  <2>2. ~FlushDirty
    BY DEF FlushDirty, StartFlush, FlushPage, WriteAcked, WriteFails, Verified,
           VerifyMismatch, Resynced, VerifyFails, mark_sent, resync_ecu
  <2>3. ~DoBurn
    BY DEF DoBurn, BurnRefused, StartBurn, BurnAcked, BurnFails, mark_burned
  <2>4. ~(FlushDone \/ PollEnds \/ PollDisconnects \/ Shutdown)
    BY DEF FlushDone, PollEnds, PollDisconnects, Shutdown, Exit
  <2>5. ~(EcuServes \/ MessageLost \/ PowerCycle \/ Closed)
    BY DEF EcuServes, MessageLost, PowerCycle, Closed
  <2>6. ~tune_burn /\ ~disconnect
    BY DEF tune_burn, disconnect, Enqueue
  <2>7. PICK p \in Page, o \in Offset, v \in Values : Edit(p, o, v)
    BY <2>1, <2>2, <2>3, <2>4, <2>5, <2>6 DEF Next, CommsThread, Clients
  <2> QED BY <2>7 DEF Edit, IInv, TypeOK
<1> QED BY <1>1, Inductive, PTL DEF Spec, PendingEditsSurvive

=============================================================================
