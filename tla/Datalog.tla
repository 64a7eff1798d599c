------------------------------- MODULE Datalog -------------------------------
(***************************************************************************)
(* Datalogs: recording, retention and imports                              *)
(* (datalog/src/lib.rs, the logging side of server/src/comms.rs, and       *)
(* log_start, log_stop and log_import of server/src/api.rs).               *)
(*                                                                         *)
(* A comms thread appends a row per frame to the .msl file it has open,    *)
(* syncs it now and then, and prunes old files when it closes one.  Files  *)
(* are named after the second in which they were asked for.  Threads share *)
(* the directory and Status::log: after a disconnect a new thread may run  *)
(* beside the one that is still closing its log.                           *)
(*                                                                         *)
(* Abstractions.  A file is its number of rows, how many of them are       *)
(* synced, and its modification time; its size is a header and its rows.   *)
(* Cells, columns and units are left out.                                  *)
(***************************************************************************)
EXTENDS Naturals, FiniteSets, FiniteSetsExt

CONSTANTS Threads,     \* comms threads
          Importers,   \* log_import requests at a time
          MaxTime,     \* bound: the clock stops here
          MaxRows,     \* bound: rows of a file
          MaxImports,  \* bound: imported files
          Interval,    \* FSYNC_INTERVAL, in seconds of the clock
          Limit,       \* retention_bytes; 0 switches pruning off
          Stuck,       \* files that cannot be removed
          AutoLog,     \* logging.auto
          Manual       \* whether anyone asks for a log by hand

ASSUME BoundAssumption == /\ MaxTime \in Nat /\ MaxRows \in Nat
                          /\ MaxImports \in Nat
ASSUME LimitAssumption == Interval \in Nat \ {0} /\ Limit \in Nat
ASSUME ModeAssumption == AutoLog \in BOOLEAN /\ Manual \in BOOLEAN

Seconds == 0..MaxTime
Logs == {<<"log", s>> : s \in Seconds}
Imports == {<<"import", i>> : i \in 1..MaxImports}
Names == Logs \cup Imports
NoLog == <<"none", 0>>

VARIABLES
  now,                           \* the wall clock, in seconds
  exists, rows, synced, mtime,   \* the log directory
  from,                          \* ghost: when the first unsynced row was written
  broken, replaced,              \* ghosts: logs with a failed write or sync, logs
                                 \* whose writer was dropped for another one
  disturbed,                     \* ghost: threads in prune_logs that another one,
                                 \* or an import, took by surprise
  slog,                          \* Status::log
  clobbered,                     \* ghost: it was last written beside an open log
  pc, log, auto, last_sync,      \* per thread: place, MslWriter, auto_log_enabled
  asked, stop,                   \* per thread: queued StartLog, queued Shutdown
  then,                          \* per thread: what follows finish_log
  closing,                       \* per thread: the writer finish_log took
  active, todo, total,           \* per thread: prune_logs
  importing,                     \* per import: the name it found free
  requested                      \* the poweroff request is written

clock   == <<now>>
directory == <<exists, rows, synced, mtime, from, broken, replaced>>
files   == <<directory, disturbed>>
status  == <<slog, clobbered>>
writers == <<log, auto, last_sync>>
queue   == <<asked, stop>>
prune   == <<active, todo, total>>
ending  == <<then, closing>>
vars == <<clock, files, status, pc, writers, queue, ending, prune, importing,
          requested>>

Size(n) == rows[n] + 1
Bytes(S) == MapThenSumSet(Size, S)
Goto(t, place) == pc' = [pc EXCEPT ![t] = place]

(* Thread t sets Status::log, whether or not another thread has a log open.  *)
Show(t, n) == /\ slog' = n
              /\ clobbered' = \E u \in Threads \ {t} : log[u] # NoLog

(* The directory changes under the threads that prune it.                    *)
Pruners == {t \in Threads : pc[t] \in {"list", "prune"}}
Disturb(S) == disturbed' = disturbed \cup S

-----------------------------------------------------------------------------
(* Files. *)

(* MslWriter::create: an existing file is truncated. *)
Create(n) ==
  /\ exists' = exists \cup {n}
  /\ rows' = [rows EXCEPT ![n] = 0]
  /\ synced' = [synced EXCEPT ![n] = 0]
  /\ mtime' = [mtime EXCEPT ![n] = now]
  /\ from' = [from EXCEPT ![n] = 0]
  /\ broken' = broken \ {n}
  /\ Disturb(Pruners)

(* start_log, and what its callers do with the writer: one that is still     *)
(* open is dropped.  It fails before or after the file is created.           *)
StartLog(t, n) ==
  \/ /\ Create(n)
     /\ replaced' = (replaced \cup {log[t]}) \ {n, NoLog}
     /\ Show(t, n)
     /\ log' = [log EXCEPT ![t] = n]
     /\ last_sync' = [last_sync EXCEPT ![t] = now]
  \/ /\ \/ Create(n) /\ replaced' = replaced \ {n}
        \/ UNCHANGED files
     /\ UNCHANGED <<status, log, last_sync>>

Due_Never(t) == FALSE
Due(t) == now - last_sync[t] >= Interval

SyncedAt == now

(* write_row: the sync happens with a row, never on its own. *)
Append(t) ==
  LET n == log[t]
  IN /\ mtime' = [mtime EXCEPT ![n] = now]
     /\ rows' = [rows EXCEPT ![n] = @ + 1]
     /\ IF Due(t)
          THEN /\ synced' = [synced EXCEPT ![n] = rows[n] + 1]
               /\ from' = [from EXCEPT ![n] = 0]
               /\ last_sync' = [last_sync EXCEPT ![t] = SyncedAt]
          ELSE /\ from' = [from EXCEPT ![n] = IF synced[n] = rows[n] THEN now ELSE @]
               /\ UNCHANGED <<synced, last_sync>>
     /\ UNCHANGED <<exists, broken, replaced, disturbed>>

-----------------------------------------------------------------------------
(* finish_log: the writer is taken and the status cleared, the file synced, *)
(* the directory pruned.  Without a writer there is nothing to finish.      *)

ShowStopped_Forgotten(t) == UNCHANGED status
ShowStopped(t) == Show(t, NoLog)

FinishLog(t, next) ==
  /\ IF log[t] = NoLog
       THEN Goto(t, next) /\ UNCHANGED <<status, ending>>
       ELSE /\ closing' = [closing EXCEPT ![t] = log[t]]
            /\ then' = [then EXCEPT ![t] = next]
            /\ ShowStopped(t)
            /\ Goto(t, "sync")
  /\ log' = [log EXCEPT ![t] = NoLog]
  /\ last_sync' = [last_sync EXCEPT ![t] = 0]

(* MslWriter::finish; its error is only logged. *)
Finished_Flushed(n) == UNCHANGED synced
Finished(n) == synced' = [synced EXCEPT ![n] = rows[n]]

Sync(t) ==
  /\ pc[t] = "sync"
  /\ \/ /\ Finished(closing[t])
        /\ from' = [from EXCEPT ![closing[t]] = 0]
        /\ UNCHANGED broken
     \/ broken' = broken \cup {closing[t]} /\ UNCHANGED <<synced, from>>
  /\ closing' = [closing EXCEPT ![t] = NoLog]
  /\ Goto(t, "active")
  /\ UNCHANGED <<clock, exists, rows, mtime, replaced, disturbed, status, writers, queue,
                 then, prune, importing, requested>>

-----------------------------------------------------------------------------
(* prune_logs. *)

(* What comes after the pruning; a lost device is followed by another one. *)
Resume(t) ==
  /\ IF then[t] = "again"
       THEN Goto(t, "active") /\ then' = [then EXCEPT ![t] = "leave"]
       ELSE Goto(t, then[t]) /\ then' = [then EXCEPT ![t] = "loop"]
  /\ active' = [active EXCEPT ![t] = NoLog]
  /\ todo' = [todo EXCEPT ![t] = {}]
  /\ total' = [total EXCEPT ![t] = 0]
  /\ disturbed' = disturbed \ {t}

ReadActive(t) ==
  /\ pc[t] = "active"
  /\ IF Limit = 0
       THEN Resume(t)
       ELSE /\ active' = [active EXCEPT ![t] = slog]
            /\ disturbed' = IF \A u \in Threads : log[u] \in {NoLog, slog}
                              THEN disturbed ELSE disturbed \cup {t}
            /\ Goto(t, "list")
            /\ UNCHANGED <<then, todo, total>>
  /\ UNCHANGED <<clock, directory, status, writers, queue, closing, importing, requested>>

Candidates_All(t) == exists
Candidates(t) == exists \ {active[t]}
Entry(n) == [name |-> n, at |-> mtime[n], size |-> Size(n)]

ListLogs(t) ==
  /\ pc[t] = "list"
  /\ todo' = [todo EXCEPT ![t] = {Entry(n) : n \in Candidates(t)}]
  /\ total' = [total EXCEPT ![t] = Bytes(Candidates(t))]
  /\ Goto(t, "prune")
  /\ UNCHANGED <<clock, files, status, writers, queue, ending, active, importing,
                 requested>>

(* The directory cannot be read. *)
ListFails(t) ==
  /\ pc[t] = "list"
  /\ Resume(t)
  /\ UNCHANGED <<clock, directory, status, writers, queue, closing, importing, requested>>

Enough(bytes) == bytes <= Limit

Precedes_Larger(f, g) == f.size >= g.size
Precedes(f, g) == f.at <= g.at

(* One round of the loop over the files, oldest first. *)
RemoveNext(t) ==
  /\ pc[t] = "prune" /\ ~Enough(total[t])
  /\ \E f \in todo[t] :
       /\ \A g \in todo[t] : Precedes(f, g)
       /\ todo' = [todo EXCEPT ![t] = @ \ {f}]
       /\ IF f.name \in exists \ Stuck
            THEN /\ exists' = exists \ {f.name}
                 /\ rows' = [rows EXCEPT ![f.name] = 0]
                 /\ synced' = [synced EXCEPT ![f.name] = 0]
                 /\ mtime' = [mtime EXCEPT ![f.name] = 0]
                 /\ from' = [from EXCEPT ![f.name] = 0]
                 /\ broken' = broken \ {f.name}
                 /\ replaced' = replaced \ {f.name}
                 /\ Disturb(Pruners \ {t})
                 /\ total' = [total EXCEPT ![t] = @ - f.size]
            ELSE UNCHANGED <<files, total>>
  /\ UNCHANGED <<clock, status, pc, writers, queue, ending, active, importing,
                 requested>>

Pruned(t) ==
  /\ pc[t] = "prune" /\ (Enough(total[t]) \/ todo[t] = {})
  /\ Resume(t)
  /\ UNCHANGED <<clock, directory, status, writers, queue, closing, importing, requested>>

-----------------------------------------------------------------------------
(* The thread's loop. *)

(* The thread returns: its queue and its locals go with it. *)
Return(t) == /\ Goto(t, "gone")
             /\ auto' = [auto EXCEPT ![t] = FALSE]
             /\ asked' = [asked EXCEPT ![t] = NoLog]
             /\ stop' = [stop EXCEPT ![t] = FALSE]

(* do_connect, once the thread before was told to stop or is gone: a fresh  *)
(* status, a fresh session.                                                 *)
Connect(t) ==
  /\ pc[t] = "gone"
  /\ \A u \in Threads \ {t} : pc[u] = "gone" \/ stop[u]
  /\ Show(t, NoLog)
  /\ Goto(t, "loop")
  /\ auto' = [auto EXCEPT ![t] = AutoLog]
  /\ UNCHANGED <<clock, files, log, last_sync, queue, ending, prune, importing,
                 requested>>

(* Cmd::StartLog, with the name it was asked for. *)
StartAsked(t) ==
  /\ pc[t] = "loop" /\ asked[t] # NoLog
  /\ StartLog(t, asked[t])
  /\ asked' = [asked EXCEPT ![t] = NoLog]
  /\ UNCHANGED <<clock, pc, auto, stop, ending, prune, importing, requested>>

(* Cmd::StopLog pauses automatic logging for the rest of the session. *)
StopLog(t) ==
  /\ pc[t] = "loop" /\ asked[t] = NoLog /\ Manual
  /\ auto' = [auto EXCEPT ![t] = FALSE]
  /\ FinishLog(t, "loop")
  /\ UNCHANGED <<clock, files, queue, prune, importing, requested>>

Shutdown(t) ==
  /\ pc[t] = "loop" /\ asked[t] = NoLog /\ stop[t]
  /\ FinishLog(t, "leave")
  /\ UNCHANGED <<clock, files, auto, queue, prune, importing, requested>>

(* The queue is empty: read_realtime, which a request may overtake. *)
Poll(t) ==
  /\ pc[t] = "loop" /\ asked[t] = NoLog /\ ~stop[t]
  /\ Goto(t, "poll")
  /\ UNCHANGED <<clock, files, status, writers, queue, ending, prune, importing,
                 requested>>

(* A timeout or a corrupted frame. *)
NoFrame(t) ==
  /\ pc[t] = "poll"
  /\ Goto(t, "loop")
  /\ UNCHANGED <<clock, files, status, writers, queue, ending, prune, importing,
                 requested>>

(* A frame starts an automatic log, then goes into the open one. *)
Frame(t) ==
  /\ pc[t] = "poll"
  /\ Goto(t, "row")
  /\ IF auto[t] /\ log[t] = NoLog
       THEN StartLog(t, <<"log", now>>)
       ELSE UNCHANGED <<files, status, log, last_sync>>
  /\ UNCHANGED <<clock, auto, queue, ending, prune, importing, requested>>

Row(t) ==
  /\ pc[t] = "row"
  /\ IF log[t] \in exists
       THEN rows[log[t]] < MaxRows /\ Append(t)
       ELSE UNCHANGED <<files, last_sync>>   \* no log, or an unlinked file
  /\ Goto(t, "observe")
  /\ UNCHANGED <<clock, status, log, auto, queue, ending, prune, importing, requested>>

(* A write or a sync that fails closes the log. *)
RowFails(t) ==
  /\ pc[t] = "row" /\ log[t] # NoLog
  /\ broken' = broken \cup {log[t]}
  /\ FinishLog(t, "observe")
  /\ UNCHANGED <<clock, exists, rows, synced, mtime, from, replaced, disturbed, auto, queue,
                 prune, importing, requested>>

EngineStopped_RequestFirst(t) == FinishLog(t, "leave") /\ requested' = TRUE
EngineStopped(t) == FinishLog(t, "request") /\ UNCHANGED requested

(* The engine-off monitor looks at every frame, and may fire. *)
EngineRuns(t) ==
  /\ pc[t] = "observe"
  /\ Goto(t, "loop")
  /\ UNCHANGED <<clock, files, status, writers, queue, ending, prune, importing,
                 requested>>

EngineOff(t) ==
  /\ pc[t] = "observe"
  /\ EngineStopped(t)
  /\ UNCHANGED <<clock, files, auto, queue, prune, importing>>

RequestPoweroff(t) ==
  /\ pc[t] = "request"
  /\ requested' \in {requested, TRUE}
  /\ Return(t)
  /\ UNCHANGED <<clock, files, status, log, last_sync, ending, prune, importing>>

(* An Io or ECU error: finish_log, prune_logs, and out. *)
DeviceLost(t) ==
  /\ pc[t] = "poll"
  /\ IF log[t] = NoLog
       THEN /\ Goto(t, "active") /\ then' = [then EXCEPT ![t] = "leave"]
            /\ UNCHANGED <<status, closing, log, last_sync>>
       ELSE FinishLog(t, "again")
  /\ UNCHANGED <<clock, files, auto, queue, prune, importing, requested>>

Leave(t) ==
  /\ pc[t] = "leave"
  /\ Show(t, NoLog)
  /\ Return(t)
  /\ UNCHANGED <<clock, files, log, last_sync, ending, prune, importing, requested>>

-----------------------------------------------------------------------------
(* Requests and the clock. *)

(* The name is made when the request comes in. *)
log_start(t) ==
  /\ Manual /\ pc[t] # "gone" /\ asked[t] = NoLog /\ ~stop[t]
  /\ asked' = [asked EXCEPT ![t] = <<"log", now>>]
  /\ UNCHANGED <<clock, files, status, pc, writers, stop, ending, prune, importing,
                 requested>>

disconnect(t) ==
  /\ pc[t] # "gone" /\ ~stop[t]
  /\ stop' = [stop EXCEPT ![t] = TRUE]
  /\ UNCHANGED <<clock, files, status, pc, writers, asked, ending, prune, importing,
                 requested>>

FreeName == <<"import", Min({i \in 1..MaxImports : <<"import", i>> \notin exists})>>

(* log_import looks for a name that is free ... *)
ImportFinds(r) ==
  /\ importing[r] = NoLog /\ ~(Imports \subseteq exists)
  /\ importing' = [importing EXCEPT ![r] = FreeName]
  /\ UNCHANGED <<clock, files, status, pc, writers, queue, ending, prune, requested>>

(* ... and writes the file, over what is there by then. *)
ImportWrites(r) ==
  LET n == importing[r]
  IN /\ n # NoLog
     /\ exists' = exists \cup {n}
     /\ rows' = [rows EXCEPT ![n] = 1]
     /\ synced' = [synced EXCEPT ![n] = 0]
     /\ mtime' = [mtime EXCEPT ![n] = now]
     /\ Disturb(IF n \in exists THEN Pruners ELSE {})
     /\ importing' = [importing EXCEPT ![r] = NoLog]
     /\ UNCHANGED <<clock, from, broken, replaced, status, pc, writers, queue, ending,
                    prune, requested>>

Tick == /\ now < MaxTime
        /\ now' = now + 1
        /\ UNCHANGED <<files, status, pc, writers, queue, ending, prune, importing,
                       requested>>

-----------------------------------------------------------------------------
Init ==
  /\ now = 0 /\ exists = {} /\ broken = {} /\ replaced = {} /\ disturbed = {}
  /\ slog = NoLog /\ clobbered = FALSE /\ requested = FALSE
  /\ rows = [n \in Names |-> 0] /\ synced = [n \in Names |-> 0]
  /\ mtime = [n \in Names |-> 0] /\ from = [n \in Names |-> 0]
  /\ pc = [t \in Threads |-> "gone"] /\ log = [t \in Threads |-> NoLog]
  /\ auto = [t \in Threads |-> FALSE] /\ last_sync = [t \in Threads |-> 0]
  /\ asked = [t \in Threads |-> NoLog] /\ stop = [t \in Threads |-> FALSE]
  /\ then = [t \in Threads |-> "loop"] /\ closing = [t \in Threads |-> NoLog]
  /\ active = [t \in Threads |-> NoLog] /\ todo = [t \in Threads |-> {}]
  /\ total = [t \in Threads |-> 0]
  /\ importing = [r \in Importers |-> NoLog]

ThreadStep(t) == \/ StartAsked(t) \/ StopLog(t) \/ Shutdown(t) \/ Poll(t)
                 \/ NoFrame(t) \/ Frame(t) \/ Row(t)
                 \/ RowFails(t) \/ EngineRuns(t) \/ EngineOff(t) \/ RequestPoweroff(t)
                 \/ DeviceLost(t) \/ Leave(t)
                 \/ Sync(t) \/ ReadActive(t) \/ ListLogs(t) \/ ListFails(t)
                 \/ RemoveNext(t) \/ Pruned(t)

Next == \/ \E t \in Threads : \/ Connect(t) \/ ThreadStep(t)
                              \/ log_start(t) \/ disconnect(t)
        \/ \E r \in Importers : ImportFinds(r) \/ ImportWrites(r)
        \/ Tick
Spec == Init /\ [][Next]_vars

-----------------------------------------------------------------------------
(* Properties. *)

Held(n) == \E t \in Threads : log[t] = n \/ closing[t] = n

(* datalog/src/lib.rs: rows are "fsync'd periodically so an ignition-off     *)
(* power cut loses at most about a second of data": the unsynced rows of a   *)
(* file without I/O errors span less than the sync interval.                 *)
LossBounded ==
  \A n \in (exists \cap Logs) \ broken :
    synced[n] < rows[n] => mtime[n] - from[n] < Interval

(* Status::log is the log that is written, and nothing when none is, however *)
(* many threads there are: unless the one that wrote it last did so while    *)
(* another had a log open.                                                   *)
StatusShowsLog ==
  ~clobbered =>
    /\ \A t \in Threads : log[t] # NoLog => log[t] = slog
    /\ slog # NoLog => \E t \in Threads : log[t] = slog

(* docs/raspberry-pi-appliance.md: "oldest-first pruning".  prune_logs only   *)
(* removes a file while those it counts are over the limit, every older one   *)
(* is gone or cannot be removed, and no thread writes it; it ends within the  *)
(* limit, unless what is left cannot be removed.  The active log and files    *)
(* imported meanwhile do not count.  Threads that another one disturbed are   *)
(* left out: a log was started, a file removed or written over since they     *)
(* asked for the active log, or the status did not name every open one.       *)
Counted(t) == exists \ {active[t]}
Oldest(t, n) ==
  /\ Bytes(Counted(t)) > Limit
  /\ \A m \in Counted(t) : mtime[m] < mtime[n] => m \in Stuck
  /\ \A u \in Threads : log[u] # n
Within(t) == LET kept == Counted(t) \cap Logs
             IN Bytes(kept) <= Limit \/ kept \subseteq Stuck
RetentionKept ==
  [][/\ \A n \in exists \ exists' : \E t \in Threads :
          /\ pc[t] = "prune" /\ todo'[t] # todo[t]
          /\ t \in disturbed \/ Oldest(t, n)
     /\ \A t \in Threads \ disturbed :
          pc[t] = "prune" /\ pc'[t] # "prune" => Within(t)]_vars

(* MslWriter::finish: "Flush and fsync; call when logging stops."  A log     *)
(* nobody writes any more is synced, unless a write or sync failed or        *)
(* another log was started over it.                                          *)
ClosedLogsSynced ==
  \A n \in (exists \cap Logs) \ (broken \cup replaced) :
    ~Held(n) => synced[n] = rows[n]

(* docs/raspberry-pi-appliance.md: "The comms thread finishes the .msl file  *)
(* before writing /run/rustytune/poweroff-request."  Only a thread beside the *)
(* one that asks, which was told to stop or replaces it, may have one open.   *)
FinishedBeforePoweroff ==
  [][~requested /\ requested' =>
       \A n \in (exists \cap Logs) \ (broken \cup replaced) :
         \/ ~Held(n) /\ synced[n] = rows[n]
         \/ \E u \in Threads : pc'[u] = pc[u] /\ (log[u] = n \/ closing[u] = n)]_vars

=============================================================================
