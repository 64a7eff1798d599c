------------------------------ MODULE Lifecycle ------------------------------
(***************************************************************************)
(* Connections, offline sessions and the tuning lock                       *)
(* (server/src/api.rs, lib.rs, admin.rs, and the ends of comms::run).      *)
(*                                                                         *)
(* HTTP requests, the admin socket and the auto-connect supervisor run     *)
(* concurrently.  They share five mutexes -- comms handle, status, tune,   *)
(* writer, uploaded .msq -- and hold most of them for one statement only,  *)
(* so a request is a row of steps, one per lock region.  Comms threads     *)
(* hold the status and the tune by Arc: a thread that is on its way out    *)
(* works on the same tune and status as the one that replaces it.          *)
(*                                                                         *)
(* Abstractions.  The tune is which pages were downloaded and which are    *)
(* dirty.  Connections are primary; the thread's exchanges with the ECU    *)
(* are TuneSync's, here a page arrives or the download fails.              *)
(***************************************************************************)
EXTENDS Naturals, FiniteSets

CONSTANTS Tasks,      \* requests that can be in progress at a time
          Threads,    \* identities for comms threads, reused once joined
          Clients,    \* x-client-id
          NumPages,   \* pages of the tune
          Requests,   \* the kinds of request made in this instance
          Enabled,    \* the cases: engine_shutdown.enabled
          PagesUsable,\* the cases: page_commands accepts the definition
          Supervisor, \* the task of spawn_auto_connect, NoTask without it
          NoTask, NoThread, Nobody

Kinds == {"connect", "disconnect", "reconnect", "offline_open",
          "offline_close", "edit", "lock_release"}

ASSUME KindAssumption == Requests \subseteq Kinds
ASSUME SizeAssumption == NumPages \in Nat \ {0} /\ Enabled \subseteq BOOLEAN
                         /\ PagesUsable \subseteq BOOLEAN
ASSUME SupervisorAssumption == Supervisor \in Tasks \cup {NoTask}
ASSUME NoneAssumption == /\ NoTask \notin Tasks
                         /\ NoThread \notin Threads
                         /\ Nobody \notin Clients

Page == 1..NumPages

VARIABLES
  connected, offline, announced,  \* Status: connected, offline, tune_loaded
  loaded, fetched, dirty,         \* Tune: loaded, pages of the ECU, dirty pages
  filed,                          \* ghost: the tune was opened from a .msq
  writer,                         \* AppState::writer
  msq,                            \* AppState::msq is Some
  usable,                         \* AppState::def has usable page commands
  engine_shutdown,                \* RuntimeConfig::engine_shutdown.enabled
  comms, lock,                    \* AppState::comms, and who holds its mutex
  op, step, who, mine,            \* per task: request, step, client, thread taken
  tpc, next, stop,                \* per thread: place, next page, Shutdown queued
  overtaken,                      \* ghost: requests whose check is out of date
  confused                        \* ghost: the status was written without
                                  \* regard to a connection or a file

status  == <<connected, offline, announced>>
tune    == <<loaded, fetched, dirty, filed>>
task    == <<op, step, who, mine>>
thread  == <<tpc, next, stop>>
app     == <<msq, usable, engine_shutdown>>
ghosts  == <<overtaken, confused>>
vars == <<status, tune, writer, app, comms, lock, task, thread, ghosts>>

At(k, kind, s) == op[k] = kind /\ step[k] = s
Live(t) == tpc[t] # "gone"
Connecting(k) == op[k] = "connect" /\ step[k] \in {"tune", "writer", "spawn"}
\* Past the check of the status, or of the tune, and not yet done.
Switching(k) == step[k] \in {"replace", "unlock", "status"}
Replacing(k) == op[k] = "connect" /\ step[k] \in {"lock", "reap", "join", "open", "tune"}
\* The tune has been replaced and the status not yet, or the other way round.
HalfWay(k) == At(k, "connect", "tune") \/ (op[k] = "offline_open" /\ step[k] \in {"unlock", "status"})

\* What a check saw is so, or is not, when k goes on from it; a later step of
\* another request puts those in W out of date.
Checked(k, stale) ==
  overtaken' = IF stale THEN overtaken \cup {k} ELSE overtaken \ {k}
Overtakes(W) == overtaken' = overtaken \cup W

-----------------------------------------------------------------------------
(* Requests: how they start, move on and end.                              *)

Goto(k, s) == step' = [step EXCEPT ![k] = s] /\ UNCHANGED <<op, who>>
Finish(k) == /\ op' = [op EXCEPT ![k] = "none"]
             /\ step' = [step EXCEPT ![k] = "none"]
             /\ who' = [who EXCEPT ![k] = Nobody]

Begin(k, kind, first, c) ==
  /\ op[k] = "none"
  /\ op' = [op EXCEPT ![k] = kind]
  /\ step' = [step EXCEPT ![k] = first]
  /\ who' = [who EXCEPT ![k] = c]
  /\ UNCHANGED <<status, tune, writer, app, comms, lock, mine, thread, ghosts>>

Request(k) ==
  \/ "connect" \in Requests /\ Begin(k, "connect", "offline", Nobody)
  \/ "disconnect" \in Requests /\ Begin(k, "disconnect", "take", Nobody)
  \/ "reconnect" \in Requests /\ Begin(k, "reconnect", "take", Nobody)
  \/ "offline_open" \in Requests /\ Begin(k, "offline_open", "check", Nobody)
  \/ "offline_close" \in Requests /\ Begin(k, "offline_close", "check", Nobody)
  \/ \E c \in Clients :
       \/ "edit" \in Requests /\ Begin(k, "edit", "acquire", c)
       \/ "lock_release" \in Requests /\ Begin(k, "lock_release", "release", c)

(* spawn_auto_connect: when the status says so, connect. *)
Supervise == /\ Supervisor # NoTask /\ ~connected
             /\ Begin(Supervisor, "connect", "offline", Nobody)

-----------------------------------------------------------------------------
(* do_connect.  The first two steps read the status and the tune.          *)

UnsavedEdits_Unchecked == FALSE
UnsavedEdits == dirty # {}

CheckOffline(k) ==
  /\ At(k, "connect", "offline")
  /\ Goto(k, IF offline THEN "dirty" ELSE "lock")
  /\ Checked(k, confused \/ \E j \in Tasks : HalfWay(j))
  /\ UNCHANGED <<status, tune, writer, app, comms, lock, mine, thread, confused>>

CheckDirty(k) ==
  /\ At(k, "connect", "dirty")
  /\ IF UnsavedEdits THEN Finish(k) ELSE Goto(k, "lock")
  /\ Checked(k, FALSE)
  /\ UNCHANGED <<status, tune, writer, app, comms, lock, mine, thread, confused>>

(* From here to the spawn the comms mutex is held. *)
LockComms(k) ==
  /\ At(k, "connect", "lock")
  /\ lock = NoTask
  /\ lock' = k
  /\ Goto(k, "reap")
  /\ UNCHANGED <<status, tune, writer, app, comms, mine, thread, ghosts>>

PutBack_Forgotten(h) == comms' = NoThread
PutBack(h) == comms' = h

AlreadyConnected(k) ==
  /\ At(k, "connect", "reap")
  /\ comms # NoThread /\ connected
  /\ PutBack(comms)
  /\ lock' = NoTask
  /\ Finish(k)
  /\ UNCHANGED <<status, tune, writer, app, mine, thread, ghosts>>

(* A thread that ended on its own is told to stop all the same, and joined. *)
Reap(k) ==
  /\ At(k, "connect", "reap")
  /\ comms = NoThread \/ ~connected
  /\ IF comms = NoThread
       THEN Goto(k, "open") /\ UNCHANGED <<comms, mine, stop>>
       ELSE /\ comms' = NoThread
            /\ mine' = [mine EXCEPT ![k] = comms]
            /\ stop' = [stop EXCEPT ![comms] = TRUE]
            /\ Goto(k, "join")
  /\ UNCHANGED <<status, tune, writer, app, lock, tpc, next, ghosts>>

Reaped(k) ==
  /\ At(k, "connect", "join")
  /\ ~Live(mine[k])
  /\ mine' = [mine EXCEPT ![k] = NoThread]
  /\ Goto(k, "open")
  /\ UNCHANGED <<status, tune, writer, app, comms, lock, thread, ghosts>>

OpenPort(k) ==
  /\ At(k, "connect", "open")
  /\ connected' = TRUE /\ offline' = FALSE /\ announced' = FALSE
  /\ Goto(k, "tune")
  /\ Overtakes({j \in Tasks : Switching(j)}) /\ confused' = FALSE
  /\ UNCHANGED <<tune, writer, app, comms, lock, mine, thread>>

OpenFails(k) ==
  /\ At(k, "connect", "open")
  /\ lock' = NoTask
  /\ Finish(k)
  /\ UNCHANGED <<status, tune, writer, app, comms, mine, thread, ghosts>>

FreshTune == loaded' = FALSE /\ fetched' = {} /\ dirty' = {} /\ filed' = FALSE

ReplaceTune(k) ==
  /\ At(k, "connect", "tune")
  /\ FreshTune
  /\ Goto(k, "writer")
  /\ UNCHANGED <<status, writer, app, comms, lock, mine, thread, ghosts>>

ResetWriter(k) ==
  /\ At(k, "connect", "writer")
  /\ writer' = Nobody
  /\ Goto(k, "spawn")
  /\ UNCHANGED <<status, tune, app, comms, lock, mine, thread, ghosts>>

(* The status and the tune are not put back. *)
NoPageCommands(k) ==
  /\ At(k, "connect", "spawn") /\ ~usable
  /\ lock' = NoTask
  /\ Finish(k)
  /\ UNCHANGED <<status, tune, writer, app, comms, mine, thread, ghosts>>

Spawn(k) ==
  /\ At(k, "connect", "spawn") /\ usable
  /\ \E t \in Threads :
       /\ ~Live(t) /\ \A j \in Tasks : mine[j] # t
       /\ comms' = t
       /\ tpc' = [tpc EXCEPT ![t] = "download"]
       /\ next' = [next EXCEPT ![t] = 1]
       /\ stop' = [stop EXCEPT ![t] = FALSE]
  /\ lock' = NoTask
  /\ Finish(k)
  /\ UNCHANGED <<status, tune, writer, app, mine, ghosts>>

-----------------------------------------------------------------------------
(* disconnect and shutdown_comms take the handle and let go of the mutex;   *)
(* the admin socket's reconnect and restart keep it until the thread ended. *)

TakeHandle(k) ==
  /\ \E kind \in {"disconnect", "reconnect"} : At(k, kind, "take")
  /\ lock = NoTask
  /\ IF comms = NoThread
       THEN Finish(k) /\ UNCHANGED <<comms, lock, mine>>
       ELSE /\ comms' = NoThread
            /\ mine' = [mine EXCEPT ![k] = comms]
            /\ lock' = IF op[k] = "reconnect" THEN k ELSE NoTask
            /\ Goto(k, "send")
  /\ UNCHANGED <<status, tune, writer, app, thread, ghosts>>

SendShutdown(k) ==
  /\ step[k] = "send"
  /\ stop' = [stop EXCEPT ![mine[k]] = TRUE]
  /\ Goto(k, "joined")
  /\ UNCHANGED <<status, tune, writer, app, comms, lock, mine, tpc, next, ghosts>>

Joined(k) ==
  /\ step[k] = "joined"
  /\ ~Live(mine[k])
  /\ mine' = [mine EXCEPT ![k] = NoThread]
  /\ lock' = IF lock = k THEN NoTask ELSE lock
  /\ Finish(k)
  /\ UNCHANGED <<status, tune, writer, app, comms, thread, ghosts>>

-----------------------------------------------------------------------------
(* Offline sessions.                                                        *)

MayOpenOffline_Always == TRUE
MayOpenOffline == ~connected

CheckMode(k) ==
  /\ step[k] = "check"
  /\ IF \/ op[k] = "offline_open" /\ MayOpenOffline
        \/ op[k] = "offline_close" /\ offline
       THEN Goto(k, "replace")
       ELSE Finish(k)
  /\ Checked(k, FALSE)
  /\ UNCHANGED <<status, tune, writer, app, comms, lock, mine, thread, confused>>

OpenFile(k) ==
  /\ At(k, "offline_open", "replace")
  /\ IF msq
       THEN /\ loaded' = TRUE /\ fetched' = {} /\ dirty' = {} /\ filed' = TRUE
            /\ Overtakes({j \in Tasks : op[j] = "offline_close" /\ Switching(j)})
            /\ Goto(k, "unlock")
       ELSE Finish(k) /\ UNCHANGED <<tune, overtaken>>
  /\ UNCHANGED <<status, writer, app, comms, lock, mine, thread, confused>>

CloseFile(k) ==
  /\ At(k, "offline_close", "replace")
  /\ FreshTune
  /\ Goto(k, "unlock")
  /\ UNCHANGED <<status, writer, app, comms, lock, mine, thread, ghosts>>

UnlockWriter(k) ==
  /\ step[k] = "unlock"
  /\ writer' = Nobody
  /\ Goto(k, "status")
  /\ UNCHANGED <<status, tune, app, comms, lock, mine, thread, ghosts>>

SetMode(k) ==
  /\ step[k] = "status"
  /\ connected' = FALSE
  /\ offline' = (op[k] = "offline_open")
  /\ announced' = (op[k] = "offline_open")
  /\ confused' = (confused \/ k \in overtaken)
  /\ Finish(k)
  /\ UNCHANGED <<tune, writer, app, comms, lock, mine, thread, overtaken>>

msq_upload == /\ ~msq /\ "offline_open" \in Requests
              /\ msq' = TRUE
              /\ UNCHANGED <<status, tune, writer, usable, engine_shutdown, comms,
                             lock, task, thread, ghosts>>

-----------------------------------------------------------------------------
(* Edits: take the tuning lock, then change the tune in a region of its own. *)

MayWrite(c) == writer \in {Nobody, c}

acquire_writer(k) ==
  /\ At(k, "edit", "acquire")
  /\ IF MayWrite(who[k])
       THEN /\ writer' = IF writer = Nobody THEN who[k] ELSE writer
            /\ Goto(k, "apply")
       ELSE Finish(k) /\ UNCHANGED writer
  /\ UNCHANGED <<status, tune, app, comms, lock, mine, thread, ghosts>>

ApplyEdit(k) ==
  /\ At(k, "edit", "apply")
  /\ IF loaded
       THEN \E p \in Page : dirty' = dirty \cup {p}
       ELSE UNCHANGED dirty
  /\ Overtakes(IF loaded THEN {j \in Tasks : Replacing(j)} ELSE {})
  /\ Finish(k)
  /\ UNCHANGED <<status, loaded, fetched, filed, writer, app, comms, lock, mine,
                 thread, confused>>

lock_release(k) ==
  /\ At(k, "lock_release", "release")
  /\ writer' = IF writer = who[k] THEN Nobody ELSE writer
  /\ Finish(k)
  /\ UNCHANGED <<status, tune, app, comms, lock, mine, thread, ghosts>>

-----------------------------------------------------------------------------
(* A comms thread.                                                          *)

Move(t, place) == tpc' = [tpc EXCEPT ![t] = place]

LastPage(p) == p = NumPages

(* load_page makes the page's copies equal; the command queue is not looked *)
(* at before the download is over.                                          *)
DownloadPage(t) ==
  /\ tpc[t] = "download"
  /\ fetched' = fetched \cup {next[t]}
  /\ dirty' = dirty \ {next[t]}
  /\ IF LastPage(next[t])
       THEN Move(t, "complete") /\ UNCHANGED next
       ELSE next' = [next EXCEPT ![t] = @ + 1] /\ UNCHANGED tpc
  /\ UNCHANGED <<status, loaded, filed, writer, app, comms, lock, task, stop, ghosts>>

DownloadFails(t) ==
  /\ tpc[t] = "download"
  /\ Move(t, "poll")
  /\ UNCHANGED <<status, tune, writer, app, comms, lock, task, next, stop, ghosts>>

SetLoaded(t) ==
  /\ tpc[t] = "complete"
  /\ loaded' = TRUE
  /\ Move(t, "announce")
  /\ UNCHANGED <<status, fetched, dirty, filed, writer, app, comms, lock, task,
                 next, stop, ghosts>>

Announce(t) ==
  /\ tpc[t] = "announce"
  /\ announced' = TRUE
  /\ Move(t, "poll")
  /\ UNCHANGED <<connected, offline, tune, writer, app, comms, lock, task, next,
                 stop, ghosts>>

Flush(t) ==
  /\ tpc[t] = "poll"
  /\ loaded /\ dirty # {}
  /\ dirty' = {}
  /\ UNCHANGED <<status, loaded, fetched, filed, writer, app, comms, lock, task,
                 thread, ghosts>>

(* Cmd::Shutdown, or the device is lost. *)
Unload(t) ==
  /\ tpc[t] = "poll"
  /\ loaded' = FALSE
  /\ Move(t, "leave")
  /\ UNCHANGED <<status, fetched, dirty, filed, writer, app, comms, lock, task,
                 next, stop, ghosts>>
Stops_Loaded(t) == stop[t] /\ loaded /\ Unload(t)
Stops(t) == stop[t] /\ Unload(t)

SaysGone_Silent == UNCHANGED connected
SaysGone == connected' = FALSE

Leave(t) ==
  /\ tpc[t] = "leave"
  /\ SaysGone /\ announced' = FALSE
  /\ Move(t, "gone")
  /\ confused' = (\/ confused
                  \/ \E u \in Threads \ {t} : Live(u)
                  \/ \E k \in Tasks : Connecting(k))
  /\ UNCHANGED <<offline, tune, writer, app, comms, lock, task, next, stop, overtaken>>

(* After the poweroff request the thread returns as it is. *)
EngineOffReturn(t) ==
  /\ engine_shutdown
  /\ tpc[t] = "poll"
  /\ Move(t, "gone")
  /\ UNCHANGED <<status, tune, writer, app, comms, lock, task, next, stop, ghosts>>

-----------------------------------------------------------------------------
Init ==
  /\ connected = FALSE /\ offline = FALSE /\ announced = FALSE
  /\ loaded = FALSE /\ fetched = {} /\ dirty = {} /\ filed = FALSE
  /\ writer = Nobody /\ msq = FALSE /\ usable \in PagesUsable
  /\ engine_shutdown \in Enabled
  /\ comms = NoThread /\ lock = NoTask
  /\ op = [k \in Tasks |-> "none"] /\ step = [k \in Tasks |-> "none"]
  /\ who = [k \in Tasks |-> Nobody] /\ mine = [k \in Tasks |-> NoThread]
  /\ tpc = [t \in Threads |-> "gone"] /\ next = [t \in Threads |-> 1]
  /\ stop = [t \in Threads |-> FALSE]
  /\ overtaken = {} /\ confused = FALSE

ConnectStep(k) == \/ CheckOffline(k) \/ CheckDirty(k) \/ LockComms(k)
                  \/ AlreadyConnected(k) \/ Reap(k) \/ Reaped(k) \/ OpenPort(k)
                  \/ OpenFails(k) \/ ReplaceTune(k) \/ ResetWriter(k)
                  \/ NoPageCommands(k) \/ Spawn(k)
EndStep(k) == TakeHandle(k) \/ SendShutdown(k) \/ Joined(k)
OfflineStep(k) == \/ CheckMode(k) \/ OpenFile(k) \/ CloseFile(k)
                  \/ UnlockWriter(k) \/ SetMode(k)
EditStep(k) == acquire_writer(k) \/ ApplyEdit(k) \/ lock_release(k)
TaskStep(k) == ConnectStep(k) \/ EndStep(k) \/ OfflineStep(k) \/ EditStep(k)

(* The way out, and the download, run to their end; polling may go on.      *)
ThreadMust(t) == \/ DownloadPage(t) \/ DownloadFails(t) \/ SetLoaded(t)
                 \/ Announce(t) \/ Stops(t) \/ Leave(t)
ThreadStep(t) == ThreadMust(t) \/ Flush(t) \/ Unload(t) \/ EngineOffReturn(t)

Next == \/ \E k \in Tasks : (k # Supervisor /\ Request(k)) \/ TaskStep(k)
        \/ \E t \in Threads : ThreadStep(t)
        \/ msq_upload \/ Supervise
Spec == Init /\ [][Next]_vars

(* Started requests are run by the executor, a thread that can step does.   *)
(* A mutex is handed on: a request that waits for one gets it in the end.   *)
FairSpec == /\ Spec
            /\ \A k \in Tasks : /\ SF_vars(LockComms(k) \/ TakeHandle(k))
                                /\ WF_vars(TaskStep(k))
            /\ \A t \in Threads : WF_vars(ThreadMust(t))

(* The appliance: the supervisor looks again and again, and a port that is  *)
(* tried again and again opens in the end.                                  *)
AutoSpec == /\ FairSpec /\ WF_vars(Supervise)
            /\ \A k \in Tasks : SF_vars(OpenPort(k))

-----------------------------------------------------------------------------
(* Properties.                                                             *)

Steps == {"none", "offline", "dirty", "lock", "reap", "join", "open", "tune",
          "writer", "spawn", "take", "send", "joined", "check", "replace",
          "unlock", "status", "acquire", "apply", "release"}
Places == {"gone", "download", "complete", "announce", "poll", "leave"}

(* Flags, handle, mutex holder, request steps and thread places keep their  *)
(* types; a thread never downloads past the last page.                      *)
TypeOK ==
  /\ connected \in BOOLEAN /\ offline \in BOOLEAN /\ announced \in BOOLEAN
  /\ loaded \in BOOLEAN /\ filed \in BOOLEAN
  /\ msq \in BOOLEAN /\ usable \in BOOLEAN /\ engine_shutdown \in BOOLEAN
  /\ fetched \subseteq Page /\ dirty \subseteq Page
  /\ writer \in Clients \cup {Nobody}
  /\ comms \in Threads \cup {NoThread} /\ lock \in Tasks \cup {NoTask}
  /\ op \in [Tasks -> Kinds \cup {"none"}]
  /\ step \in [Tasks -> Steps]
  /\ who \in [Tasks -> Clients \cup {Nobody}]
  /\ mine \in [Tasks -> Threads \cup {NoThread}]
  /\ tpc \in [Threads -> Places]
  /\ next \in [Threads -> Page]
  /\ stop \in [Threads -> BOOLEAN]
  /\ overtaken \subseteq Tasks /\ confused \in BOOLEAN

(* However requests overlap, no comms thread is lost track of: one that runs *)
(* is behind the handle, or a request took it and waits for it to end, so    *)
(* shutdown_comms or the request in progress stops it and closes its log.    *)
NoOrphanThread ==
  \A t \in Threads : Live(t) => comms = t \/ \E k \in Tasks : mine[k] = t

(* The status never claims a connection nobody serves, unless the engine-off *)
(* shutdown ended the thread or the definition has no usable page commands:  *)
(* a thread that ends has cleared the flag by then, and a connect that set   *)
(* it goes on to spawn one, however requests and threads overlap.            *)
ConnectedHasThread ==
  connected /\ ~engine_shutdown /\ usable => \/ \E t \in Threads : Live(t)
                                       \/ \E k \in Tasks : Connecting(k)

(* Status::offline: "Editing an opened .msq with no ECU -- tune loaded, no   *)
(* serial."  However requests and threads overlap, an offline status has no  *)
(* comms thread beside it, until a request that was overtaken since its      *)
(* check, or a thread that another had replaced, writes the status.          *)
OfflineMeansNoSerial == offline /\ ~confused => \A t \in Threads : ~Live(t)

(* do_connect: "Connecting replaces the tune; don't silently drop offline    *)
(* edits."  However requests overlap, the tune it replaces holds none but    *)
(* those made since its check, or opened beside a status not yet written.    *)
OfflineEditsKept ==
  [][\A k \in Tasks : At(k, "connect", "tune") /\ step'[k] = "writer"
       => k \in overtaken \/ ~(filed /\ dirty # {})]_vars

(* Every request comes to its end: no request, however it overlaps with the  *)
(* others, waits forever for the comms mutex or for a thread to end.         *)
RequestsFinish == \A k \in Tasks : op[k] # "none" ~> op[k] = "none"

(* appliance/README.md: RustyTune "starts RustyTune automatically and        *)
(* reconnects to the ECU when needed": with the supervisor there is a live   *)
(* comms thread again and again, whatever ends the ones before, if the       *)
(* definition has usable page commands.                                      *)
UpAgain ==
  usable /\ ~engine_shutdown => []<>(offline \/ \E t \in Threads : Live(t))

=============================================================================
