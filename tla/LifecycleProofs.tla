---------------------------- MODULE LifecycleProofs ----------------------------
(***************************************************************************)
(* Proofs about Lifecycle, for any number of requests, threads and pages.  *)
(*                                                                         *)
(* NoOrphanThread rests on the comms mutex: between the reaping and the    *)
(* spawn of a connect nobody else can put a handle in place (LockInv), and *)
(* on a request keeping the thread it took until that thread is gone       *)
(* (MineInv).                                                              *)
(*                                                                         *)
(* An offline session is checked for in one lock region and entered in a   *)
(* later one.  SideInv says what holds of every request that no other      *)
(* overtook in between: of threads and the flags of the status             *)
(* (SerialInv), of tunes from files (FileInv), and of the tune a connect   *)
(* is about to replace (ReplaceInv).                                       *)
(***************************************************************************)
EXTENDS Lifecycle, TLAPS

(* Who is past locking the comms mutex in do_connect holds it, and from the  *)
(* reaping on there is no handle.                                            *)
LockInv ==
  \A k \in Tasks :
    /\ step[k] \in {"reap", "join", "open", "tune", "writer", "spawn"} => lock = k
    /\ step[k] \in {"join", "open", "tune", "writer", "spawn"} => comms = NoThread

(* A request has a thread of its own while it stops and joins it, only then. *)
MineInv ==
  \A k \in Tasks :
    mine[k] \in Threads <=> step[k] \in {"join", "send", "joined"}

(* The steps of a connect are a connect's, and a task without a request is *)
(* at no step.                                                             *)
OpInv ==
  \A k \in Tasks : /\ step[k] \in {"tune", "writer", "spawn"} => op[k] = "connect"
                   /\ op[k] = "none" => step[k] = "none"

IInv == TypeOK /\ LockInv /\ MineInv /\ OpInv /\ NoOrphanThread
        /\ ConnectedHasThread

-----------------------------------------------------------------------------
(* Every step keeps the types. *)
LEMMA TypeStep == TypeOK /\ [Next]_vars => TypeOK'
<1> SUFFICES ASSUME TypeOK, [Next]_vars PROVE TypeOK'
  OBVIOUS
<1> USE SizeAssumption, KindAssumption
       DEF TypeOK, Kinds, Steps, Places, Page, status, tune, task, thread, app, ghosts
<1>1. ASSUME NEW k \in Tasks, Request(k) PROVE TypeOK'
  <2>1. ASSUME NEW kind \in Kinds, NEW first \in Steps,
               NEW c \in Clients \cup {Nobody}, Begin(k, kind, first, c)
        PROVE  TypeOK'
    BY <2>1 DEF Begin
  <2>2. \E kind \in Kinds, first \in Steps, c \in Clients \cup {Nobody} :
          Begin(k, kind, first, c)
    BY <1>1 DEF Request
  <2> QED BY <2>1, <2>2
<1>2. CASE Supervise
  BY <1>2, SupervisorAssumption DEF Supervise, Begin
<1>3. ASSUME NEW k \in Tasks, TaskStep(k) PROVE TypeOK'
  <2>1. CASE CheckOffline(k)
    BY <2>1 DEF CheckOffline, At, Goto, Checked
  <2>2. CASE CheckDirty(k)
    BY <2>2 DEF CheckDirty, At, Goto, Finish, Checked
  <2>3. CASE LockComms(k)
    BY <2>3 DEF LockComms, At, Goto
  <2>4. CASE AlreadyConnected(k)
    BY <2>4 DEF AlreadyConnected, At, Finish, PutBack
  <2>5. CASE Reap(k)
    <3>1. CASE comms = NoThread
      BY <2>5, <3>1 DEF Reap, At, Goto
    <3>2. CASE comms # NoThread
      <4>1. comms \in Threads /\ comms' = NoThread
        BY <2>5, <3>2 DEF Reap
      <4>2. stop' \in [Threads -> BOOLEAN]
        BY <2>5, <3>2, <4>1 DEF Reap
      <4>3. mine' \in [Tasks -> Threads \cup {NoThread}]
        BY <2>5, <3>2, <4>1 DEF Reap
      <4>4. step' \in [Tasks -> Steps] /\ UNCHANGED <<op, who>>
        BY <2>5, <3>2 DEF Reap, Goto
      <4> QED BY <2>5, <4>1, <4>2, <4>3, <4>4 DEF Reap
    <3> QED BY <3>1, <3>2
  <2>6. CASE Reaped(k)
    BY <2>6 DEF Reaped, At, Goto, Live
  <2>7. CASE OpenPort(k)
    BY <2>7 DEF OpenPort, At, Goto, Overtakes
  <2>8. CASE OpenFails(k)
    BY <2>8 DEF OpenFails, At, Finish
  <2>9. CASE ReplaceTune(k)
    BY <2>9 DEF ReplaceTune, At, Goto, FreshTune
  <2>10. CASE ResetWriter(k)
    BY <2>10 DEF ResetWriter, At, Goto
  <2>11. CASE Spawn(k)
    BY <2>11 DEF Spawn, At, Finish, Live
  <2>12. CASE TakeHandle(k)
    BY <2>12 DEF TakeHandle, At, Goto, Finish
  <2>13. CASE SendShutdown(k)
    <3>1. stop' \in [Threads -> BOOLEAN]
      BY <2>13 DEF SendShutdown
    <3>2. step' \in [Tasks -> Steps] /\ UNCHANGED <<op, who>>
      BY <2>13 DEF SendShutdown, Goto
    <3> QED BY <2>13, <3>1, <3>2 DEF SendShutdown
  <2>14. CASE Joined(k)
    BY <2>14 DEF Joined, Finish, Live
  <2>15. CASE CheckMode(k)
    BY <2>15 DEF CheckMode, Goto, Finish, Checked
  <2>16. CASE OpenFile(k)
    <3>1. CASE msq
      <4>1. /\ loaded' \in BOOLEAN /\ filed' \in BOOLEAN
            /\ fetched' \subseteq Page /\ dirty' \subseteq Page
        BY <2>16, <3>1 DEF OpenFile
      <4>4. overtaken' \subseteq Tasks /\ UNCHANGED confused
        BY <2>16, <3>1 DEF OpenFile, Overtakes
      <4>2. step' \in [Tasks -> Steps] /\ UNCHANGED <<op, who>>
        BY <2>16, <3>1 DEF OpenFile, Goto
      <4>3. UNCHANGED <<status, writer, app, comms, lock, mine, thread>>
        BY <2>16 DEF OpenFile
      <4> QED BY <4>1, <4>2, <4>3, <4>4
    <3>2. CASE ~msq
      <4>1. /\ op' \in [Tasks -> Kinds \cup {"none"}] /\ step' \in [Tasks -> Steps]
            /\ who' \in [Tasks -> Clients \cup {Nobody}]
        BY <2>16, <3>2 DEF OpenFile, Finish
      <4>2. UNCHANGED <<status, tune, writer, app, comms, lock, mine, thread, ghosts>>
        BY <2>16, <3>2 DEF OpenFile
      <4> QED BY <4>1, <4>2
    <3> QED BY <3>1, <3>2
  <2>17. CASE CloseFile(k)
    BY <2>17 DEF CloseFile, At, Goto, FreshTune
  <2>18. CASE UnlockWriter(k)
    BY <2>18 DEF UnlockWriter, Goto
  <2>19. CASE SetMode(k)
    BY <2>19 DEF SetMode, Finish
  <2>20. CASE acquire_writer(k)
    BY <2>20 DEF acquire_writer, At, Goto, Finish
  <2>21. CASE ApplyEdit(k)
    <3>1. dirty' \subseteq Page
      BY <2>21 DEF ApplyEdit
    <3>2. overtaken' \subseteq Tasks
      BY <2>21 DEF ApplyEdit, Overtakes
    <3>3. /\ op' \in [Tasks -> Kinds \cup {"none"}] /\ step' \in [Tasks -> Steps]
          /\ who' \in [Tasks -> Clients \cup {Nobody}]
      BY <2>21 DEF ApplyEdit, Finish
    <3> QED BY <2>21, <3>1, <3>2, <3>3 DEF ApplyEdit
  <2>22. CASE lock_release(k)
    BY <2>22 DEF lock_release, At, Finish
  <2>23. CASE NoPageCommands(k)
    BY <2>23 DEF NoPageCommands, At, Finish
  <2> QED
    BY <1>3, <2>1, <2>2, <2>3, <2>4, <2>5, <2>6, <2>7, <2>8, <2>9, <2>10, <2>11,
       <2>12, <2>13, <2>14, <2>15, <2>16, <2>17, <2>18, <2>19, <2>20, <2>21, <2>22,
       <2>23
       DEF TaskStep, ConnectStep, EndStep, OfflineStep, EditStep
<1>4. ASSUME NEW t \in Threads, ThreadStep(t) PROVE TypeOK'
  <2>1. CASE DownloadPage(t)
    <3>1. next[t] \in Page /\ (next[t] # NumPages => next[t] + 1 \in Page)
      OBVIOUS
    <3>2. fetched' \subseteq Page /\ dirty' \subseteq Page
      BY <2>1, <3>1 DEF DownloadPage
    <3>3. tpc' \in [Threads -> Places] /\ next' \in [Threads -> Page]
      <4>1. CASE LastPage(next[t])
        BY <2>1, <4>1 DEF DownloadPage, Move
      <4>2. CASE ~LastPage(next[t])
        BY <2>1, <3>1, <4>2 DEF DownloadPage, LastPage
      <4> QED BY <4>1, <4>2
    <3> QED BY <2>1, <3>2, <3>3 DEF DownloadPage
  <2>2. CASE DownloadFails(t)
    BY <2>2 DEF DownloadFails, Move
  <2>3. CASE SetLoaded(t)
    BY <2>3 DEF SetLoaded, Move
  <2>4. CASE Announce(t)
    BY <2>4 DEF Announce, Move
  <2>5. CASE Stops(t)
    <3>1. loaded' \in BOOLEAN /\ tpc' \in [Threads -> Places]
      BY <2>5 DEF Stops, Unload, Move
    <3> QED BY <2>5, <3>1 DEF Stops, Unload
  <2>6. CASE Leave(t)
    <3>1. tpc' \in [Threads -> Places]
      BY <2>6 DEF Leave, Move
    <3>2. /\ connected' \in BOOLEAN /\ announced' \in BOOLEAN
          /\ confused' \in BOOLEAN
      BY <2>6 DEF Leave, SaysGone
    <3> QED BY <2>6, <3>1, <3>2 DEF Leave
  <2>7. CASE Flush(t)
    BY <2>7 DEF Flush
  <2>8. CASE Unload(t)
    <3>1. loaded' \in BOOLEAN /\ tpc' \in [Threads -> Places]
      BY <2>8 DEF Unload, Move
    <3> QED BY <2>8, <3>1 DEF Unload
  <2>9. CASE EngineOffReturn(t)
    <3>1. tpc' \in [Threads -> Places]
      BY <2>9 DEF EngineOffReturn, Move
    <3> QED BY <2>9, <3>1 DEF EngineOffReturn
  <2> QED BY <1>4, <2>1, <2>2, <2>3, <2>4, <2>5, <2>6, <2>7, <2>8, <2>9
          DEF ThreadStep, ThreadMust
<1>5. CASE msq_upload
  BY <1>5 DEF msq_upload
<1>6. CASE UNCHANGED vars
  BY <1>6 DEF vars
<1> QED BY <1>1, <1>2, <1>3, <1>4, <1>5, <1>6 DEF Next

(* Every step keeps the comms mutex's discipline. *)
LEMMA LockStep == IInv /\ [Next]_vars => LockInv'
<1> SUFFICES ASSUME IInv, [Next]_vars PROVE LockInv'
  OBVIOUS
<1> USE NoneAssumption
       DEF IInv, TypeOK, LockInv, status, tune, task, thread, app, ghosts
<1>1. ASSUME NEW k \in Tasks, Request(k) PROVE LockInv'
  BY <1>1 DEF Request, Begin
<1>2. CASE Supervise
  BY <1>2, SupervisorAssumption DEF Supervise, Begin
<1>3. ASSUME NEW k \in Tasks, TaskStep(k) PROVE LockInv'
  <2>1. CASE CheckOffline(k)
    BY <2>1 DEF CheckOffline, At, Goto, Checked
  <2>2. CASE CheckDirty(k)
    BY <2>2 DEF CheckDirty, At, Goto, Finish, Checked
  <2>3. CASE LockComms(k)
    BY <2>3 DEF LockComms, At, Goto
  <2>4. CASE AlreadyConnected(k)
    BY <2>4 DEF AlreadyConnected, At, Finish, PutBack
  <2>5. CASE Reap(k)
    BY <2>5 DEF Reap, At, Goto
  <2>6. CASE Reaped(k)
    BY <2>6 DEF Reaped, At, Goto, Live
  <2>7. CASE OpenPort(k)
    BY <2>7 DEF OpenPort, At, Goto, Overtakes
  <2>8. CASE OpenFails(k)
    BY <2>8 DEF OpenFails, At, Finish
  <2>9. CASE ReplaceTune(k)
    BY <2>9 DEF ReplaceTune, At, Goto, FreshTune
  <2>10. CASE ResetWriter(k)
    BY <2>10 DEF ResetWriter, At, Goto
  <2>11. CASE Spawn(k)
    BY <2>11 DEF Spawn, At, Finish, Live
  <2>12. CASE TakeHandle(k)
    BY <2>12 DEF TakeHandle, At, Goto, Finish
  <2>13. CASE SendShutdown(k)
    BY <2>13 DEF SendShutdown, Goto
  <2>14. CASE Joined(k)
    BY <2>14 DEF Joined, Finish, Live
  <2>15. CASE CheckMode(k)
    BY <2>15 DEF CheckMode, Goto, Finish, Checked
  <2>16. CASE OpenFile(k)
    BY <2>16 DEF OpenFile, At, Goto, Finish, Overtakes
  <2>17. CASE CloseFile(k)
    BY <2>17 DEF CloseFile, At, Goto, FreshTune
  <2>18. CASE UnlockWriter(k)
    BY <2>18 DEF UnlockWriter, Goto
  <2>19. CASE SetMode(k)
    BY <2>19 DEF SetMode, Finish
  <2>20. CASE acquire_writer(k)
    BY <2>20 DEF acquire_writer, At, Goto, Finish
  <2>21. CASE ApplyEdit(k)
    BY <2>21 DEF ApplyEdit, At, Finish, Overtakes
  <2>22. CASE lock_release(k)
    BY <2>22 DEF lock_release, At, Finish
  <2>23. CASE NoPageCommands(k)
    BY <2>23 DEF NoPageCommands, At, Finish
  <2> QED
    BY <1>3, <2>1, <2>2, <2>3, <2>4, <2>5, <2>6, <2>7, <2>8, <2>9, <2>10, <2>11,
       <2>12, <2>13, <2>14, <2>15, <2>16, <2>17, <2>18, <2>19, <2>20, <2>21, <2>22,
       <2>23
       DEF TaskStep, ConnectStep, EndStep, OfflineStep, EditStep
<1>4. ASSUME NEW t \in Threads, ThreadStep(t) PROVE LockInv'
  <2>1. CASE DownloadPage(t)
    BY <2>1 DEF DownloadPage, Move, LastPage
  <2>2. CASE DownloadFails(t)
    BY <2>2 DEF DownloadFails, Move
  <2>3. CASE SetLoaded(t)
    BY <2>3 DEF SetLoaded, Move
  <2>4. CASE Announce(t)
    BY <2>4 DEF Announce, Move
  <2>5. CASE Stops(t)
    BY <2>5 DEF Stops, Unload, Move
  <2>6. CASE Leave(t)
    BY <2>6 DEF Leave, Move, SaysGone
  <2>7. CASE Flush(t)
    BY <2>7 DEF Flush
  <2>8. CASE Unload(t)
    BY <2>8 DEF Unload, Move
  <2>9. CASE EngineOffReturn(t)
    BY <2>9 DEF EngineOffReturn, Move
  <2> QED BY <1>4, <2>1, <2>2, <2>3, <2>4, <2>5, <2>6, <2>7, <2>8, <2>9
          DEF ThreadStep, ThreadMust
<1>5. CASE msq_upload
  BY <1>5 DEF msq_upload
<1>6. CASE UNCHANGED vars
  BY <1>6 DEF vars
<1> QED BY <1>1, <1>2, <1>3, <1>4, <1>5, <1>6 DEF Next

(* Every step keeps the taken threads' bookkeeping. *)
LEMMA MineStep == IInv /\ [Next]_vars => MineInv'
<1> SUFFICES ASSUME IInv, [Next]_vars PROVE MineInv'
  OBVIOUS
<1> USE NoneAssumption
       DEF IInv, TypeOK, LockInv, MineInv, OpInv, status, tune, task, thread, app, ghosts
<1>1. ASSUME NEW k \in Tasks, Request(k) PROVE MineInv'
  BY <1>1 DEF Request, Begin
<1>2. CASE Supervise
  BY <1>2, SupervisorAssumption DEF Supervise, Begin
<1>3. ASSUME NEW k \in Tasks, TaskStep(k) PROVE MineInv'
  <2>1. CASE CheckOffline(k)
    BY <2>1 DEF CheckOffline, At, Goto, Checked
  <2>2. CASE CheckDirty(k)
    BY <2>2 DEF CheckDirty, At, Goto, Finish, Checked
  <2>3. CASE LockComms(k)
    BY <2>3 DEF LockComms, At, Goto
  <2>4. CASE AlreadyConnected(k)
    BY <2>4 DEF AlreadyConnected, At, Finish, PutBack
  <2>5. CASE Reap(k)
    BY <2>5 DEF Reap, At, Goto
  <2>6. CASE Reaped(k)
    BY <2>6 DEF Reaped, At, Goto, Live
  <2>7. CASE OpenPort(k)
    BY <2>7 DEF OpenPort, At, Goto, Overtakes
  <2>8. CASE OpenFails(k)
    BY <2>8 DEF OpenFails, At, Finish
  <2>9. CASE ReplaceTune(k)
    BY <2>9 DEF ReplaceTune, At, Goto, FreshTune
  <2>10. CASE ResetWriter(k)
    BY <2>10 DEF ResetWriter, At, Goto
  <2>11. CASE Spawn(k)
    BY <2>11 DEF Spawn, At, Finish, Live
  <2>12. CASE TakeHandle(k)
    BY <2>12 DEF TakeHandle, At, Goto, Finish
  <2>13. CASE SendShutdown(k)
    BY <2>13 DEF SendShutdown, Goto
  <2>14. CASE Joined(k)
    BY <2>14 DEF Joined, Finish, Live
  <2>15. CASE CheckMode(k)
    BY <2>15 DEF CheckMode, Goto, Finish, Checked
  <2>16. CASE OpenFile(k)
    BY <2>16 DEF OpenFile, At, Goto, Finish, Overtakes
  <2>17. CASE CloseFile(k)
    BY <2>17 DEF CloseFile, At, Goto, FreshTune
  <2>18. CASE UnlockWriter(k)
    BY <2>18 DEF UnlockWriter, Goto
  <2>19. CASE SetMode(k)
    BY <2>19 DEF SetMode, Finish
  <2>20. CASE acquire_writer(k)
    BY <2>20 DEF acquire_writer, At, Goto, Finish
  <2>21. CASE ApplyEdit(k)
    BY <2>21 DEF ApplyEdit, At, Finish, Overtakes
  <2>22. CASE lock_release(k)
    BY <2>22 DEF lock_release, At, Finish
  <2>23. CASE NoPageCommands(k)
    BY <2>23 DEF NoPageCommands, At, Finish
  <2> QED
    BY <1>3, <2>1, <2>2, <2>3, <2>4, <2>5, <2>6, <2>7, <2>8, <2>9, <2>10, <2>11,
       <2>12, <2>13, <2>14, <2>15, <2>16, <2>17, <2>18, <2>19, <2>20, <2>21, <2>22,
       <2>23
       DEF TaskStep, ConnectStep, EndStep, OfflineStep, EditStep
<1>4. ASSUME NEW t \in Threads, ThreadStep(t) PROVE MineInv'
  <2>1. CASE DownloadPage(t)
    BY <2>1 DEF DownloadPage, Move, LastPage
  <2>2. CASE DownloadFails(t)
    BY <2>2 DEF DownloadFails, Move
  <2>3. CASE SetLoaded(t)
    BY <2>3 DEF SetLoaded, Move
  <2>4. CASE Announce(t)
    BY <2>4 DEF Announce, Move
  <2>5. CASE Stops(t)
    BY <2>5 DEF Stops, Unload, Move
  <2>6. CASE Leave(t)
    BY <2>6 DEF Leave, Move, SaysGone
  <2>7. CASE Flush(t)
    BY <2>7 DEF Flush
  <2>8. CASE Unload(t)
    BY <2>8 DEF Unload, Move
  <2>9. CASE EngineOffReturn(t)
    BY <2>9 DEF EngineOffReturn, Move
  <2> QED BY <1>4, <2>1, <2>2, <2>3, <2>4, <2>5, <2>6, <2>7, <2>8, <2>9
          DEF ThreadStep, ThreadMust
<1>5. CASE msq_upload
  BY <1>5 DEF msq_upload
<1>6. CASE UNCHANGED vars
  BY <1>6 DEF vars
<1> QED BY <1>1, <1>2, <1>3, <1>4, <1>5, <1>6 DEF Next

(* Every step keeps steps and requests together. *)
LEMMA OpStep == IInv /\ [Next]_vars => OpInv'
<1> SUFFICES ASSUME IInv, [Next]_vars PROVE OpInv'
  OBVIOUS
<1> USE DEF IInv, TypeOK, OpInv, status, tune, task, thread, app, ghosts
<1>1. ASSUME NEW k \in Tasks, Request(k) PROVE OpInv'
  BY <1>1 DEF Request, Begin
<1>2. CASE Supervise
  BY <1>2, SupervisorAssumption DEF Supervise, Begin
<1>3. ASSUME NEW k \in Tasks, TaskStep(k) PROVE OpInv'
  <2>1. CASE CheckOffline(k)
    BY <2>1 DEF CheckOffline, At, Goto, Checked
  <2>2. CASE CheckDirty(k)
    BY <2>2 DEF CheckDirty, At, Goto, Finish, Checked
  <2>3. CASE LockComms(k)
    BY <2>3 DEF LockComms, At, Goto
  <2>4. CASE AlreadyConnected(k)
    BY <2>4 DEF AlreadyConnected, At, Finish, PutBack
  <2>5. CASE Reap(k)
    BY <2>5 DEF Reap, At, Goto
  <2>6. CASE Reaped(k)
    BY <2>6 DEF Reaped, At, Goto, Live
  <2>7. CASE OpenPort(k)
    BY <2>7 DEF OpenPort, At, Goto, Overtakes
  <2>8. CASE OpenFails(k)
    BY <2>8 DEF OpenFails, At, Finish
  <2>9. CASE ReplaceTune(k)
    BY <2>9 DEF ReplaceTune, At, Goto, FreshTune
  <2>10. CASE ResetWriter(k)
    BY <2>10 DEF ResetWriter, At, Goto
  <2>11. CASE Spawn(k)
    BY <2>11 DEF Spawn, At, Finish, Live
  <2>12. CASE TakeHandle(k)
    BY <2>12 DEF TakeHandle, At, Goto, Finish
  <2>13. CASE SendShutdown(k)
    BY <2>13 DEF SendShutdown, Goto
  <2>14. CASE Joined(k)
    BY <2>14 DEF Joined, Finish, Live
  <2>15. CASE CheckMode(k)
    BY <2>15 DEF CheckMode, Goto, Finish, Checked
  <2>16. CASE OpenFile(k)
    BY <2>16 DEF OpenFile, At, Goto, Finish, Overtakes
  <2>17. CASE CloseFile(k)
    BY <2>17 DEF CloseFile, At, Goto, FreshTune
  <2>18. CASE UnlockWriter(k)
    BY <2>18 DEF UnlockWriter, Goto
  <2>19. CASE SetMode(k)
    BY <2>19 DEF SetMode, Finish
  <2>20. CASE acquire_writer(k)
    BY <2>20 DEF acquire_writer, At, Goto, Finish
  <2>21. CASE ApplyEdit(k)
    BY <2>21 DEF ApplyEdit, At, Finish, Overtakes
  <2>22. CASE lock_release(k)
    BY <2>22 DEF lock_release, At, Finish
  <2>23. CASE NoPageCommands(k)
    BY <2>23 DEF NoPageCommands, At, Finish
  <2> QED
    BY <1>3, <2>1, <2>2, <2>3, <2>4, <2>5, <2>6, <2>7, <2>8, <2>9, <2>10, <2>11,
       <2>12, <2>13, <2>14, <2>15, <2>16, <2>17, <2>18, <2>19, <2>20, <2>21, <2>22,
       <2>23
       DEF TaskStep, ConnectStep, EndStep, OfflineStep, EditStep
<1>4. ASSUME NEW t \in Threads, ThreadStep(t) PROVE OpInv'
  <2>1. CASE DownloadPage(t)
    BY <2>1 DEF DownloadPage, Move, LastPage
  <2>2. CASE DownloadFails(t)
    BY <2>2 DEF DownloadFails, Move
  <2>3. CASE SetLoaded(t)
    BY <2>3 DEF SetLoaded, Move
  <2>4. CASE Announce(t)
    BY <2>4 DEF Announce, Move
  <2>5. CASE Stops(t)
    BY <2>5 DEF Stops, Unload, Move
  <2>6. CASE Leave(t)
    BY <2>6 DEF Leave, Move, SaysGone
  <2>7. CASE Flush(t)
    BY <2>7 DEF Flush
  <2>8. CASE Unload(t)
    BY <2>8 DEF Unload, Move
  <2>9. CASE EngineOffReturn(t)
    BY <2>9 DEF EngineOffReturn, Move
  <2> QED BY <1>4, <2>1, <2>2, <2>3, <2>4, <2>5, <2>6, <2>7, <2>8, <2>9
          DEF ThreadStep, ThreadMust
<1>5. CASE msq_upload
  BY <1>5 DEF msq_upload
<1>6. CASE UNCHANGED vars
  BY <1>6 DEF vars
<1> QED BY <1>1, <1>2, <1>3, <1>4, <1>5, <1>6 DEF Next

(* No step loses track of a thread. *)
LEMMA OrphanStep == IInv /\ [Next]_vars => NoOrphanThread'
<1> SUFFICES ASSUME IInv, [Next]_vars PROVE NoOrphanThread'
  OBVIOUS
<1> USE NoneAssumption
       DEF IInv, TypeOK, LockInv, MineInv, NoOrphanThread, Live,
           status, tune, task, thread, app, ghosts
<1>1. ASSUME NEW k \in Tasks, Request(k) PROVE NoOrphanThread'
  BY <1>1 DEF Request, Begin
<1>2. CASE Supervise
  BY <1>2, SupervisorAssumption DEF Supervise, Begin
<1>3. ASSUME NEW k \in Tasks, TaskStep(k) PROVE NoOrphanThread'
  <2>1. CASE CheckOffline(k)
    BY <2>1 DEF CheckOffline, At, Goto, Checked
  <2>2. CASE CheckDirty(k)
    BY <2>2 DEF CheckDirty, At, Goto, Finish, Checked
  <2>3. CASE LockComms(k)
    BY <2>3 DEF LockComms, At, Goto
  <2>4. CASE AlreadyConnected(k)
    BY <2>4 DEF AlreadyConnected, At, Finish, PutBack
  <2>5. CASE Reap(k)
    BY <2>5 DEF Reap, At, Goto
  <2>6. CASE Reaped(k)
    BY <2>6 DEF Reaped, At, Goto, Live
  <2>7. CASE OpenPort(k)
    BY <2>7 DEF OpenPort, At, Goto, Overtakes
  <2>8. CASE OpenFails(k)
    BY <2>8 DEF OpenFails, At, Finish
  <2>9. CASE ReplaceTune(k)
    BY <2>9 DEF ReplaceTune, At, Goto, FreshTune
  <2>10. CASE ResetWriter(k)
    BY <2>10 DEF ResetWriter, At, Goto
  <2>11. CASE Spawn(k)
    BY <2>11 DEF Spawn, At, Finish, Live
  <2>12. CASE TakeHandle(k)
    BY <2>12 DEF TakeHandle, At, Goto, Finish
  <2>13. CASE SendShutdown(k)
    BY <2>13 DEF SendShutdown, Goto
  <2>14. CASE Joined(k)
    BY <2>14 DEF Joined, Finish, Live
  <2>15. CASE CheckMode(k)
    BY <2>15 DEF CheckMode, Goto, Finish, Checked
  <2>16. CASE OpenFile(k)
    BY <2>16 DEF OpenFile, At, Goto, Finish, Overtakes
  <2>17. CASE CloseFile(k)
    BY <2>17 DEF CloseFile, At, Goto, FreshTune
  <2>18. CASE UnlockWriter(k)
    BY <2>18 DEF UnlockWriter, Goto
  <2>19. CASE SetMode(k)
    BY <2>19 DEF SetMode, Finish
  <2>20. CASE acquire_writer(k)
    BY <2>20 DEF acquire_writer, At, Goto, Finish
  <2>21. CASE ApplyEdit(k)
    BY <2>21 DEF ApplyEdit, At, Finish, Overtakes
  <2>22. CASE lock_release(k)
    BY <2>22 DEF lock_release, At, Finish
  <2>23. CASE NoPageCommands(k)
    BY <2>23 DEF NoPageCommands, At, Finish
  <2> QED
    BY <1>3, <2>1, <2>2, <2>3, <2>4, <2>5, <2>6, <2>7, <2>8, <2>9, <2>10, <2>11,
       <2>12, <2>13, <2>14, <2>15, <2>16, <2>17, <2>18, <2>19, <2>20, <2>21, <2>22,
       <2>23
       DEF TaskStep, ConnectStep, EndStep, OfflineStep, EditStep
<1>4. ASSUME NEW t \in Threads, ThreadStep(t) PROVE NoOrphanThread'
  <2>1. CASE DownloadPage(t)
    BY <2>1 DEF DownloadPage, Move, LastPage
  <2>2. CASE DownloadFails(t)
    BY <2>2 DEF DownloadFails, Move
  <2>3. CASE SetLoaded(t)
    BY <2>3 DEF SetLoaded, Move
  <2>4. CASE Announce(t)
    BY <2>4 DEF Announce, Move
  <2>5. CASE Stops(t)
    BY <2>5 DEF Stops, Unload, Move
  <2>6. CASE Leave(t)
    BY <2>6 DEF Leave, Move, SaysGone
  <2>7. CASE Flush(t)
    BY <2>7 DEF Flush
  <2>8. CASE Unload(t)
    BY <2>8 DEF Unload, Move
  <2>9. CASE EngineOffReturn(t)
    BY <2>9 DEF EngineOffReturn, Move
  <2> QED BY <1>4, <2>1, <2>2, <2>3, <2>4, <2>5, <2>6, <2>7, <2>8, <2>9
          DEF ThreadStep, ThreadMust
<1>5. CASE msq_upload
  BY <1>5 DEF msq_upload
<1>6. CASE UNCHANGED vars
  BY <1>6 DEF vars
<1> QED BY <1>1, <1>2, <1>3, <1>4, <1>5, <1>6 DEF Next

(* No step leaves a connection that nobody serves. *)
LEMMA ConnectedStep == IInv /\ [Next]_vars => ConnectedHasThread'
<1> SUFFICES ASSUME IInv, [Next]_vars PROVE ConnectedHasThread'
  OBVIOUS
<1> USE SizeAssumption
       DEF IInv, TypeOK, OpInv, ConnectedHasThread, Connecting, Live,
           status, tune, task, thread, app, ghosts
<1>1. ASSUME NEW k \in Tasks, Request(k) PROVE ConnectedHasThread'
  BY <1>1 DEF Request, Begin
<1>2. CASE Supervise
  BY <1>2, SupervisorAssumption DEF Supervise, Begin
<1>3. ASSUME NEW k \in Tasks, TaskStep(k) PROVE ConnectedHasThread'
  <2>1. CASE CheckOffline(k)
    BY <2>1 DEF CheckOffline, At, Goto, Checked
  <2>2. CASE CheckDirty(k)
    BY <2>2 DEF CheckDirty, At, Goto, Finish, Checked
  <2>3. CASE LockComms(k)
    BY <2>3 DEF LockComms, At, Goto
  <2>4. CASE AlreadyConnected(k)
    BY <2>4 DEF AlreadyConnected, At, Finish, PutBack
  <2>5. CASE Reap(k)
    BY <2>5 DEF Reap, At, Goto
  <2>6. CASE Reaped(k)
    BY <2>6 DEF Reaped, At, Goto, Live
  <2>7. CASE OpenPort(k)
    BY <2>7 DEF OpenPort, At, Goto, Overtakes
  <2>8. CASE OpenFails(k)
    BY <2>8 DEF OpenFails, At, Finish
  <2>9. CASE ReplaceTune(k)
    BY <2>9 DEF ReplaceTune, At, Goto, FreshTune
  <2>10. CASE ResetWriter(k)
    BY <2>10 DEF ResetWriter, At, Goto
  <2>11. CASE Spawn(k)
    BY <2>11 DEF Spawn, At, Finish, Live
  <2>12. CASE TakeHandle(k)
    BY <2>12 DEF TakeHandle, At, Goto, Finish
  <2>13. CASE SendShutdown(k)
    BY <2>13 DEF SendShutdown, Goto
  <2>14. CASE Joined(k)
    BY <2>14 DEF Joined, Finish, Live
  <2>15. CASE CheckMode(k)
    BY <2>15 DEF CheckMode, Goto, Finish, Checked
  <2>16. CASE OpenFile(k)
    BY <2>16 DEF OpenFile, At, Goto, Finish, Overtakes
  <2>17. CASE CloseFile(k)
    BY <2>17 DEF CloseFile, At, Goto, FreshTune
  <2>18. CASE UnlockWriter(k)
    BY <2>18 DEF UnlockWriter, Goto
  <2>19. CASE SetMode(k)
    BY <2>19 DEF SetMode, Finish
  <2>20. CASE acquire_writer(k)
    BY <2>20 DEF acquire_writer, At, Goto, Finish
  <2>21. CASE ApplyEdit(k)
    BY <2>21 DEF ApplyEdit, At, Finish, Overtakes
  <2>22. CASE lock_release(k)
    BY <2>22 DEF lock_release, At, Finish
  <2>23. CASE NoPageCommands(k)
    BY <2>23 DEF NoPageCommands, At, Finish
  <2> QED
    BY <1>3, <2>1, <2>2, <2>3, <2>4, <2>5, <2>6, <2>7, <2>8, <2>9, <2>10, <2>11,
       <2>12, <2>13, <2>14, <2>15, <2>16, <2>17, <2>18, <2>19, <2>20, <2>21, <2>22,
       <2>23
       DEF TaskStep, ConnectStep, EndStep, OfflineStep, EditStep
<1>4. ASSUME NEW t \in Threads, ThreadStep(t) PROVE ConnectedHasThread'
  <2>1. CASE DownloadPage(t)
    BY <2>1 DEF DownloadPage, Move, LastPage
  <2>2. CASE DownloadFails(t)
    BY <2>2 DEF DownloadFails, Move
  <2>3. CASE SetLoaded(t)
    BY <2>3 DEF SetLoaded, Move
  <2>4. CASE Announce(t)
    BY <2>4 DEF Announce, Move
  <2>5. CASE Stops(t)
    BY <2>5 DEF Stops, Unload, Move
  <2>6. CASE Leave(t)
    BY <2>6 DEF Leave, Move, SaysGone
  <2>7. CASE Flush(t)
    BY <2>7 DEF Flush
  <2>8. CASE Unload(t)
    BY <2>8 DEF Unload, Move
  <2>9. CASE EngineOffReturn(t)
    BY <2>9 DEF EngineOffReturn, Move
  <2> QED BY <1>4, <2>1, <2>2, <2>3, <2>4, <2>5, <2>6, <2>7, <2>8, <2>9
          DEF ThreadStep, ThreadMust
<1>5. CASE msq_upload
  BY <1>5 DEF msq_upload
<1>6. CASE UNCHANGED vars
  BY <1>6 DEF vars
<1> QED BY <1>1, <1>2, <1>3, <1>4, <1>5, <1>6 DEF Next

(* The inductive invariant holds throughout. *)
THEOREM Inductive == Spec => []IInv
<1>1. Init => IInv
  <2> SUFFICES ASSUME Init PROVE IInv
    OBVIOUS
  <2>1. TypeOK
    <3>1. 1 \in Page
      BY SizeAssumption DEF Page
    <3>2. /\ connected \in BOOLEAN /\ offline \in BOOLEAN /\ announced \in BOOLEAN
          /\ loaded \in BOOLEAN /\ filed \in BOOLEAN
          /\ msq \in BOOLEAN /\ overtaken \subseteq Tasks /\ confused \in BOOLEAN
      BY Zenon DEF Init
    <3>3. fetched \subseteq Page /\ dirty \subseteq Page
      BY DEF Init
    <3>4. stop \in [Threads -> BOOLEAN]
      BY DEF Init
    <3>5. /\ op \in [Tasks -> Kinds \cup {"none"}] /\ step \in [Tasks -> Steps]
          /\ tpc \in [Threads -> Places] /\ next \in [Threads -> Page]
      BY <3>1 DEF Init, Steps, Places
    <3>6. /\ who \in [Tasks -> Clients \cup {Nobody}]
          /\ mine \in [Tasks -> Threads \cup {NoThread}]
          /\ writer \in Clients \cup {Nobody}
          /\ comms \in Threads \cup {NoThread} /\ lock \in Tasks \cup {NoTask}
      BY DEF Init
    <3>7. usable \in BOOLEAN /\ engine_shutdown \in BOOLEAN
      BY Zenon, SizeAssumption DEF Init
    <3> QED BY <3>2, <3>3, <3>4, <3>5, <3>6, <3>7 DEF TypeOK
  <2>2. LockInv /\ OpInv
    BY DEF Init, LockInv, OpInv
  <2>3. MineInv
    BY NoneAssumption DEF Init, MineInv
  <2>4. NoOrphanThread /\ ConnectedHasThread
    BY DEF Init, NoOrphanThread, ConnectedHasThread, Live
  <2> QED BY <2>1, <2>2, <2>3, <2>4 DEF IInv
<1>2. IInv /\ [Next]_vars => IInv'
  <2> SUFFICES ASSUME IInv, [Next]_vars PROVE IInv'
    OBVIOUS
  <2>1. TypeOK'
    BY TypeStep DEF IInv
  <2> QED BY <2>1, LockStep, MineStep, OpStep, OrphanStep, ConnectedStep DEF IInv
<1> QED BY <1>1, <1>2, PTL DEF Spec

(* Type correctness: a thread never downloads past the last page, a request  *)
(* is always at one of its steps.                                            *)
THEOREM TypeCorrect == Spec => []TypeOK
<1>1. IInv => TypeOK
  BY DEF IInv
<1> QED BY <1>1, Inductive, PTL

(* However connect, disconnect, reconnect and the ends of threads overlap,   *)
(* every running comms thread is behind the handle or is being joined.       *)
THEOREM ThreadsTracked == Spec => []NoOrphanThread
<1>1. IInv => NoOrphanThread
  BY DEF IInv
<1> QED BY <1>1, Inductive, PTL

(* A connected status has a thread, or a connect about to spawn one, behind  *)
(* it wherever the engine-off shutdown is disabled.                          *)
THEOREM ConnectedServed == Spec => []ConnectedHasThread
<1>1. IInv => ConnectedHasThread
  BY DEF IInv
<1> QED BY <1>1, Inductive, PTL

-----------------------------------------------------------------------------
(* Offline sessions.  A request checks the status in one lock region and    *)
(* writes it in a later one; what is said here is of every request, but for *)
(* those overtaken in between.                                              *)

(* The steps after the check are an offline request's.                      *)
ModeInv == \A k \in Tasks : Switching(k) => op[k] \in {"offline_open", "offline_close"}

(* A thread runs, or is about to, only with the status connected and not    *)
(* offline; beside a request that has checked the status for the other      *)
(* mode, and was not overtaken, there is neither.                           *)
SerialInv ==
  ~confused =>
    /\ \A t \in Threads : Live(t) => connected /\ ~offline
    /\ \A k \in Tasks : Connecting(k) => connected /\ ~offline
    /\ \A k \in Tasks : Switching(k) /\ k \notin overtaken =>
         /\ \A t \in Threads : ~Live(t)
         /\ \A j \in Tasks : ~Connecting(j)

(* A tune from a file belongs to an offline session, but for the moments in *)
(* which a session begins or a connect ends it.                             *)
FileInv ==
  ~confused =>
    /\ filed => offline \/ \E j \in Tasks : HalfWay(j)
    /\ \A k \in Tasks :
         op[k] = "offline_close" /\ step[k] \in {"unlock", "status"} /\ k \notin overtaken
           => ~filed

(* A connect past its checks and not overtaken finds no edits in such a     *)
(* tune.                                                                    *)
ReplaceInv ==
  \A k \in Tasks : Replacing(k) /\ k \notin overtaken => ~(filed /\ dirty # {})

SideInv == ModeInv /\ SerialInv /\ FileInv /\ ReplaceInv

(* Every step keeps the offline steps to offline requests.                  *)
LEMMA ModeStep ==
  ASSUME IInv, SideInv, [Next]_vars
  PROVE  ModeInv'
<1> USE NoneAssumption
       DEF IInv, TypeOK, LockInv, OpInv, SideInv, ModeInv, Switching, At,
           status, tune, task, thread, app, ghosts
<1>1. ASSUME NEW k \in Tasks, Request(k) PROVE ModeInv'
  BY <1>1 DEF Request, Begin
<1>2. CASE Supervise
  BY <1>2, SupervisorAssumption DEF Supervise, Begin
<1>3. ASSUME NEW k \in Tasks, TaskStep(k) PROVE ModeInv'
  <2>1. CASE CheckOffline(k)
    BY <2>1 DEF CheckOffline, At, Goto, Checked
  <2>2. CASE CheckDirty(k)
    BY <2>2 DEF CheckDirty, At, Goto, Finish, Checked, UnsavedEdits
  <2>3. CASE LockComms(k)
    BY <2>3 DEF LockComms, At, Goto
  <2>4. CASE AlreadyConnected(k)
    BY <2>4 DEF AlreadyConnected, At, Finish, PutBack
  <2>5. CASE Reap(k)
    BY <2>5 DEF Reap, At, Goto
  <2>6. CASE Reaped(k)
    BY <2>6 DEF Reaped, At, Goto, Live
  <2>7. CASE OpenPort(k)
    BY <2>7 DEF OpenPort, At, Goto, Overtakes
  <2>8. CASE OpenFails(k)
    BY <2>8 DEF OpenFails, At, Finish
  <2>9. CASE ReplaceTune(k)
    BY <2>9 DEF ReplaceTune, At, Goto, FreshTune
  <2>10. CASE ResetWriter(k)
    BY <2>10 DEF ResetWriter, At, Goto
  <2>11. CASE Spawn(k)
    BY <2>11 DEF Spawn, At, Finish, Live
  <2>12. CASE TakeHandle(k)
    BY <2>12 DEF TakeHandle, At, Goto, Finish
  <2>13. CASE SendShutdown(k)
    BY <2>13 DEF SendShutdown, Goto
  <2>14. CASE Joined(k)
    BY <2>14 DEF Joined, Finish, Live
  <2>15. CASE CheckMode(k)
    BY <2>15 DEF CheckMode, Goto, Finish, Checked, MayOpenOffline
  <2>16. CASE OpenFile(k)
    BY <2>16 DEF OpenFile, At, Goto, Finish, Overtakes
  <2>17. CASE CloseFile(k)
    BY <2>17 DEF CloseFile, At, Goto, FreshTune
  <2>18. CASE UnlockWriter(k)
    BY <2>18 DEF UnlockWriter, Goto
  <2>19. CASE SetMode(k)
    BY <2>19 DEF SetMode, Finish
  <2>20. CASE acquire_writer(k)
    BY <2>20 DEF acquire_writer, At, Goto, Finish
  <2>21. CASE ApplyEdit(k)
    BY <2>21 DEF ApplyEdit, At, Finish, Overtakes
  <2>22. CASE lock_release(k)
    BY <2>22 DEF lock_release, At, Finish
  <2>23. CASE NoPageCommands(k)
    BY <2>23 DEF NoPageCommands, At, Finish
  <2> QED
    BY <1>3, <2>1, <2>2, <2>3, <2>4, <2>5, <2>6, <2>7, <2>8, <2>9, <2>10, <2>11,
       <2>12, <2>13, <2>14, <2>15, <2>16, <2>17, <2>18, <2>19, <2>20, <2>21, <2>22,
       <2>23
       DEF TaskStep, ConnectStep, EndStep, OfflineStep, EditStep
<1>4. ASSUME NEW t \in Threads, ThreadStep(t) PROVE ModeInv'
  <2>1. CASE DownloadPage(t)
    BY <2>1 DEF DownloadPage, Move, LastPage
  <2>2. CASE DownloadFails(t)
    BY <2>2 DEF DownloadFails, Move
  <2>3. CASE SetLoaded(t)
    BY <2>3 DEF SetLoaded, Move
  <2>4. CASE Announce(t)
    BY <2>4 DEF Announce, Move
  <2>5. CASE Stops(t)
    BY <2>5 DEF Stops, Unload, Move
  <2>6. CASE Leave(t)
    BY <2>6 DEF Leave, Move, SaysGone
  <2>7. CASE Flush(t)
    BY <2>7 DEF Flush
  <2>8. CASE Unload(t)
    BY <2>8 DEF Unload, Move
  <2>9. CASE EngineOffReturn(t)
    BY <2>9 DEF EngineOffReturn, Move
  <2> QED BY <1>4, <2>1, <2>2, <2>3, <2>4, <2>5, <2>6, <2>7, <2>8, <2>9
          DEF ThreadStep, ThreadMust
<1>5. CASE msq_upload
  BY <1>5 DEF msq_upload
<1>6. CASE UNCHANGED vars
  BY <1>6 DEF vars
<1> QED BY <1>1, <1>2, <1>3, <1>4, <1>5, <1>6 DEF Next

(* Every step keeps threads and the flags of the status together.           *)
LEMMA SerialStep ==
  ASSUME IInv, SideInv, [Next]_vars
  PROVE  SerialInv'
<1> USE NoneAssumption
       DEF IInv, TypeOK, LockInv, OpInv, SideInv, ModeInv, SerialInv, Switching, Connecting, At, Live,
           status, tune, task, thread, app, ghosts
<1>1. ASSUME NEW k \in Tasks, Request(k) PROVE SerialInv'
  BY <1>1 DEF Request, Begin
<1>2. CASE Supervise
  BY <1>2, SupervisorAssumption DEF Supervise, Begin
<1>3. ASSUME NEW k \in Tasks, TaskStep(k) PROVE SerialInv'
  <2>1. CASE CheckOffline(k)
    BY <2>1 DEF CheckOffline, At, Goto, Checked
  <2>2. CASE CheckDirty(k)
    BY <2>2 DEF CheckDirty, At, Goto, Finish, Checked, UnsavedEdits
  <2>3. CASE LockComms(k)
    BY <2>3 DEF LockComms, At, Goto
  <2>4. CASE AlreadyConnected(k)
    BY <2>4 DEF AlreadyConnected, At, Finish, PutBack
  <2>5. CASE Reap(k)
    BY <2>5 DEF Reap, At, Goto
  <2>6. CASE Reaped(k)
    BY <2>6 DEF Reaped, At, Goto, Live
  <2>7. CASE OpenPort(k)
    BY <2>7 DEF OpenPort, At, Goto, Overtakes
  <2>8. CASE OpenFails(k)
    BY <2>8 DEF OpenFails, At, Finish
  <2>9. CASE ReplaceTune(k)
    BY <2>9 DEF ReplaceTune, At, Goto, FreshTune
  <2>10. CASE ResetWriter(k)
    BY <2>10 DEF ResetWriter, At, Goto
  <2>11. CASE Spawn(k)
    BY <2>11 DEF Spawn, At, Finish, Live
  <2>12. CASE TakeHandle(k)
    BY <2>12 DEF TakeHandle, At, Goto, Finish
  <2>13. CASE SendShutdown(k)
    BY <2>13 DEF SendShutdown, Goto
  <2>14. CASE Joined(k)
    BY <2>14 DEF Joined, Finish, Live
  <2>15. CASE CheckMode(k)
    BY <2>15 DEF CheckMode, Goto, Finish, Checked, MayOpenOffline
  <2>16. CASE OpenFile(k)
    BY <2>16 DEF OpenFile, At, Goto, Finish, Overtakes
  <2>17. CASE CloseFile(k)
    BY <2>17 DEF CloseFile, At, Goto, FreshTune
  <2>18. CASE UnlockWriter(k)
    BY <2>18 DEF UnlockWriter, Goto
  <2>19. CASE SetMode(k)
    BY <2>19 DEF SetMode, Finish
  <2>20. CASE acquire_writer(k)
    BY <2>20 DEF acquire_writer, At, Goto, Finish
  <2>21. CASE ApplyEdit(k)
    BY <2>21 DEF ApplyEdit, At, Finish, Overtakes
  <2>22. CASE lock_release(k)
    BY <2>22 DEF lock_release, At, Finish
  <2>23. CASE NoPageCommands(k)
    BY <2>23 DEF NoPageCommands, At, Finish
  <2> QED
    BY <1>3, <2>1, <2>2, <2>3, <2>4, <2>5, <2>6, <2>7, <2>8, <2>9, <2>10, <2>11,
       <2>12, <2>13, <2>14, <2>15, <2>16, <2>17, <2>18, <2>19, <2>20, <2>21, <2>22,
       <2>23
       DEF TaskStep, ConnectStep, EndStep, OfflineStep, EditStep
<1>4. ASSUME NEW t \in Threads, ThreadStep(t) PROVE SerialInv'
  <2>1. CASE DownloadPage(t)
    BY <2>1 DEF DownloadPage, Move, LastPage
  <2>2. CASE DownloadFails(t)
    BY <2>2 DEF DownloadFails, Move
  <2>3. CASE SetLoaded(t)
    BY <2>3 DEF SetLoaded, Move
  <2>4. CASE Announce(t)
    BY <2>4 DEF Announce, Move
  <2>5. CASE Stops(t)
    BY <2>5 DEF Stops, Unload, Move
  <2>6. CASE Leave(t)
    BY <2>6 DEF Leave, Move, SaysGone
  <2>7. CASE Flush(t)
    BY <2>7 DEF Flush
  <2>8. CASE Unload(t)
    BY <2>8 DEF Unload, Move
  <2>9. CASE EngineOffReturn(t)
    BY <2>9 DEF EngineOffReturn, Move
  <2> QED BY <1>4, <2>1, <2>2, <2>3, <2>4, <2>5, <2>6, <2>7, <2>8, <2>9
          DEF ThreadStep, ThreadMust
<1>5. CASE msq_upload
  BY <1>5 DEF msq_upload
<1>6. CASE UNCHANGED vars
  BY <1>6 DEF vars
<1> QED BY <1>1, <1>2, <1>3, <1>4, <1>5, <1>6 DEF Next

(* Every step keeps tunes from files with the status.                       *)
LEMMA FileStep ==
  ASSUME IInv, SideInv, [Next]_vars
  PROVE  FileInv'
<1> USE NoneAssumption
       DEF IInv, TypeOK, LockInv, OpInv, SideInv, ModeInv, FileInv, HalfWay, Switching, At,
           status, tune, task, thread, app, ghosts
<1>1. ASSUME NEW k \in Tasks, Request(k) PROVE FileInv'
  BY <1>1 DEF Request, Begin
<1>2. CASE Supervise
  BY <1>2, SupervisorAssumption DEF Supervise, Begin
<1>3. ASSUME NEW k \in Tasks, TaskStep(k) PROVE FileInv'
  <2>1. CASE CheckOffline(k)
    BY <2>1 DEF CheckOffline, At, Goto, Checked
  <2>2. CASE CheckDirty(k)
    BY <2>2 DEF CheckDirty, At, Goto, Finish, Checked, UnsavedEdits
  <2>3. CASE LockComms(k)
    BY <2>3 DEF LockComms, At, Goto
  <2>4. CASE AlreadyConnected(k)
    BY <2>4 DEF AlreadyConnected, At, Finish, PutBack
  <2>5. CASE Reap(k)
    BY <2>5 DEF Reap, At, Goto
  <2>6. CASE Reaped(k)
    BY <2>6 DEF Reaped, At, Goto, Live
  <2>7. CASE OpenPort(k)
    BY <2>7 DEF OpenPort, At, Goto, Overtakes
  <2>8. CASE OpenFails(k)
    BY <2>8 DEF OpenFails, At, Finish
  <2>9. CASE ReplaceTune(k)
    BY <2>9 DEF ReplaceTune, At, Goto, FreshTune
  <2>10. CASE ResetWriter(k)
    BY <2>10 DEF ResetWriter, At, Goto
  <2>11. CASE Spawn(k)
    BY <2>11 DEF Spawn, At, Finish, Live
  <2>12. CASE TakeHandle(k)
    BY <2>12 DEF TakeHandle, At, Goto, Finish
  <2>13. CASE SendShutdown(k)
    BY <2>13 DEF SendShutdown, Goto
  <2>14. CASE Joined(k)
    BY <2>14 DEF Joined, Finish, Live
  <2>15. CASE CheckMode(k)
    BY <2>15 DEF CheckMode, Goto, Finish, Checked, MayOpenOffline
  <2>16. CASE OpenFile(k)
    BY <2>16 DEF OpenFile, At, Goto, Finish, Overtakes
  <2>17. CASE CloseFile(k)
    BY <2>17 DEF CloseFile, At, Goto, FreshTune
  <2>18. CASE UnlockWriter(k)
    BY <2>18 DEF UnlockWriter, Goto
  <2>19. CASE SetMode(k)
    BY <2>19 DEF SetMode, Finish
  <2>20. CASE acquire_writer(k)
    BY <2>20 DEF acquire_writer, At, Goto, Finish
  <2>21. CASE ApplyEdit(k)
    BY <2>21 DEF ApplyEdit, At, Finish, Overtakes
  <2>22. CASE lock_release(k)
    BY <2>22 DEF lock_release, At, Finish
  <2>23. CASE NoPageCommands(k)
    BY <2>23 DEF NoPageCommands, At, Finish
  <2> QED
    BY <1>3, <2>1, <2>2, <2>3, <2>4, <2>5, <2>6, <2>7, <2>8, <2>9, <2>10, <2>11,
       <2>12, <2>13, <2>14, <2>15, <2>16, <2>17, <2>18, <2>19, <2>20, <2>21, <2>22,
       <2>23
       DEF TaskStep, ConnectStep, EndStep, OfflineStep, EditStep
<1>4. ASSUME NEW t \in Threads, ThreadStep(t) PROVE FileInv'
  <2>1. CASE DownloadPage(t)
    BY <2>1 DEF DownloadPage, Move, LastPage
  <2>2. CASE DownloadFails(t)
    BY <2>2 DEF DownloadFails, Move
  <2>3. CASE SetLoaded(t)
    BY <2>3 DEF SetLoaded, Move
  <2>4. CASE Announce(t)
    BY <2>4 DEF Announce, Move
  <2>5. CASE Stops(t)
    BY <2>5 DEF Stops, Unload, Move
  <2>6. CASE Leave(t)
    BY <2>6 DEF Leave, Move, SaysGone
  <2>7. CASE Flush(t)
    BY <2>7 DEF Flush
  <2>8. CASE Unload(t)
    BY <2>8 DEF Unload, Move
  <2>9. CASE EngineOffReturn(t)
    BY <2>9 DEF EngineOffReturn, Move
  <2> QED BY <1>4, <2>1, <2>2, <2>3, <2>4, <2>5, <2>6, <2>7, <2>8, <2>9
          DEF ThreadStep, ThreadMust
<1>5. CASE msq_upload
  BY <1>5 DEF msq_upload
<1>6. CASE UNCHANGED vars
  BY <1>6 DEF vars
<1> QED BY <1>1, <1>2, <1>3, <1>4, <1>5, <1>6 DEF Next

(* Every step keeps the tune a connect replaces free of unsaved edits.      *)
LEMMA ReplaceStep ==
  ASSUME IInv, SideInv, [Next]_vars
  PROVE  ReplaceInv'
<1> USE NoneAssumption
       DEF IInv, TypeOK, LockInv, OpInv, SideInv, FileInv, ReplaceInv, HalfWay, Replacing, At,
           status, tune, task, thread, app, ghosts
<1>1. ASSUME NEW k \in Tasks, Request(k) PROVE ReplaceInv'
  BY <1>1 DEF Request, Begin
<1>2. CASE Supervise
  BY <1>2, SupervisorAssumption DEF Supervise, Begin
<1>3. ASSUME NEW k \in Tasks, TaskStep(k) PROVE ReplaceInv'
  <2>1. CASE CheckOffline(k)
    BY <2>1 DEF CheckOffline, At, Goto, Checked
  <2>2. CASE CheckDirty(k)
    BY <2>2 DEF CheckDirty, At, Goto, Finish, Checked, UnsavedEdits
  <2>3. CASE LockComms(k)
    BY <2>3 DEF LockComms, At, Goto
  <2>4. CASE AlreadyConnected(k)
    BY <2>4 DEF AlreadyConnected, At, Finish, PutBack
  <2>5. CASE Reap(k)
    BY <2>5 DEF Reap, At, Goto
  <2>6. CASE Reaped(k)
    BY <2>6 DEF Reaped, At, Goto, Live
  <2>7. CASE OpenPort(k)
    BY <2>7 DEF OpenPort, At, Goto, Overtakes
  <2>8. CASE OpenFails(k)
    BY <2>8 DEF OpenFails, At, Finish
  <2>9. CASE ReplaceTune(k)
    BY <2>9 DEF ReplaceTune, At, Goto, FreshTune
  <2>10. CASE ResetWriter(k)
    BY <2>10 DEF ResetWriter, At, Goto
  <2>11. CASE Spawn(k)
    BY <2>11 DEF Spawn, At, Finish, Live
  <2>12. CASE TakeHandle(k)
    BY <2>12 DEF TakeHandle, At, Goto, Finish
  <2>13. CASE SendShutdown(k)
    BY <2>13 DEF SendShutdown, Goto
  <2>14. CASE Joined(k)
    BY <2>14 DEF Joined, Finish, Live
  <2>15. CASE CheckMode(k)
    BY <2>15 DEF CheckMode, Goto, Finish, Checked, MayOpenOffline
  <2>16. CASE OpenFile(k)
    BY <2>16 DEF OpenFile, At, Goto, Finish, Overtakes
  <2>17. CASE CloseFile(k)
    BY <2>17 DEF CloseFile, At, Goto, FreshTune
  <2>18. CASE UnlockWriter(k)
    BY <2>18 DEF UnlockWriter, Goto
  <2>19. CASE SetMode(k)
    BY <2>19 DEF SetMode, Finish
  <2>20. CASE acquire_writer(k)
    BY <2>20 DEF acquire_writer, At, Goto, Finish
  <2>21. CASE ApplyEdit(k)
    BY <2>21 DEF ApplyEdit, At, Finish, Overtakes
  <2>22. CASE lock_release(k)
    BY <2>22 DEF lock_release, At, Finish
  <2>23. CASE NoPageCommands(k)
    BY <2>23 DEF NoPageCommands, At, Finish
  <2> QED
    BY <1>3, <2>1, <2>2, <2>3, <2>4, <2>5, <2>6, <2>7, <2>8, <2>9, <2>10, <2>11,
       <2>12, <2>13, <2>14, <2>15, <2>16, <2>17, <2>18, <2>19, <2>20, <2>21, <2>22,
       <2>23
       DEF TaskStep, ConnectStep, EndStep, OfflineStep, EditStep
<1>4. ASSUME NEW t \in Threads, ThreadStep(t) PROVE ReplaceInv'
  <2>1. CASE DownloadPage(t)
    BY <2>1 DEF DownloadPage, Move, LastPage
  <2>2. CASE DownloadFails(t)
    BY <2>2 DEF DownloadFails, Move
  <2>3. CASE SetLoaded(t)
    BY <2>3 DEF SetLoaded, Move
  <2>4. CASE Announce(t)
    BY <2>4 DEF Announce, Move
  <2>5. CASE Stops(t)
    BY <2>5 DEF Stops, Unload, Move
  <2>6. CASE Leave(t)
    BY <2>6 DEF Leave, Move, SaysGone
  <2>7. CASE Flush(t)
    BY <2>7 DEF Flush
  <2>8. CASE Unload(t)
    BY <2>8 DEF Unload, Move
  <2>9. CASE EngineOffReturn(t)
    BY <2>9 DEF EngineOffReturn, Move
  <2> QED BY <1>4, <2>1, <2>2, <2>3, <2>4, <2>5, <2>6, <2>7, <2>8, <2>9
          DEF ThreadStep, ThreadMust
<1>5. CASE msq_upload
  BY <1>5 DEF msq_upload
<1>6. CASE UNCHANGED vars
  BY <1>6 DEF vars
<1> QED BY <1>1, <1>2, <1>3, <1>4, <1>5, <1>6 DEF Next

(* SideInv holds throughout. *)
THEOREM SideInductive == Spec => [](IInv /\ SideInv)
<1>1. Init => SideInv
  BY DEF Init, SideInv, ModeInv, SerialInv, FileInv, ReplaceInv, Live, Connecting, Switching,
         Replacing
<1>2. IInv /\ SideInv /\ [Next]_vars => SideInv'
  BY ModeStep, SerialStep, FileStep, ReplaceStep DEF SideInv
<1> QED BY <1>1, <1>2, Inductive, PTL DEF Spec

(* However many requests and threads overlap, Status::offline means that no  *)
(* comms thread runs, until an overtaken request or a replaced thread writes *)
(* the status.                                                               *)
THEOREM OfflineMeansNoSerialHolds == Spec => []OfflineMeansNoSerial
<1>1. SideInv => OfflineMeansNoSerial
  BY DEF SideInv, SerialInv, OfflineMeansNoSerial
<1> QED BY <1>1, SideInductive, PTL

(* However many requests overlap, the tune that a connect replaces is not    *)
(* one from a file with edits in it that its check could have seen.          *)
THEOREM OfflineEditsKeptHolds == Spec => OfflineEditsKept
<1>1. SideInv /\ [Next]_vars =>
        [\A k \in Tasks : At(k, "connect", "tune") /\ step'[k] = "writer"
           => k \in overtaken \/ ~(filed /\ dirty # {})]_vars
  BY DEF SideInv, ReplaceInv, Replacing, At
<1> QED BY <1>1, SideInductive, PTL DEF Spec, OfflineEditsKept
=============================================================================
