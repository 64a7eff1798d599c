---------------------------- MODULE HandlerLocks ----------------------------
(***************************************************************************)
(* The mutexes of AppState, in the order each handler takes them           *)
(* (server/src/api.rs, admin.rs, comms.rs).                                *)
(*                                                                         *)
(* A handler is reduced to its mutex operations: take(l) waits until l is  *)
(* free, drop(l) ends the guard's scope, join waits for the comms thread.  *)
(* An early return drops what is held, so every path of a handler is a     *)
(* prefix of its longest one followed by the drops; the guards' nesting,   *)
(* which is all that matters here, is the same.                            *)
(***************************************************************************)
EXTENDS Sequences

CONSTANTS Handlers,   \* requests that run at the same time
          Kinds       \* what they may be, among the names below

Mutexes == {"comms", "status", "tune", "writer", "msq", "definition"}

take(l) == <<[do |-> "take", of |-> l]>>
drop(l) == <<[do |-> "drop", of |-> l]>>
join    == <<[do |-> "join", of |-> "comms"]>>
(* A lock region: the guard of l lives while body runs. *)
Within(l, body) == take(l) \o body \o drop(l)
Brief(l) == Within(l, <<>>)

-----------------------------------------------------------------------------
(* The handlers. *)

broadcast_tune == Brief("tune")
refresh_definition == Brief("definition")
acquire_writer == Brief("writer")

do_connect == Brief("status") \o Brief("tune")
              \o Within("comms", Brief("status") \o join \o Brief("status")
                                 \o Brief("tune") \o Brief("writer"))
              \o Brief("status")
disconnect == Brief("comms") \o join \o Brief("status")
reconnect  == Within("comms", join)
tune_burn  == acquire_writer \o Brief("comms")

tune_summary == Within("tune", Brief("writer"))
tune_set_constant_Locked ==
  Within("writer", Within("tune", refresh_definition) \o broadcast_tune)
tune_set_constant == acquire_writer \o Within("tune", refresh_definition)
                     \o broadcast_tune

offline_open  == Brief("status")
                 \o Within("msq", Within("tune", refresh_definition))
                 \o Brief("writer") \o Brief("status") \o broadcast_tune
offline_close == Brief("status") \o Brief("tune") \o Brief("writer")
                 \o Brief("status") \o broadcast_tune

msq_upload == Brief("msq")
msq_apply  == acquire_writer
              \o Within("msq", Within("tune", refresh_definition))
              \o broadcast_tune
diff_json  == Brief("msq")
msq_diff   == Within("tune", diff_json)

(* One turn of the comms thread's loop, and its way out: the tune and the   *)
(* status one after the other, never one within the other.                  *)
comms_run == Brief("tune") \o Brief("status") \o broadcast_tune

Program(kind) ==
  CASE kind = "connect"       -> do_connect
    [] kind = "disconnect"    -> disconnect
    [] kind = "reconnect"     -> reconnect
    [] kind = "burn"          -> tune_burn
    [] kind = "summary"       -> tune_summary
    [] kind = "set_constant"  -> tune_set_constant
    [] kind = "offline_open"  -> offline_open
    [] kind = "offline_close" -> offline_close
    [] kind = "msq_upload"    -> msq_upload
    [] kind = "msq_apply"     -> msq_apply
    [] kind = "msq_diff"      -> msq_diff
    [] kind = "thread"        -> comms_run

-----------------------------------------------------------------------------
Thread == "thread"                  \* the comms thread, beside the handlers
Actors == Handlers \cup {Thread}
Free == "free"

ASSUME FreeAssumption == Free \notin Actors

VARIABLES left,   \* what each actor has still to do
          holder  \* who holds each mutex
lockVars == <<left, holder>>

LockInit == /\ left = [a \in Actors |-> <<>>]
            /\ holder = [l \in Mutexes |-> Free]

(* A request arrives; the thread goes round its loop once more. *)
Start(a) == /\ left[a] = <<>>
            /\ \E kind \in IF a = Thread THEN {"thread"} ELSE Kinds :
                 left' = [left EXCEPT ![a] = Program(kind)]
            /\ UNCHANGED holder

Doing(a, what) == left[a] # <<>> /\ Head(left[a]).do = what
Advance(a) == left' = [left EXCEPT ![a] = Tail(@)]

Take(a) == LET l == Head(left[a]).of
           IN /\ Doing(a, "take")
              /\ holder[l] = Free
              /\ holder' = [holder EXCEPT ![l] = a]
              /\ Advance(a)
Drop(a) == /\ Doing(a, "drop")
           /\ holder' = [holder EXCEPT ![Head(left[a]).of] = Free]
           /\ Advance(a)
(* The thread that is joined finishes the turn it is in. *)
Join(a) == /\ Doing(a, "join")
           /\ left[Thread] = <<>>
           /\ Advance(a)
           /\ UNCHANGED holder

LockNext == \E a \in Actors : Start(a) \/ Take(a) \/ Drop(a) \/ Join(a)
LockSpec == LockInit /\ [][LockNext]_lockVars

-----------------------------------------------------------------------------
(* Properties.                                                             *)

Waits(a, b) == \/ Doing(a, "take") /\ holder[Head(left[a]).of] = b
               \/ Doing(a, "join") /\ b = Thread /\ left[b] # <<>>

(* The header of comms.rs: "Everything blocking lives here on a plain OS     *)
(* thread; the async side talks to it through a command channel": whatever   *)
(* requests run together, they and the thread never wait for each other in a *)
(* circle, over mutexes or over the join of the thread.                      *)
NoCircularWait ==
  \A S \in SUBSET Actors :
    S # {} => \E a \in S : \A b \in S : ~Waits(a, b)

=============================================================================
