------------------------------- MODULE Pairing -------------------------------
(***************************************************************************)
(* Pairing, sessions and settings of the appliance: AuthState and the      *)
(* require_auth middleware of server/src/auth.rs, the admin socket of      *)
(* admin.rs, PUT /api/appliance/config, and what a start of the process    *)
(* makes of the two files it finds (config.rs, main.rs).                   *)
(*                                                                         *)
(* Every request runs on its own thread.  approve() keeps the pairing      *)
(* mutex until the new token is on disk; revoke() takes no such lock; and  *)
(* persist() copies the set under the approved mutex but writes it after   *)
(* the mutex is free, so the steps of two writers interleave.              *)
(***************************************************************************)
EXTENDS Naturals, FiniteSets

CONSTANTS
  Requests,     \* threads serving a request
  Tokens,       \* session tokens; rand never repeats one
  Codes,        \* six-digit codes; two windows may draw the same one
  Pin,          \* the code that is also the master PIN, if one is set
  Devices,      \* serial devices the settings may name
  Lifetime,     \* ticks a pairing window stays open (300 s)
  NoCode, NoToken, NoOne,
  MaxClock, MaxRestarts, MaxRequests  \* bounds

ASSUME PairingAssumption ==
  /\ Lifetime \in Nat /\ MaxClock \in Nat
  /\ Devices # {}
  /\ NoToken \notin Tokens /\ NoCode \notin Codes /\ NoOne \notin Requests

VARIABLES
  up,        \* the process serves requests
  runtime,   \* state.runtime: the settings this process started with
  approved,  \* AuthState.approved
  window,    \* AuthState.pairing: the open window, or NoWindow
  mutex,     \* which approve() holds the pairing mutex
  store,     \* the tokens in the approved-devices file
  file,      \* the settings file: its text "whole", "empty" or "garbled"
  clock,
  windows,   \* how many windows were opened
  restarts,
  count,     \* how many requests arrived
  req,       \* req[r]: where the thread is, and what it carries
  issued,    \* every approval: token, the window or PIN behind it, when
  paired,    \* tokens whose pairing was answered: a device holds them
  leaving,   \* tokens whose logout began
  revoked,   \* tokens whose logout was answered
  raced,     \* two persists overlapped, or one failed or was cut short
  acked,     \* the settings last acknowledged
  clash      \* what befell settings writers: "overlap", "cut"

pairVars == <<up, runtime, approved, window, mutex, store, file, clock, windows,
          restarts, count, req, issued, paired, leaving, revoked, raced, acked, clash>>
sessions == <<approved, window, mutex, store, windows, issued, paired, leaving, revoked, raced>>
settings == <<file, acked, clash>>
process  == <<up, runtime, restarts, clock, count>>

NoWindow == [id |-> 0, code |-> NoCode, expires |-> 0]
\* The admin socket is the optional field for which the profile has a value.
Settings == [bind : {"loopback", "lan"}, auth : BOOLEAN, sound : BOOLEAN,
             device : Devices, socket : {"none", "usual", "own"}]

\* RuntimeConfig::appliance()
Appliance(d) == [bind |-> "lan", auth |-> TRUE, sound |-> TRUE, device |-> d,
                 socket |-> "usual"]
Profile == Appliance(CHOOSE d \in Devices : TRUE)

Idle == [pc |-> "idle", op |-> "none", token |-> NoToken, code |-> NoCode,
         data |-> {}, gone |-> {}, cfg |-> Profile]

\* RuntimeConfig::load merges the file over the profile.  The text of settings
\* leaves out an option that is None: it comes back as the profile has it.
Merged(c) == [c EXCEPT !.socket = IF @ = "none" THEN Profile.socket ELSE @]
Load(f) == IF f.text = "empty" THEN Profile ELSE Merged(f.cfg)
\* The bounds of RuntimeConfig::validate are the field "sound".
validate(c) == c.sound
RefusesOpen(c) == c.bind # "loopback" /\ ~c.auth
Bootable(f) == f.text # "garbled" /\ validate(Load(f)) /\ ~RefusesOpen(Load(f))

Step(r, upd) == req' = [req EXCEPT ![r] = upd]
Goes(r, pc)  == Step(r, [req[r] EXCEPT !.pc = pc])
Rests(r)     == Step(r, Idle)

-----------------------------------------------------------------------------
(* Requests arrive over HTTP, behind the middleware, or on the admin       *)
(* socket, which has none.                                                 *)
HttpOps  == {"pair", "logout", "operate", "open", "put"}
AdminOps == {"open", "configure"}

ArriveHttp(r) ==
  /\ up /\ req[r].pc = "idle"
  /\ count < MaxRequests /\ count' = count + 1
  /\ \E op \in HttpOps, t \in paired \cup {NoToken}, c \in Codes :
       /\ op # "pair" => c = CHOOSE x \in Codes : TRUE
       /\ op = "pair" => t = NoToken
       /\ Step(r, [Idle EXCEPT !.pc = "auth", !.op = op, !.token = t,
                               !.code = c,
                               !.gone = revoked \cap {t}])
  /\ UNCHANGED <<up, runtime, restarts, clock, sessions, settings>>

ArriveAdmin(r) ==
  /\ up /\ req[r].pc = "idle" /\ runtime.socket # "none"
  /\ count < MaxRequests /\ count' = count + 1
  /\ \E op \in AdminOps : Step(r, [Idle EXCEPT !.pc = "handle", !.op = op])
  /\ UNCHANGED <<up, runtime, restarts, clock, sessions, settings>>

\* Mutant: the store is asked as well.
valid_Store(t) == t \in approved \cup store
valid(t) == t \in approved

\* The origin check of require_auth refuses some requests of a valid token
\* as well: what it may let through is what matters here.
Admits(r) == ~runtime.auth \/ req[r].op = "pair" \/ valid(req[r].token)
require_auth(r) ==
  /\ up /\ req[r].pc = "auth"
  /\ \/ Admits(r) /\ Goes(r, "handle")
     \/ (~Admits(r) \/ (runtime.auth /\ req[r].op # "pair")) /\ Rests(r)
  /\ UNCHANGED <<process, sessions, settings>>

\* Any other handler behind the middleware.
Operate(r) ==
  /\ up /\ req[r].pc = "handle" /\ req[r].op = "operate"
  /\ Rests(r)
  /\ UNCHANGED <<process, sessions, settings>>

open_pairing(r) ==
  /\ up /\ req[r].pc = "handle" /\ req[r].op = "open" /\ mutex = NoOne
  /\ windows' = windows + 1
  /\ \E c \in Codes :
       window' = [id |-> windows + 1, code |-> c, expires |-> clock + Lifetime]
  /\ Rests(r)
  /\ UNCHANGED <<process, settings, approved, mutex, store, issued, paired, leaving, revoked, raced>>

-----------------------------------------------------------------------------
(* approve: check, consume, insert; the mutex is kept until persist ends.  *)
OneTimeValid(r) == window.expires > clock /\ window.code = req[r].code
MasterValid(r)  == req[r].code = Pin
\* Mutant: the window is cleared for the PIN instead of the code.
Consumed_Pin(r) == IF MasterValid(r) THEN NoWindow ELSE window
Consumed(r) == IF OneTimeValid(r) THEN NoWindow ELSE window

approve(r) ==
  /\ up /\ req[r].pc = "handle" /\ req[r].op = "pair" /\ mutex = NoOne
  /\ IF OneTimeValid(r) \/ MasterValid(r)
     THEN \E t \in Tokens \ {i.token : i \in issued} :
            /\ window' = Consumed(r)
            /\ approved' = approved \cup {t}
            /\ issued' = issued \cup
                 {[token |-> t, at |-> clock,
                   by |-> IF OneTimeValid(r) THEN window ELSE NoWindow]}
            /\ mutex' = r
            /\ Step(r, [req[r] EXCEPT !.pc = "snapshot", !.token = t])
     ELSE Rests(r) /\ UNCHANGED <<window, approved, issued, mutex>>
  /\ UNCHANGED <<process, settings, store, windows, paired, leaving, revoked, raced>>

revoke(r) ==
  /\ up /\ req[r].pc = "handle" /\ req[r].op = "logout"
  /\ approved' = approved \ {req[r].token}
  /\ leaving' = leaving \cup {req[r].token}
  /\ IF req[r].token = NoToken THEN Rests(r) ELSE Goes(r, "snapshot")
  /\ UNCHANGED <<process, settings, window, mutex, store, windows, issued, paired, revoked, raced>>

(* persist: copy the set; truncate the file; write the copy.               *)
Persisting(r) == req[r].pc \in {"truncate", "write"}

\* Mutant: only the token at hand is written.
Snapshot_Own(r) ==
  /\ up /\ req[r].pc = "snapshot"
  /\ raced' = (raced \/ \E o \in Requests \ {r} : Persisting(o))
  /\ Step(r, [req[r] EXCEPT !.pc = "truncate", !.data = approved \cap {req[r].token}])
  /\ UNCHANGED <<process, settings, approved, window, mutex, store, windows, issued, paired, leaving, revoked>>
Snapshot(r) ==
  /\ up /\ req[r].pc = "snapshot"
  /\ raced' = (raced \/ \E o \in Requests \ {r} : Persisting(o))
  /\ Step(r, [req[r] EXCEPT !.pc = "truncate", !.data = approved])
  /\ UNCHANGED <<process, settings, approved, window, mutex, store, windows, issued, paired, leaving, revoked>>

Truncate(r) ==
  /\ up /\ req[r].pc = "truncate"
  /\ store' = {}
  /\ Goes(r, "write")
  /\ UNCHANGED <<process, settings, approved, window, mutex, windows, issued, paired, leaving, revoked, raced>>

\* The answer goes out when persist returns, whatever became of the file.
Reply(r) ==
  /\ paired' = IF req[r].op = "pair" THEN paired \cup {req[r].token} ELSE paired
  /\ revoked' = IF req[r].op = "logout" THEN revoked \cup {req[r].token} ELSE revoked
  /\ mutex' = IF mutex = r THEN NoOne ELSE mutex
  /\ Rests(r)

\* Lines have one length: a shorter list written over a longer one, by a
\* writer that truncated before the longer one came, keeps its tail.
Overwrites(new, old) ==
  {new \cup s : s \in {s \in SUBSET old : Cardinality(s) + Cardinality(new)
                                            = IF Cardinality(old) > Cardinality(new)
                                              THEN Cardinality(old) ELSE Cardinality(new)}}
Write(r) ==
  /\ up /\ req[r].pc = "write"
  /\ store' \in Overwrites(req[r].data, store)
  /\ Reply(r)
  /\ UNCHANGED <<process, settings, approved, window, windows, issued, leaving, raced>>

\* fs::write fails, before or after it truncated: `let _` drops the error.
WriteFails(r) ==
  /\ up /\ Persisting(r)
  /\ raced' = TRUE
  /\ Reply(r)
  /\ UNCHANGED <<process, settings, approved, window, store, windows, issued, leaving>>

-----------------------------------------------------------------------------
(* Settings: PUT /api/appliance/config and the admin command configure.    *)
SavingConfig(r) == req[r].pc \in {"ctruncate", "cwrite"}
Saves(r, c) ==
  /\ clash' = IF \E o \in Requests \ {r} : SavingConfig(o)
              THEN clash \cup {"overlap"} ELSE clash
  /\ Step(r, [req[r] EXCEPT !.pc = "ctruncate", !.cfg = c])

\* Mutant: validate() forgotten.
Accepts_Unvalidated(c) == ~RefusesOpen(c)
Accepts(c) == ~RefusesOpen(c) /\ validate(c)
appliance_config_put(r) ==
  /\ up /\ req[r].pc = "handle" /\ req[r].op = "put"
  /\ \E c \in Settings :
       IF Accepts(c) THEN Saves(r, c) ELSE Rests(r) /\ UNCHANGED clash
  /\ UNCHANGED <<process, sessions, file, acked>>

\* A clone of the settings the process started with, one field changed.
configure(r) ==
  /\ up /\ req[r].pc = "handle" /\ req[r].op = "configure"
  /\ \E d \in Devices : Saves(r, [runtime EXCEPT !.device = d])
  /\ UNCHANGED <<process, sessions, file, acked>>

ConfigTruncate(r) ==
  /\ up /\ req[r].pc = "ctruncate"
  /\ file' = [file EXCEPT !.text = "empty"]
  /\ Goes(r, "cwrite")
  /\ UNCHANGED <<process, sessions, acked, clash>>

ConfigWrite(r) ==
  /\ up /\ req[r].pc = "cwrite"
  /\ \E t \in {"whole"} \cup (IF file.text = "empty" THEN {} ELSE {"garbled"}) :
       file' = [text |-> t, cfg |-> req[r].cfg]
  /\ acked' = req[r].cfg
  /\ Rests(r)
  /\ UNCHANGED <<process, sessions, clash>>

ConfigFails(r) ==
  /\ up /\ SavingConfig(r)
  /\ clash' = IF req[r].pc = "cwrite" THEN clash \cup {"cut"} ELSE clash
  /\ Rests(r)
  /\ UNCHANGED <<process, sessions, file, acked>>

-----------------------------------------------------------------------------
\* The process ends at any moment: the admin command restart exits with 75
\* without waiting for other requests, and the power may be cut.
Stop ==
  /\ up /\ restarts < MaxRestarts
  /\ up' = FALSE
  /\ restarts' = restarts + 1
  /\ raced' = (raced \/ \E r \in Requests : req[r].pc = "write")
  /\ clash' = IF \E r \in Requests : req[r].pc = "cwrite"
              THEN clash \cup {"cut"} ELSE clash
  /\ req' = [r \in Requests |-> Idle]
  /\ approved' = {} /\ window' = NoWindow /\ mutex' = NoOne
  /\ UNCHANGED <<runtime, store, file, clock, windows, count, issued,
                 paired, leaving, revoked, acked>>

\* main: read the settings, refuse bad ones, and build a new AuthState.
Boot ==
  /\ ~up /\ Bootable(file)
  /\ up' = TRUE
  /\ runtime' = Load(file)
  /\ approved' = store
  /\ UNCHANGED <<window, mutex, store, settings, clock, windows, restarts, count, req,
                 issued, paired, leaving, revoked, raced>>

Passes ==
  /\ clock < MaxClock
  /\ clock' = clock + 1
  /\ UNCHANGED <<up, runtime, restarts, count, sessions, settings, req>>

PairInit ==
  /\ up = FALSE /\ runtime = Profile /\ restarts = 0 /\ clock = 0
  /\ approved = {} /\ window = NoWindow /\ mutex = NoOne /\ store = {}
  /\ windows = 0 /\ issued = {} /\ paired = {} /\ leaving = {} /\ revoked = {} /\ raced = FALSE
  /\ file = [text |-> "empty", cfg |-> Profile] /\ acked = Profile /\ clash = {} /\ count = 0
  /\ req = [r \in Requests |-> Idle]

PairNext ==
  \/ \E r \in Requests :
       \/ ArriveHttp(r) \/ ArriveAdmin(r) \/ require_auth(r) \/ Operate(r)
       \/ open_pairing(r) \/ approve(r) \/ revoke(r)
       \/ Snapshot(r) \/ Truncate(r) \/ Write(r) \/ WriteFails(r)
       \/ appliance_config_put(r) \/ configure(r)
       \/ ConfigTruncate(r) \/ ConfigWrite(r) \/ ConfigFails(r)
  \/ Stop \/ Boot \/ Passes

PairSpec == PairInit /\ [][PairNext]_pairVars

-----------------------------------------------------------------------------
(* What the appliance promises its owner.                                  *)

\* A code shown on the display lets in one device, and only while its window
\* is open, however many devices send it at once (approve, auth.rs).
CodeUsedOnce ==
  \A i \in issued : i.by # NoWindow =>
    /\ i.at < i.by.expires
    /\ \A j \in issued : j.by = i.by => j = i

\* A request that arrives after a logout was answered is not served with that
\* session's token: at once in the process that answered, and after a restart
\* too unless two persists overlapped or one failed (revoke, require_auth).
LogoutHolds ==
  \A r \in Requests :
    (req[r].pc = "handle" /\ runtime.auth /\ req[r].token \in req[r].gone)
      => raced /\ restarts > 0

\* When no write is half done and no persist was raced, the file a restart
\* reads holds every device that was told it is paired and none that was told
\* it is logged out (persist, AuthState::new).
PairingsSurvive ==
  (~raced /\ \A r \in Requests : req[r].pc # "write") =>
    paired \ leaving \subseteq store /\ revoked \cap store = {}

\* Unless two writers overlapped, the process can always start again from the
\* settings on disk; and it starts with what was acknowledged last, unless a
\* write was cut short: every value that was set, and for an option that was
\* cleared the profile's (appliance_config_put, configure, load).
SettingsSurvive ==
  /\ "overlap" \notin clash => Bootable(file)
  /\ (clash = {} /\ \A r \in Requests : req[r].pc # "cwrite") =>
       \A f \in DOMAIN acked :
         Load(file)[f] = IF f = "socket" /\ acked.socket = "none"
                         THEN Profile.socket ELSE acked[f]

=============================================================================
