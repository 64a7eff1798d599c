--------------------------- MODULE EngineShutdown ---------------------------
(***************************************************************************)
(* The engine-off shutdown of the appliance (server/src/comms.rs).         *)
(*                                                                         *)
(* The comms thread shows every telemetry frame to EngineShutdownMonitor.  *)
(* Once the engine has run and then stood still for delay_seconds, the     *)
(* thread writes the poweroff request that systemd waits for, and ends.    *)
(*                                                                         *)
(* Time.  An Instant is modelled by its age in seconds, and an age counts  *)
(* no further than Delay: observe only ever compares one with Delay.       *)
(* Polls happen any number of times between two ticks.  A corrupted frame  *)
(* or a silent poll is not shown to the monitor and changes nothing here:  *)
(* ticks without a frame are an outage.                                    *)
(***************************************************************************)
EXTENDS Naturals

CONSTANTS Rpms,      \* engine speeds the telemetry can report
          ArmRpm,    \* config.arm_rpm
          StopRpm,   \* config.stop_rpm
          Delay      \* config.delay_seconds

(* RuntimeConfig::validate. *)
ASSUME ConfigAssumption == /\ Rpms \subseteq Nat
                           /\ StopRpm \in Nat /\ ArmRpm \in Nat
                           /\ ArmRpm > StopRpm
                           /\ Delay \in Nat \ {0}

VARIABLES
  enabled,        \* config.enabled
  rpm,            \* the engine's speed
  readable,       \* the frame decodes to a finite rpm
  running,        \* the comms thread runs
  armed, counting, since, requested,
                  \* the monitor: counting is stopped_since.is_some(), and
                  \* since the age of that Instant
  poweroff,       \* the request file exists
  ran,            \* ghost: a frame of this session showed the engine running
  still,          \* ghost: age of the last frame not showing it stopped
  heard           \* ghost: age of the last frame, or of the session

monitor == <<armed, counting, since, requested>>
history == <<ran, still, heard>>
vars == <<enabled, rpm, readable, running, monitor, poweroff, history>>

Age == 0..Delay
Older(age) == IF age < Delay THEN age + 1 ELSE Delay

-----------------------------------------------------------------------------
(* EngineShutdownMonitor::observe, branch by branch; the last one returns   *)
(* whether the delay has passed.                                            *)

Fires(age) == age >= Delay

Ignores == ~enabled \/ requested
Cancels_RpmOnly == readable /\ (~armed \/ rpm > StopRpm)
Cancels == ~readable \/ ~armed \/ rpm > StopRpm
Arms == readable /\ rpm >= ArmRpm

Uncounted == counting' = FALSE /\ since' = 0
Counted == IF counting THEN since ELSE 0

(* A frame: what the monitor makes of it and, when it fires, the request    *)
(* file (which may fail to be written) and the end of the thread.           *)
Frame ==
  /\ running
  /\ ran' = (ran \/ (readable /\ rpm >= ArmRpm))
  /\ still' = IF readable /\ rpm <= StopRpm THEN still ELSE 0
  /\ heard' = 0
  /\ \/ Ignores /\ UNCHANGED <<monitor, running, poweroff>>
     \/ /\ ~Ignores /\ Arms
        /\ armed' = TRUE /\ Uncounted
        /\ UNCHANGED <<requested, running, poweroff>>
     \/ /\ ~Ignores /\ ~Arms /\ Cancels
        /\ Uncounted
        /\ UNCHANGED <<armed, requested, running, poweroff>>
     \/ /\ ~Ignores /\ ~Arms /\ ~Cancels
        /\ counting' = TRUE /\ since' = Counted
        /\ UNCHANGED armed
        /\ \/ /\ ~Fires(Counted)
              /\ UNCHANGED <<requested, running, poweroff>>
           \/ /\ Fires(Counted)
              /\ requested' = TRUE
              /\ poweroff' \in {TRUE, poweroff}
              /\ running' = FALSE
  /\ UNCHANGED <<enabled, rpm, readable>>

(* The session ends for another reason. *)
Ends ==
  /\ running
  /\ running' = FALSE
  /\ UNCHANGED <<enabled, rpm, readable, monitor, poweroff, history>>

(* A new session has a new monitor. *)
Starts ==
  /\ ~running
  /\ running' = TRUE
  /\ armed' = FALSE /\ counting' = FALSE /\ since' = 0 /\ requested' = FALSE
  /\ ran' = FALSE /\ still' = 0 /\ heard' = 0
  /\ UNCHANGED <<enabled, rpm, readable, poweroff>>

(* The world: a second passes, the engine changes, the sensor changes. *)
Tick ==
  /\ since' = IF counting THEN Older(since) ELSE 0
  /\ still' = Older(still) /\ heard' = Older(heard)
  /\ UNCHANGED <<enabled, rpm, readable, running, armed, counting, requested,
                 poweroff, ran>>

Engine ==
  /\ rpm' \in Rpms /\ readable' \in BOOLEAN
  /\ UNCHANGED <<enabled, running, monitor, poweroff, history>>

Init ==
  /\ enabled \in BOOLEAN /\ rpm \in Rpms /\ readable \in BOOLEAN
  /\ running = TRUE
  /\ armed = FALSE /\ counting = FALSE /\ since = 0 /\ requested = FALSE
  /\ poweroff = FALSE
  /\ ran = FALSE /\ still = 0 /\ heard = 0

Next == Frame \/ Ends \/ Starts \/ Tick \/ Engine
Spec == Init /\ [][Next]_vars

-----------------------------------------------------------------------------
(* Properties.                                                             *)

(* The monitor's fields keep their types and the countdown its range. *)
TypeOK ==
  /\ enabled \in BOOLEAN /\ rpm \in Rpms /\ readable \in BOOLEAN
  /\ running \in BOOLEAN
  /\ armed \in BOOLEAN /\ counting \in BOOLEAN /\ requested \in BOOLEAN
  /\ since \in Age
  /\ poweroff \in BOOLEAN
  /\ ran \in BOOLEAN /\ still \in Age /\ heard \in Age

(* The appliance is powered off only when the feature is on, a frame of this *)
(* session showed the engine at arm_rpm, and for Delay seconds every frame   *)
(* there was showed it at or below stop_rpm: an unreadable rpm or a blip of  *)
(* the engine starts the countdown anew (observe).  How many frames there    *)
(* were in that time it does not say.                                        *)
PoweroffJustified ==
  [][~poweroff /\ poweroff' => enabled /\ ran /\ still >= Delay]_vars

(* docs/raspberry-pi-appliance.md: "Missing telemetry and RPM above          *)
(* `stop_rpm` cancel an active countdown."  So the countdown is not over at  *)
(* the first frame after an outage that lasted the whole delay.              *)
MissingTelemetryCancels ==
  [][~poweroff /\ poweroff' => heard < Delay]_vars

=============================================================================
