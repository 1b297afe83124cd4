-------------------------- MODULE TriggerDetector --------------------------
(***************************************************************************)
(* core/trigger.py: the state machine that turns IMU samples into trigger  *)
(* events, with the wake-up call it makes on each.  update() is called by  *)
(* one thread, so one sample is one action.                                *)
(*                                                                         *)
(* Abstracted: a sample is its timestamp and which of the thresholds its   *)
(* speed lies between; the state CAPTURE, which update() sets and leaves   *)
(* before it returns; the wake-up's clock runs with the samples' one.      *)
(***************************************************************************)
EXTENDS Naturals

CONSTANTS
  SaccadeDuration, FixationDuration, RefractoryPeriod, HeartbeatCooldown,
  Intervals,  \* the times that may pass between two samples
  MaxTime     \* bound on the timestamps

\* speed <= fixation_threshold_dps, >= saccade_threshold_dps, and
\* > motion_reject_threshold_dps; "moving" is what is between.
Speed == {"still", "moving", "saccade", "rejected"}

ASSUME DetectorAssumption ==
  /\ SaccadeDuration \in Nat \ {0} /\ FixationDuration \in Nat \ {0}
  /\ RefractoryPeriod \in Nat /\ HeartbeatCooldown \in Nat
  /\ Intervals \subseteq Nat \ {0} /\ MaxTime \in Nat

VARIABLES
  now,            \* timestamp of the last sample
  state,          \* self.state
  saccadeStart,   \* self._saccade_start, 0 for unset
  fixationStart,  \* self._fixation_start, 0 for unset
  lastCapture,    \* self._last_capture
  lastHeartbeat,  \* self._last_heartbeat_time
  stillSince,     \* history: first of the latest samples that were all still, or 0
  saccadeSince,   \* history: the same for saccade
  saccadeSeen,    \* history: a saccade lasted long enough since the last reset
  fresh,          \* history: nothing was captured since the last reset
  wokenAt         \* history: when the gateway was last called
detectorVars == <<state, saccadeStart, fixationStart, lastCapture, lastHeartbeat>>
gestureVars == <<now, detectorVars, stillSince, saccadeSince, saccadeSeen, fresh, wokenAt>>

DetectorInit ==
  /\ now \in Intervals
  /\ state = "IDLE"
  /\ saccadeStart = 0 /\ fixationStart = 0
  /\ lastCapture = 0 /\ lastHeartbeat = 0
  /\ stillSince = 0 /\ saccadeSince = 0 /\ saccadeSeen = FALSE /\ fresh = TRUE
  /\ wokenAt = 0

----------------------------------------------------------------------------
\* `start if it is set, else t`
Started(start, t) == IF start = 0 THEN t ELSE start

Ignore == UNCHANGED <<detectorVars, wokenAt>>

\* Deliberate fault: rejected motion does not reset the fixation.
Reject_KeepsFixation ==
  /\ state' = "IDLE" /\ saccadeStart' = 0
  /\ UNCHANGED <<fixationStart, lastCapture, lastHeartbeat, wokenAt>>

Reject ==
  /\ state' = "IDLE" /\ saccadeStart' = 0 /\ fixationStart' = 0
  /\ UNCHANGED <<lastCapture, lastHeartbeat, wokenAt>>

Idle(t, speed) ==
  /\ IF speed = "saccade"
     THEN /\ saccadeStart' = Started(saccadeStart, t)
          /\ state' = IF t - saccadeStart' >= SaccadeDuration THEN "SACCADE" ELSE "IDLE"
     ELSE saccadeStart' = 0 /\ UNCHANGED state
  /\ UNCHANGED <<fixationStart, lastCapture, lastHeartbeat, wokenAt>>

\* Deliberate fault: the time of the call is recorded only when it succeeds.
RequestHeartbeat_OnSuccess(t) ==
  IF t - lastHeartbeat >= HeartbeatCooldown
  THEN lastHeartbeat' \in {t, lastHeartbeat} /\ wokenAt' = t
  ELSE UNCHANGED <<lastHeartbeat, wokenAt>>

\* request_heartbeat_now: recorded before the call, which may fail.
RequestHeartbeat(t) ==
  IF t - lastHeartbeat >= HeartbeatCooldown
  THEN lastHeartbeat' = t /\ wokenAt' = t
  ELSE UNCHANGED <<lastHeartbeat, wokenAt>>

\* saccadeStart and fixationStart keep their values.
Capture(t) ==
  /\ state' = "IDLE"
  /\ lastCapture' = t
  /\ RequestHeartbeat(t)
  /\ UNCHANGED saccadeStart

Saccade(t, speed) ==
  IF speed = "still"
  THEN /\ fixationStart' = Started(fixationStart, t)
       /\ IF t - fixationStart' >= FixationDuration THEN Capture(t)
          ELSE UNCHANGED <<state, saccadeStart, lastCapture, lastHeartbeat, wokenAt>>
  ELSE /\ fixationStart' = 0
       /\ UNCHANGED <<state, saccadeStart, lastCapture, lastHeartbeat, wokenAt>>

Refractory(t) == t - lastCapture < RefractoryPeriod
Resets(t, speed) == ~Refractory(t) /\ speed = "rejected"

\* What update() does with a sample.
Handle(t, speed) ==
  \/ Refractory(t) /\ Ignore
  \/ Resets(t, speed) /\ Reject
  \/ ~Refractory(t) /\ speed # "rejected" /\ state = "IDLE" /\ Idle(t, speed)
  \/ ~Refractory(t) /\ speed # "rejected" /\ state = "SACCADE" /\ Saccade(t, speed)

\* What the sample, seen for itself, adds to the history.
Observe(t, speed) ==
  /\ stillSince' = IF speed = "still" THEN Started(stillSince, t) ELSE 0
  /\ saccadeSince' = IF speed = "saccade" THEN Started(saccadeSince, t) ELSE 0
  /\ saccadeSeen' = (/\ ~Resets(t, speed) /\ lastCapture' = lastCapture
                     /\ \/ saccadeSeen
                        \/ speed = "saccade" /\ t - saccadeSince' >= SaccadeDuration)
  /\ fresh' = (Resets(t, speed) \/ (fresh /\ lastCapture' = lastCapture))

Update(dt, speed) ==
  /\ now + dt <= MaxTime
  /\ now' = now + dt
  /\ Handle(now + dt, speed)
  /\ Observe(now + dt, speed)

DetectorNext == \E dt \in Intervals, speed \in Speed : Update(dt, speed)

DetectorSpec == DetectorInit /\ [][DetectorNext]_gestureVars

----------------------------------------------------------------------------
DetectorTypeOK ==
  /\ now \in Nat
  /\ state \in {"IDLE", "SACCADE"}
  /\ saccadeStart \in 0 .. now /\ fixationStart \in 0 .. now
  /\ lastCapture \in 0 .. now /\ lastHeartbeat \in 0 .. lastCapture
  /\ stillSince \in 0 .. now /\ saccadeSince \in 0 .. now
  /\ saccadeSeen \in BOOLEAN /\ fresh \in BOOLEAN /\ wokenAt \in 0 .. now

(* The first capture after the start or after rejected motion follows a    *)
(* whole gesture: a saccade of saccade_duration_ms, and then stillness for *)
(* fixation_duration_ms up to the capture.                                 *)
WholeGesture ==
  [][(lastCapture' # lastCapture /\ fresh)
       => saccadeSeen /\ stillSince # 0 /\ now' - stillSince >= FixationDuration]_gestureVars

(* The gateway is woken at most once per cooldown: neither a burst of      *)
(* captures nor a gateway that is down makes the detector call it more.    *)
WakesApart == [][wokenAt' # wokenAt => wokenAt' - wokenAt >= HeartbeatCooldown]_gestureVars

(* fixation_duration_ms as the state machine IDLE -> SACCADE -> FIXATION   *)
(* -> CAPTURE has it: whatever was captured before, a capture follows that *)
(* long a fixation.                                                        *)
FixationHeld ==
  [][lastCapture' # lastCapture
       => stillSince # 0 /\ now' - stillSince >= FixationDuration]_gestureVars
============================================================================
