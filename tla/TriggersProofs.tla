--------------------------- MODULE TriggersProofs ---------------------------
(***************************************************************************)
(* The two things that trigger: for all durations and sampling intervals,  *)
(* what the IMU's TriggerDetector says of wake-up calls and of the first   *)
(* capture after a reset; and for any number of starts and handlers, that  *)
(* the audio trigger of the Distiller's context loop keeps its cooldown    *)
(* and fires at most once after it was stopped.                            *)
(***************************************************************************)
EXTENDS TriggerDetector, DistillerContextLoop, TLAPS

----------------------------------------------------------------------------
(* The detector over IMU samples.                                          *)

(* Every sample has a later time stamp than the one before.                *)
LEMMA TimePasses ==
  ASSUME DetectorTypeOK, NEW dt \in Intervals
  PROVE  now + dt \in Nat /\ now + dt > now
BY DetectorAssumption DEF DetectorTypeOK

(* The type invariant, and that the recorded time of the last wake-up is   *)
(* the time of the last wake-up.                                           *)
Recorded == lastHeartbeat = wokenAt

(* Every step keeps the detector's variables in their types and Recorded.  *)
LEMMA DetectorVars ==
  ASSUME DetectorTypeOK, Recorded, NEW t \in Nat, t > now, NEW speed \in Speed, Handle(t, speed)
  PROVE  /\ state' \in {"IDLE", "SACCADE"}
         /\ saccadeStart' \in 0 .. t /\ fixationStart' \in 0 .. t
         /\ lastCapture' \in 0 .. t /\ lastHeartbeat' \in 0 .. lastCapture'
         /\ wokenAt' \in 0 .. t
         /\ Recorded'
         /\ wokenAt' # wokenAt => wokenAt' - wokenAt >= HeartbeatCooldown
<1>0. HeartbeatCooldown \in Nat
  BY DetectorAssumption
<1>1. CASE Ignore
  BY <1>1 DEF Ignore, DetectorTypeOK, Recorded, detectorVars
<1>2. CASE Reject
  BY <1>2 DEF Reject, DetectorTypeOK, Recorded
<1>3. CASE state = "IDLE" /\ Idle(t, speed)
  BY <1>3 DEF Idle, Started, DetectorTypeOK, Recorded
<1>4. CASE Saccade(t, speed) /\ ~Capture(t)
  BY <1>4 DEF Saccade, Started, DetectorTypeOK, Recorded
<1>5. CASE Saccade(t, speed) /\ Capture(t)
  <2>1. fixationStart' \in 0 .. t
    BY <1>5 DEF Saccade, Started, DetectorTypeOK
  <2>2. state' = "IDLE" /\ lastCapture' = t /\ saccadeStart' = saccadeStart
    BY <1>5 DEF Capture
  <2>3. \/ lastHeartbeat' = t /\ wokenAt' = t /\ t - lastHeartbeat >= HeartbeatCooldown
        \/ lastHeartbeat' = lastHeartbeat /\ wokenAt' = wokenAt
    BY <1>5 DEF Capture, RequestHeartbeat
  <2> QED BY <1>0, <2>1, <2>2, <2>3 DEF DetectorTypeOK, Recorded
<1> QED BY <1>1, <1>2, <1>3, <1>4, <1>5 DEF Handle

(* The history variables keep their types.                                 *)
LEMMA HistoryVars ==
  ASSUME DetectorTypeOK, NEW t \in Nat, t > now, NEW speed \in Speed, Observe(t, speed)
  PROVE  /\ stillSince' \in 0 .. t /\ saccadeSince' \in 0 .. t
         /\ saccadeSeen' \in BOOLEAN /\ fresh' \in BOOLEAN
<1>1. stillSince' \in 0 .. t /\ saccadeSince' \in 0 .. t
  BY DEF Observe, Started, DetectorTypeOK
<1>2. saccadeSeen' \in BOOLEAN /\ fresh' \in BOOLEAN
  BY DEF Observe
<1> QED BY <1>1, <1>2

TypedAndRecorded == DetectorTypeOK /\ Recorded

(* Both hold initially and are kept by every step, which moreover wakes    *)
(* the gateway only after the cooldown.                                    *)
LEMMA TypedInit == DetectorInit => TypedAndRecorded
<1> SUFFICES ASSUME DetectorInit PROVE TypedAndRecorded
  OBVIOUS
<1>1. now \in Nat
  BY DetectorAssumption DEF DetectorInit
<1>2. saccadeSeen \in BOOLEAN /\ fresh \in BOOLEAN
  BY DEF DetectorInit
<1>3. DetectorTypeOK
  BY <1>1, <1>2 DEF DetectorInit, DetectorTypeOK
<1> QED BY <1>3 DEF DetectorInit, TypedAndRecorded, Recorded

LEMMA TypedNext ==
  TypedAndRecorded /\ [DetectorNext]_gestureVars
    => TypedAndRecorded' /\ (wokenAt' # wokenAt => wokenAt' - wokenAt >= HeartbeatCooldown)
<1> SUFFICES ASSUME TypedAndRecorded, [DetectorNext]_gestureVars
             PROVE  /\ TypedAndRecorded'
                    /\ wokenAt' # wokenAt => wokenAt' - wokenAt >= HeartbeatCooldown
  OBVIOUS
<1>1. CASE UNCHANGED gestureVars
  BY <1>1 DEF gestureVars, detectorVars, TypedAndRecorded, DetectorTypeOK, Recorded
<1>2. CASE DetectorNext
  <2>1. PICK dt \in Intervals, speed \in Speed : Update(dt, speed)
    BY <1>2 DEF DetectorNext
  <2>2. /\ now + dt \in Nat /\ now + dt > now /\ now' = now + dt
        /\ Handle(now + dt, speed) /\ Observe(now + dt, speed)
    BY <2>1, TimePasses DEF TypedAndRecorded, Update
  <2>3. /\ state' \in {"IDLE", "SACCADE"}
        /\ saccadeStart' \in 0 .. now' /\ fixationStart' \in 0 .. now'
        /\ lastCapture' \in 0 .. now' /\ lastHeartbeat' \in 0 .. lastCapture'
        /\ wokenAt' \in 0 .. now'
        /\ Recorded'
        /\ wokenAt' # wokenAt => wokenAt' - wokenAt >= HeartbeatCooldown
    BY <2>2, DetectorVars DEF TypedAndRecorded
  <2>4. /\ stillSince' \in 0 .. now' /\ saccadeSince' \in 0 .. now'
        /\ saccadeSeen' \in BOOLEAN /\ fresh' \in BOOLEAN
    BY <2>2, HistoryVars DEF TypedAndRecorded
  <2>5. DetectorTypeOK'
    BY <2>2, <2>3, <2>4 DEF DetectorTypeOK
  <2> QED BY <2>3, <2>5 DEF TypedAndRecorded
<1> QED BY <1>1, <1>2

(* The detector's variables have their types (TriggerDetector.__init__,    *)
(* update and request_heartbeat_now), for all durations and intervals.     *)
THEOREM DetectorTypeCorrect == DetectorSpec => []DetectorTypeOK
<1>1. TypedAndRecorded => DetectorTypeOK
  BY DEF TypedAndRecorded
<1>2. TypedAndRecorded /\ [DetectorNext]_gestureVars => TypedAndRecorded'
  BY TypedNext
<1> QED BY <1>1, <1>2, TypedInit, PTL DEF DetectorSpec

(* request_heartbeat_now wakes the gateway at most once in every           *)
(* HEARTBEAT_COOLDOWN_S, whatever captures there are and calls that fail.  *)
THEOREM WakesStayApart == DetectorSpec => WakesApart
<1> DEFINE Apart == wokenAt' # wokenAt => wokenAt' - wokenAt >= HeartbeatCooldown
<1>1. TypedAndRecorded /\ [DetectorNext]_gestureVars => TypedAndRecorded'
  BY TypedNext
<1>2. TypedAndRecorded /\ [DetectorNext]_gestureVars => [Apart]_gestureVars
  BY TypedNext
<1>3. DetectorSpec => [][Apart]_gestureVars
  BY <1>1, <1>2, TypedInit, PTL DEF DetectorSpec
<1> QED BY <1>3 DEF WakesApart

----------------------------------------------------------------------------
(* While nothing was captured since the last reset, what the detector      *)
(* remembers is what happened: a running fixation began no earlier than    *)
(* the stillness, a running saccade no earlier than the fast motion, and   *)
(* in SACCADE a whole saccade was seen; and then the refractory period is  *)
(* over, so no sample is passed over any more.                             *)
FixationTrue ==
  fixationStart # 0 => /\ state = "SACCADE"
                       /\ stillSince # 0 /\ stillSince <= fixationStart
SaccadeTrue ==
  saccadeStart # 0 => /\ ~Refractory(now)
                      /\ state = "IDLE" => saccadeSince # 0 /\ saccadeSince <= saccadeStart
StateTrue == state = "SACCADE" => saccadeSeen /\ ~Refractory(now)
GestureInv == fresh => FixationTrue /\ SaccadeTrue /\ StateTrue

LEMMA GestureInit == DetectorInit => GestureInv
  BY DEF DetectorInit, GestureInv, FixationTrue, SaccadeTrue, StateTrue

\* What update() does to the history on each path, and what the property says
\* of the step.
WholeStep ==
  (lastCapture' # lastCapture /\ fresh)
     => saccadeSeen /\ stillSince # 0 /\ now' - stillSince >= FixationDuration

(* Each sample keeps GestureInv, and a capture among them is a whole       *)
(* gesture.                                                                *)
LEMMA GestureStep ==
  ASSUME DetectorTypeOK, GestureInv, NEW t \in Nat, t > now, now' = t,
         NEW speed \in Speed, Handle(t, speed), Observe(t, speed)
  PROVE  GestureInv' /\ WholeStep
<1>1. t \in Nat /\ t > now /\ now' = t /\ Handle(t, speed)
  OBVIOUS
<1>2. /\ RefractoryPeriod \in Nat /\ FixationDuration \in Nat \ {0}
      /\ SaccadeDuration \in Nat \ {0}
  BY DetectorAssumption
<1>3. /\ stillSince' = IF speed = "still" THEN Started(stillSince, t) ELSE 0
      /\ saccadeSince' = IF speed = "saccade" THEN Started(saccadeSince, t) ELSE 0
  BY DEF Observe
<1>4. /\ saccadeSeen' = (/\ ~Resets(t, speed) /\ lastCapture' = lastCapture
                         /\ \/ saccadeSeen
                            \/ speed = "saccade" /\ t - saccadeSince' >= SaccadeDuration)
      /\ fresh' = (Resets(t, speed) \/ (fresh /\ lastCapture' = lastCapture))
  BY DEF Observe
<1>5. CASE Refractory(t) /\ Ignore
  <2>2. fresh' => fresh
    BY <1>4, <1>5 DEF Resets
  <2>3. lastCapture' = lastCapture /\ state' = state /\ saccadeStart' = saccadeStart
          /\ fixationStart' = fixationStart
    BY <1>5 DEF Ignore, detectorVars
  <2>4. Refractory(now)
    BY <1>1, <1>2, <1>5 DEF Refractory, DetectorTypeOK
  <2>5. fresh => fixationStart = 0 /\ saccadeStart = 0 /\ state # "SACCADE"
    BY <2>4 DEF GestureInv, FixationTrue, SaccadeTrue, StateTrue
  <2> QED BY <2>2, <2>3, <2>5 DEF GestureInv, FixationTrue, SaccadeTrue, StateTrue, WholeStep
<1>6. CASE Resets(t, speed) /\ Reject
  BY <1>6 DEF Reject, GestureInv, FixationTrue, SaccadeTrue, StateTrue, WholeStep
<1>7. CASE ~Refractory(t) /\ speed # "rejected" /\ state = "IDLE" /\ Idle(t, speed)
  <2>1. lastCapture' = lastCapture /\ fixationStart' = fixationStart
    BY <1>7 DEF Idle
  <2>2. fresh' => fresh
    BY <1>4, <1>7 DEF Resets
  <2>3. ~Refractory(now)'
    BY <1>1, <1>7, <2>1 DEF Refractory
  <2>4. fresh => fixationStart = 0
    BY <1>7 DEF GestureInv, FixationTrue
  <2>5. CASE speed = "saccade"
    <3>1. /\ saccadeStart' = Started(saccadeStart, t) /\ saccadeSince' = Started(saccadeSince, t)
          /\ state' = IF t - saccadeStart' >= SaccadeDuration THEN "SACCADE" ELSE "IDLE"
      BY <1>3, <1>7, <2>5 DEF Idle
    <3>2. fresh => saccadeSince' # 0 /\ saccadeSince' <= saccadeStart'
      BY <1>1, <1>7, <3>1 DEF Started, DetectorTypeOK, GestureInv, SaccadeTrue
    <3>3. saccadeStart' \in Nat /\ saccadeSince' \in Nat
      BY <1>1, <3>1 DEF Started, DetectorTypeOK
    <3>4. fresh /\ state' = "SACCADE" => t - saccadeSince' >= SaccadeDuration
      BY <1>1, <1>2, <3>1, <3>2, <3>3
    <3>5. fresh /\ state' = "SACCADE" => saccadeSeen'
      BY <1>4, <1>7, <2>1, <2>5, <3>4 DEF Resets
    <3> QED BY <2>1, <2>2, <2>3, <2>4, <3>2, <3>5
            DEF GestureInv, FixationTrue, SaccadeTrue, StateTrue, WholeStep
  <2>6. CASE speed # "saccade"
    <3>1. saccadeStart' = 0 /\ state' = "IDLE"
      BY <1>7, <2>6 DEF Idle
    <3> QED BY <2>1, <2>2, <2>4, <3>1
            DEF GestureInv, FixationTrue, SaccadeTrue, StateTrue, WholeStep
  <2> QED BY <2>5, <2>6
<1>8. CASE ~Refractory(t) /\ speed # "rejected" /\ state = "SACCADE" /\ Saccade(t, speed)
  <2>0. state = "SACCADE"
    BY <1>8
  <2>1. CASE speed = "still" /\ t - fixationStart' >= FixationDuration
    <3>1. fixationStart' = Started(fixationStart, t) /\ Capture(t)
      BY <1>8, <2>1 DEF Saccade
    <3>2. fixationStart # 0 /\ fixationStart' = fixationStart
      BY <1>1, <1>2, <2>1, <3>1 DEF Started, DetectorTypeOK
    <3>3. lastCapture' # lastCapture
      BY <1>1, <3>1 DEF Capture, DetectorTypeOK
    <3>4. ~fresh'
      BY <1>4, <1>8, <3>3 DEF Resets
    <3>5. fresh => saccadeSeen /\ stillSince # 0 /\ stillSince <= fixationStart
      BY <2>0, <3>2 DEF GestureInv, FixationTrue, StateTrue
    <3>6. fresh => t - stillSince >= FixationDuration
      BY <1>1, <1>2, <2>1, <3>2, <3>5 DEF DetectorTypeOK
    <3> QED BY <1>1, <3>4, <3>5, <3>6 DEF GestureInv, WholeStep
  <2>2. CASE ~(speed = "still" /\ t - fixationStart' >= FixationDuration)
    <3>1. /\ lastCapture' = lastCapture /\ state' = state /\ saccadeStart' = saccadeStart
          /\ fixationStart' = IF speed = "still" THEN Started(fixationStart, t) ELSE 0
      BY <1>8, <2>2 DEF Saccade
    <3>2. (fresh' => fresh) /\ (saccadeSeen => saccadeSeen')
      BY <1>4, <1>8, <3>1 DEF Resets
    <3>3. ~Refractory(now)'
      BY <1>1, <1>8, <3>1 DEF Refractory
    <3>4. fresh /\ fixationStart' # 0 => stillSince' # 0 /\ stillSince' <= fixationStart'
      BY <1>1, <1>3, <3>1 DEF Started, DetectorTypeOK, GestureInv, FixationTrue
    <3> QED BY <2>0, <3>1, <3>2, <3>3, <3>4
            DEF GestureInv, FixationTrue, SaccadeTrue, StateTrue, WholeStep
  <2> QED BY <2>1, <2>2
<1> QED BY <1>1, <1>5, <1>6, <1>7, <1>8 DEF Handle

(* The first capture after the start or after rejected motion follows a    *)
(* whole saccade and a whole fixation (update), for all thresholds.        *)
THEOREM GesturesAreWhole == DetectorSpec => WholeGesture
<1>1. GestureInv /\ DetectorTypeOK /\ [DetectorNext]_gestureVars => GestureInv' /\ [WholeStep]_gestureVars
  <2> SUFFICES ASSUME GestureInv, DetectorTypeOK, [DetectorNext]_gestureVars
               PROVE  GestureInv' /\ [WholeStep]_gestureVars
    OBVIOUS
  <2>1. CASE UNCHANGED gestureVars
    BY <2>1 DEF gestureVars, detectorVars, GestureInv, FixationTrue, SaccadeTrue, StateTrue, Refractory
  <2>2. CASE DetectorNext
    <3>1. PICK dt \in Intervals, speed \in Speed : Update(dt, speed)
      BY <2>2 DEF DetectorNext
    <3>2. GestureInv' /\ WholeStep
      BY <3>1, TimePasses, GestureStep DEF Update
    <3> QED BY <3>2
  <2> QED BY <2>1, <2>2
<1>2. DetectorSpec => [][WholeStep]_gestureVars
  BY <1>1, GestureInit, DetectorTypeCorrect, PTL DEF DetectorSpec
<1> QED BY <1>2 DEF WholeGesture, WholeStep

----------------------------------------------------------------------------
(* The audio trigger.  Unless a restart left a thread of the detector      *)
(* behind, there is one: it alone moves the state, so the state it read is *)
(* the state it changes.                                                   *)
OneLive == \A a, b \in Live : a = b

\* Since _running was cleared the thread has fired at most once, and if it
\* has, it is on its way out.
LateInv ==
  /\ late \in 0 .. 1
  /\ running => late = 0
  /\ late = 1 => \A l \in Live : loop[l] \in {"cool", "top"}

\* Where the thread is while a trigger is pending or being fired, and how long
\* ago the last one fired in each of the states.
StateInv ==
  /\ \A l \in Live :
       /\ loop[l] = "decide" => seen[l].state = astate /\ astate # "TRIGGERED"
       /\ loop[l] = "fire" => astate = "TRIGGERED" /\ quiet >= CoolTicks
       /\ loop[l] = "cool" => astate = "TRIGGERED"
  /\ astate = "TRIGGERED" => \E l \in Live : loop[l] \in {"fire", "cool"}
  /\ astate = "COOLDOWN" => quiet >= age
  /\ astate \in {"IDLE", "DETECTING"} => quiet >= CoolTicks

VoiceInv == TypeOK /\ (~overlap => OneLive /\ LateInv /\ StateInv)

LEMMA TicksType == CoolTicks \in Nat /\ \A t \in 0 .. CoolTicks : Later(t) \in 0 .. CoolTicks
BY TicksAssumption DEF Later

LEMMA VoiceInit == Init => VoiceInv
<1>. SUFFICES ASSUME Init PROVE VoiceInv
  OBVIOUS
<1>1. TypeOK
  <2>1. age \in 0 .. CoolTicks /\ quiet \in 0 .. CoolTicks /\ late \in Nat
    BY TicksType DEF Init, TriggerInit
  <2>2. \A c \in Loops \cup Handlers : mic # c
    BY SlotsAssumption DEF Init, TriggerInit
  <2>3. seen \in [Loops -> [loud : BOOLEAN, state : States]] /\ astate \in States
    BY DEF Init, TriggerInit, States, Unseen
  <2>4. {hasMic, stopEvent, overlap} \subseteq BOOLEAN /\ running \in BOOLEAN
    BY DEF Init, TriggerInit
  <2>. QED
    BY <2>1, <2>2, <2>3, <2>4 DEF Init, TriggerInit, TypeOK
<1>2. Live = {}
  BY DEF Init, TriggerInit, Live
<1>3. OneLive /\ LateInv /\ StateInv
  BY <1>2, TicksType DEF Init, TriggerInit, OneLive, LateInv, StateInv
<1>. QED
  BY <1>1, <1>3 DEF VoiceInv

\* What the handlers do does not touch the detector's state.
LEMMA DetectorKept ==
  ASSUME VoiceInv, TypeOK', UNCHANGED <<loop, seen, astate, age, quiet, running, late, overlap>>
  PROVE  VoiceInv'
BY DEF VoiceInv, OneLive, LateInv, StateInv, Live

\* Clearing the flag does not either.
LEMMA ClearedInv ==
  ASSUME VoiceInv, TypeOK', running' = FALSE, UNCHANGED <<loop, seen, astate, age, quiet, late, overlap>>
  PROVE  VoiceInv'
BY DEF VoiceInv, OneLive, LateInv, StateInv, Live

LEMMA RunInv == VoiceInv /\ Run => VoiceInv'
<1>. SUFFICES ASSUME VoiceInv, Run PROVE VoiceInv'
  OBVIOUS
<1>0. (CHOOSE l \in Unborn : TRUE) \in Unborn /\ Unborn \subseteq Loops
  BY DEF Run, Unborn
<1>1. PICK l \in Loops : Start(l)
  BY <1>0 DEF Run
<1>2. TypeOK'
  <2>1. /\ runner' = "blocked" /\ overlap' \in BOOLEAN /\ late' = 0
        /\ UNCHANGED <<handler, show, hasMic, hasDisplay, stopEvent, quiet>>
    BY DEF Run, handling, VoiceInv, TypeOK
  <2>. QED
    BY <1>1, <2>1 DEF VoiceInv, TypeOK, Start
<1>3. ASSUME ~overlap' PROVE OneLive' /\ LateInv' /\ StateInv'
  <2>1. Live = {} /\ ~overlap
    BY <1>3 DEF Run, VoiceInv, TypeOK
  <2>2. loop' = [loop EXCEPT ![l] = "top"] /\ Live' = {l} /\ loop'[l] = "top"
    BY <1>1, <2>1 DEF Start, Live, VoiceInv, TypeOK
  <2>3. astate # "TRIGGERED"
    BY <2>1 DEF VoiceInv, StateInv
  <2>. QED
    BY <1>1, <2>1, <2>2, <2>3 DEF Run, Start, VoiceInv, OneLive, LateInv, StateInv
<1>. QED
  BY <1>2, <1>3 DEF VoiceInv

LEMMA ControlInv == VoiceInv /\ (Leave \/ Left \/ Stop) => VoiceInv'
<1>. SUFFICES ASSUME VoiceInv, Leave \/ Left \/ Stop PROVE VoiceInv'
  OBVIOUS
<1>1. TypeOK'
  BY DEF Leave, Left, Stop, ClearRunning, VoiceInv, TypeOK, triggerVars, handling, history
<1>2. CASE Leave \/ Stop
  BY <1>1, <1>2, ClearedInv DEF Leave, Stop, ClearRunning, history
<1>3. CASE Left
  BY <1>1, <1>3, DetectorKept DEF Left, triggerVars, history
<1>. QED
  BY <1>2, <1>3

LEMMA TickInv == VoiceInv /\ Tick => VoiceInv'
<1>. SUFFICES ASSUME VoiceInv, Tick PROVE VoiceInv'
  OBVIOUS
<1>1. TypeOK'
  BY TicksType DEF VoiceInv, TypeOK, Tick, handling, control
<1>2. /\ quiet >= CoolTicks => quiet' >= CoolTicks
      /\ quiet >= age => quiet' >= age'
  BY TicksType DEF VoiceInv, TypeOK, Tick, Later
<1>3. UNCHANGED <<loop, seen, astate, running, late, overlap>> /\ Live' = Live
  BY DEF Tick, Live
<1>. QED
  BY <1>1, <1>2, <1>3 DEF VoiceInv, OneLive, LateInv, StateInv

\* A thread that moves stays the only one.
LEMMA OneLiveKept ==
  ASSUME VoiceInv, NEW l \in Live, NEW pc, Goto(l, pc), pc # "unborn", ~overlap
  PROVE  OneLive' /\ Live' \subseteq {l} /\ loop'[l] = pc /\ (pc # "dead" => l \in Live')
BY DEF VoiceInv, TypeOK, OneLive, Live, Goto

LEMMA TopInv == \A l \in Loops : VoiceInv /\ Top(l) /\ UNCHANGED <<handling, control, history>> => VoiceInv'
<1>. SUFFICES ASSUME NEW l \in Loops, VoiceInv, Top(l), UNCHANGED <<handling, control, history>>
              PROVE  VoiceInv'
  OBVIOUS
<1>1. TypeOK'
  BY SlotsAssumption DEF VoiceInv, TypeOK, Top, Goto, handling, control, history
<1>2. ASSUME ~overlap' PROVE OneLive' /\ LateInv' /\ StateInv'
  <2>1. l \in Live /\ ~overlap
    BY <1>2 DEF Top, Live, history
  <2>2. PICK pc \in {"dead", "burst", "top"} : Goto(l, pc) /\ (pc = "burst" => running)
    BY DEF Top
  <2>3. OneLive' /\ Live' \subseteq {l} /\ loop'[l] = pc
    BY <2>1, <2>2, OneLiveKept
  <2>4. UNCHANGED <<running, seen, astate, age, quiet, late>>
    BY DEF Top, history
  <2>5. Live = {l}
    BY <2>1 DEF VoiceInv, OneLive
  <2>6. astate # "TRIGGERED"
    BY <2>1, <2>5 DEF VoiceInv, StateInv, Top
  <2>7. StateInv'
    BY <2>1, <2>3, <2>4, <2>6 DEF VoiceInv, StateInv
  <2>8. LateInv'
    <3>1. late \in 0 .. 1 /\ (running => late = 0)
      BY <2>1 DEF VoiceInv, LateInv
    <3>2. late = 1 => pc # "burst"
      BY <2>2, <3>1
    <3>3. late = 1 => \A k \in Live' : loop'[k] \in {"cool", "top"}
      BY <2>2, <2>3, <3>2 DEF Live
    <3>. QED
      BY <2>4, <3>1, <3>3 DEF LateInv
  <2>. QED
    BY <2>3, <2>7, <2>8
<1>. QED
  BY <1>1, <1>2 DEF VoiceInv

LEMMA BurstInv ==
  \A l \in Loops : VoiceInv /\ ((\E loud \in BOOLEAN : Burst(l, loud)) \/ BurstFails(l))
                   /\ UNCHANGED <<handling, control, history>> => VoiceInv'
<1>. SUFFICES ASSUME NEW l \in Loops, VoiceInv, (\E loud \in BOOLEAN : Burst(l, loud)) \/ BurstFails(l),
                     UNCHANGED <<handling, control, history>>
              PROVE  VoiceInv'
  OBVIOUS
<1>1. TypeOK'
  BY SlotsAssumption DEF VoiceInv, TypeOK, Burst, BurstFails, Goto, handling, control, history
<1>2. ASSUME ~overlap' PROVE OneLive' /\ LateInv' /\ StateInv'
  <2>1. l \in Live /\ ~overlap /\ loop[l] = "burst"
    BY <1>2 DEF Burst, BurstFails, Live, history
  <2>2. PICK pc \in {"decide", "top"} : Goto(l, pc) /\ (pc = "decide" => seen'[l].state = astate)
    BY DEF Burst, BurstFails, VoiceInv, TypeOK
  <2>3. OneLive' /\ Live' \subseteq {l} /\ loop'[l] = pc
    BY <2>1, <2>2, OneLiveKept
  <2>4. UNCHANGED <<running, astate, age, quiet, late>>
    BY DEF Burst, BurstFails, history
  <2>5. Live = {l}
    BY <2>1 DEF VoiceInv, OneLive
  <2>6. astate # "TRIGGERED" /\ late # 1
    BY <2>1, <2>5 DEF VoiceInv, StateInv, LateInv
  <2>7. StateInv'
    BY <2>1, <2>2, <2>3, <2>4, <2>6 DEF VoiceInv, StateInv
  <2>8. LateInv'
    BY <2>1, <2>4, <2>6 DEF VoiceInv, LateInv
  <2>. QED
    BY <2>3, <2>7, <2>8
<1>. QED
  BY <1>1, <1>2 DEF VoiceInv

\* A burst makes of the state it read the next one, and of no other a trigger.
LEMMA WantedType ==
  ASSUME NEW s \in States, NEW loud \in BOOLEAN, NEW t \in Nat
  PROVE  /\ Wanted(s, loud, t) \in States
         /\ Wanted(s, loud, t) = "TRIGGERED" => s = "DETECTING"
         /\ Wanted(s, loud, t) = "COOLDOWN" => s \in {"COOLDOWN", "TRIGGERED"}
         /\ Wanted(s, loud, t) \in {"IDLE", "DETECTING"} /\ s = "COOLDOWN" => t >= CoolTicks
BY DEF Wanted, States

LEMMA DecideInv == \A l \in Loops : VoiceInv /\ Decide(l) /\ UNCHANGED <<handling, control, history>> => VoiceInv'
<1>. SUFFICES ASSUME NEW l \in Loops, VoiceInv, Decide(l), UNCHANGED <<handling, control, history>>
              PROVE  VoiceInv'
  OBVIOUS
<1>. DEFINE s == seen[l].state
            wanted == Wanted(s, seen[l].loud, age)
<1>1. s \in States /\ seen[l].loud \in BOOLEAN /\ age \in Nat /\ CoolTicks \in Nat
  BY TicksType DEF VoiceInv, TypeOK
<1>2. /\ wanted \in States
      /\ wanted = "TRIGGERED" => s = "DETECTING"
      /\ wanted = "COOLDOWN" => s \in {"COOLDOWN", "TRIGGERED"}
      /\ wanted \in {"IDLE", "DETECTING"} /\ s = "COOLDOWN" => age >= CoolTicks
  BY <1>1, WantedType
<1>3. /\ loop[l] = "decide"
      /\ IF wanted = s THEN UNCHANGED <<astate, age>> ELSE astate' = wanted /\ age' = 0
      /\ Goto(l, IF wanted = "TRIGGERED" THEN "fire" ELSE "top")
      /\ seen' = [seen EXCEPT ![l] = Unseen]
      /\ UNCHANGED <<running, thread, mic>>
  BY DEF Decide, Enter
<1>. HIDE DEF wanted, s
<1>4. TypeOK'
  <2>1. astate' \in States /\ age' \in 0 .. CoolTicks
    BY <1>1, <1>2, <1>3 DEF VoiceInv, TypeOK
  <2>2. seen' \in [Loops -> [loud : BOOLEAN, state : States]]
    BY <1>3 DEF VoiceInv, TypeOK, Unseen, States
  <2>. QED
    BY <1>3, <2>1, <2>2 DEF VoiceInv, TypeOK, Goto, handling, control, history
<1>5. ASSUME ~overlap' PROVE OneLive' /\ LateInv' /\ StateInv'
  <2>1. l \in Live /\ ~overlap
    BY <1>3, <1>5 DEF Live, history
  <2>2. s = astate /\ astate # "TRIGGERED"
    BY <1>3, <2>1 DEF VoiceInv, StateInv, s
  <2>3. PICK pc \in {"fire", "top"} : Goto(l, pc) /\ (pc = "fire" <=> wanted = "TRIGGERED")
    BY <1>3
  <2>4. OneLive' /\ Live' = {l} /\ loop'[l] = pc
    BY <2>1, <2>3, OneLiveKept
  <2>5. quiet' = quiet /\ late' = late /\ running' = running /\ quiet \in Nat
    BY <1>3 DEF history, VoiceInv, TypeOK
  <2>6. astate' = wanted
    BY <1>3, <2>2
  <2>7. /\ astate = "COOLDOWN" => quiet >= age
        /\ astate \in {"IDLE", "DETECTING"} => quiet >= CoolTicks
    BY <2>1 DEF VoiceInv, StateInv
  <2>8. wanted = "TRIGGERED" => quiet >= CoolTicks
    BY <1>2, <2>2, <2>7
  <2>9. wanted = "COOLDOWN" => quiet >= age'
    BY <1>2, <1>3, <2>2, <2>5, <2>7
  <2>10. wanted \in {"IDLE", "DETECTING"} => quiet >= CoolTicks
    BY <1>1, <1>2, <2>2, <2>5, <2>7 DEF States
  <2>11. StateInv'
    BY <2>3, <2>4, <2>5, <2>6, <2>8, <2>9, <2>10 DEF StateInv
  <2>12. LateInv'
    BY <1>3, <2>1, <2>5 DEF VoiceInv, LateInv
  <2>. QED
    BY <2>4, <2>11, <2>12
<1>. QED
  BY <1>4, <1>5 DEF VoiceInv

LEMMA CoolInv == \A l \in Loops : VoiceInv /\ Cool(l) /\ UNCHANGED <<handling, control, history>> => VoiceInv'
<1>. SUFFICES ASSUME NEW l \in Loops, VoiceInv, Cool(l), UNCHANGED <<handling, control, history>>
              PROVE  VoiceInv'
  OBVIOUS
<1>1. TypeOK'
  BY TicksType DEF VoiceInv, TypeOK, Cool, Enter, Goto, States, handling, control, history
<1>2. ASSUME ~overlap' PROVE OneLive' /\ LateInv' /\ StateInv'
  <2>1. l \in Live /\ ~overlap /\ Goto(l, "top")
    BY <1>2 DEF Cool, Live, history
  <2>2. OneLive' /\ Live' = {l} /\ loop'[l] = "top"
    BY <2>1, OneLiveKept
  <2>3. quiet' = quiet /\ late' = late /\ running' = running /\ quiet \in Nat /\ astate' = "COOLDOWN" /\ age' = 0
    BY DEF Cool, Enter, history, VoiceInv, TypeOK
  <2>4. StateInv' /\ LateInv'
    BY <2>1, <2>2, <2>3 DEF VoiceInv, StateInv, LateInv
  <2>. QED
    BY <2>2, <2>4
<1>. QED
  BY <1>1, <1>2 DEF VoiceInv

LEMMA FireInv == \A l \in Loops, h \in Handlers : VoiceInv /\ FireInto(l, h) => VoiceInv'
<1>. SUFFICES ASSUME NEW l \in Loops, NEW h \in Handlers, VoiceInv, FireInto(l, h) PROVE VoiceInv'
  OBVIOUS
<1>1. TypeOK'
  BY TicksType DEF VoiceInv, TypeOK, FireInto, Free, Fire, Goto, control
<1>2. ASSUME ~overlap' PROVE OneLive' /\ LateInv' /\ StateInv'
  <2>1. l \in Live /\ ~overlap /\ Goto(l, "cool") /\ loop[l] = "fire"
    BY <1>2 DEF FireInto, Fire, Live
  <2>2. OneLive' /\ Live' = {l} /\ loop'[l] = "cool"
    BY <2>1, OneLiveKept
  <2>3. UNCHANGED <<astate, age, running>> /\ astate = "TRIGGERED"
    BY <2>1 DEF FireInto, Fire, VoiceInv, StateInv
  <2>4. StateInv'
    BY <2>2, <2>3 DEF StateInv
  <2>5. late = 0 /\ late' = IF running THEN 0 ELSE 1
    BY <2>1 DEF FireInto, VoiceInv, LateInv
  <2>6. LateInv'
    BY <2>2, <2>3, <2>5 DEF LateInv
  <2>. QED
    BY <2>2, <2>4, <2>6
<1>. QED
  BY <1>1, <1>2 DEF VoiceInv

LEMMA HandlerInv == \A h \in Handlers : VoiceInv /\ (Work(h) \/ Draw(h)) => VoiceInv'
<1>. SUFFICES ASSUME NEW h \in Handlers, VoiceInv, Work(h) \/ Draw(h) PROVE VoiceInv'
  OBVIOUS
<1>1. CASE BuildAudio(h)
  <2>1. TypeOK'
    BY <1>1, SlotsAssumption DEF VoiceInv, TypeOK, BuildAudio, At, Goes, OnlyHandler, control, history
  <2>. QED
    BY <1>1, <2>1, DetectorKept DEF BuildAudio, OnlyHandler, history
<1>2. CASE Render(h)
  <2>1. TypeOK'
    BY <1>2, SlotsAssumption DEF VoiceInv, TypeOK, Render, At, Goes, OnlyHandler, control, history
  <2>. QED
    BY <1>2, <2>1, DetectorKept DEF Render, OnlyHandler, history
<1>3. CASE Draw(h)
  <2>1. TypeOK'
    BY <1>3 DEF VoiceInv, TypeOK, Draw, triggerVars, control, history
  <2>. QED
    BY <1>3, <2>1, DetectorKept DEF Draw, triggerVars, history
<1>4. CASE NoText(h)
  <2>1. TypeOK'
    BY <1>4, SlotsAssumption DEF VoiceInv, TypeOK, NoText, At, Goes, OnlyHandler, control, history
  <2>. QED
    BY <1>4, <2>1, DetectorKept DEF NoText, OnlyHandler, history
<1>. QED
  BY <1>1, <1>2, <1>3, <1>4 DEF Work

LEMMA VoiceNext == VoiceInv /\ [Next]_vars => VoiceInv'
<1>. SUFFICES ASSUME VoiceInv, [Next]_vars PROVE VoiceInv'
  OBVIOUS
<1>1. CASE UNCHANGED vars
  <2>1. TypeOK'
    BY <1>1 DEF vars, triggerVars, handling, control, history, VoiceInv, TypeOK
  <2>. QED
    BY <1>1, <2>1, DetectorKept DEF vars, triggerVars, history
<1>2. CASE \E l \in Loops : Listen(l) \/ BurstLost(l)
  BY <1>2, TopInv, BurstInv, DecideInv, CoolInv DEF Listen, BurstLost, Unheard
<1>3. CASE \E l \in Loops, h \in Handlers : FireInto(l, h)
  BY <1>3, FireInv
<1>4. CASE Run \/ Leave \/ Left \/ Stop \/ Tick \/ \E h \in Handlers : Work(h) \/ Draw(h)
  BY <1>4, RunInv, ControlInv, TickInv, HandlerInv
<1>. QED
  BY <1>1, <1>2, <1>3, <1>4 DEF Next

LEMMA VoiceInvariant == Spec => []VoiceInv
BY VoiceInit, VoiceNext, PTL DEF Spec

(* Every variable of the audio trigger and the handlers keeps its type,    *)
(* and the sound card is at any moment with the one thread that records    *)
(* from it, be it the detector's or a handler's.                           *)
THEOREM VoiceTypeCorrect == Spec => []TypeOK
<1>1. VoiceInv => TypeOK
  BY DEF VoiceInv
<1>. QED
  BY <1>1, VoiceInvariant, PTL

(* After stop() cleared _running, the detector fires at most once more.    *)
THEOREM OneTriggerAfterStop == Spec => []OneLateTrigger
<1>1. VoiceInv => OneLateTrigger
  BY DEF VoiceInv, LateInv, OneLateTrigger
<1>. QED
  BY <1>1, VoiceInvariant, PTL

(* Two triggers are a cooldown apart, across stops and starts, unless a    *)
(* restart has left two threads of the detector behind.                    *)
THEOREM TriggersApart == Spec => CooldownHolds
<1>1. VoiceInv /\ [Next]_vars => [(\E l \in Loops : Fires(l)) => quiet >= CoolTicks \/ overlap]_vars
  <2>. SUFFICES ASSUME VoiceInv, ~overlap, NEW l \in Loops, Fires(l) PROVE quiet >= CoolTicks
    OBVIOUS
  <2>1. l \in Live /\ loop[l] = "fire"
    BY DEF Fires, Live
  <2>. QED
    BY <2>1 DEF VoiceInv, StateInv
<1>. QED
  BY <1>1, VoiceInvariant, PTL DEF Spec, CooldownHolds
============================================================================
