--------------------------- MODULE DiscoveryLoop ---------------------------
(***************************************************************************)
(* discovery/discovery_loop.py with the anomaly detector                   *)
(* (anomaly_detector.py) and the reports (discovery_report.py): a daemon   *)
(* that senses what is due, updates the world model and the space model,   *)
(* looks for anomalies, reports and sleeps.  A signal asks it to stop, and *)
(* it may be killed at any point; the tables survive.                      *)
(*                                                                         *)
(* An action is one sensor call, one transaction, the check, or one        *)
(* report.  Abstracted: what a sensor reads is one of a few readings;      *)
(* sensing takes no time of its own, but a cycle's sleep takes one tick or *)
(* more; a report is the anomalies in it, and it is out when it has been   *)
(* written to a file or handed to the thread that posts it, whose own      *)
(* failures are left out.                                                  *)
(***************************************************************************)
EXTENDS AnomalyDetector, WorldModel

CONSTANTS
  Named,                                 \* known_ble_map: the addresses with a name
  Sound, View,                           \* what microphone and camera may read
  BleConfidence,                         \* of a scan that hears something
  BleInterval, AudioInterval, CameraInterval, ReportInterval,
  Setups,                                \* sensors in use and duration of a session
  CycleTicks,                            \* how long a cycle may take
  MaxTime, MaxSessions                   \* bounds

ASSUME LoopAssumption ==
  /\ Named \subseteq Mac
  /\ {"ambient", "person"} \X {"audio", "visual"} \subseteq Entity
  /\ {"ble", "known"} \X Mac \subseteq Entity
  /\ \A s \in Sound : s.class \in {"silence", "noise", "speech", "loud"} /\ s.confidence \in Percent
  /\ \A v \in View : v.mean \in 0 .. 255 /\ v.confidence \in Percent /\ v.people \in BOOLEAN
  /\ BleConfidence \in Percent
  /\ {BleInterval, AudioInterval, CameraInterval, ReportInterval} \subseteq Nat
  /\ MinBaselineScans \in Nat /\ PatternHours \in Nat
  /\ \A c \in Setups : c.sensors \subseteq {"ble", "mic", "camera"} /\ c.duration \in Nat
  /\ CycleTicks \subseteq Nat \ {0} /\ MaxTime \in Nat /\ MaxSessions \in Nat

VARIABLES
  setup,        \* the flags of the daemon, which never change
  now,          \* the clock
  sessions,     \* how often the daemon was started
  running,      \* self._running
  pc,           \* where the loop is
  started,      \* self._start_ms
  last,         \* the times _last_ble_s, _last_audio_s, _last_camera_s, _last_report_s
  due,          \* what is due in this cycle
  prox, sound, view, \* this cycle's readings
  baseline,     \* self._baseline_mean_px
  anomalies,    \* self._session_anomalies
  reported,     \* the anomalies in a report of this session that got out
  lost,         \* those that every report so far failed with
  found,        \* history: what the latest check found
  heardBefore   \* history: the latest scan of this session that was checked

spaceVars == <<tables, scanCount>>
session == <<setup, sessions, running, started>>
timing == <<last, due>>
readings == <<prox, sound, view>>
findings == <<previousMacs, anomalies, reported, lost, found, heardBefore>>
vars == <<spaceVars, worldVars, session, now, pc, timing, readings, baseline, findings>>

Channel == {"ble", "audio", "camera", "report"}
Interval == [c \in Channel |-> CASE c = "ble" -> BleInterval [] c = "audio" -> AudioInterval
                                 [] c = "camera" -> CameraInterval [] OTHER -> ReportInterval]

Place == {"down", "top", "ble", "audio", "camera", "world", "space_ble", "space_audio",
          "space_scene", "check", "anomaly_report", "report", "sleep", "finalize", "exit"}

TypeOK ==
  /\ SpaceTypeOK /\ WorldTypeOK
  /\ setup \in Setups /\ now \in Nat /\ started \in Nat /\ sessions \in 0 .. MaxSessions
  /\ running \in BOOLEAN /\ pc \in Place
  /\ last \in [Channel -> Int] /\ due \subseteq Channel
  /\ prox = None \/ prox \subseteq Mac
  /\ sound = None \/ sound \in Sound
  /\ view = None \/ view \in View
  /\ baseline = None \/ baseline \in 0 .. 255
  /\ previousMacs \subseteq Mac /\ heardBefore \subseteq Mac
  /\ anomalies \subseteq Anomaly /\ found \subseteq Anomaly
  /\ reported \subseteq Anomaly /\ lost \subseteq Anomaly

\* What a process kept in memory is gone.
EndProcess ==
  /\ pc' = "down" /\ running' = FALSE /\ started' = 0
  /\ scanCount' = 0 /\ ForgetWorld
  /\ last' = [c \in Channel |-> 0] /\ due' = {}
  /\ prox' = None /\ sound' = None /\ view' = None /\ baseline' = None
  /\ previousMacs' = {} /\ anomalies' = {} /\ found' = {} /\ heardBefore' = {}
  /\ reported' = {} /\ lost' = {}
  /\ UNCHANGED <<tables, setup, sessions, now>>

Init ==
  /\ EmptyTables /\ scanCount = 0 /\ EmptyWorld
  /\ setup \in Setups /\ now = 0 /\ started = 0 /\ sessions = 0
  /\ running = FALSE /\ pc = "down"
  /\ last = [c \in Channel |-> 0] /\ due = {}
  /\ prox = None /\ sound = None /\ view = None /\ baseline = None
  /\ previousMacs = {} /\ anomalies = {} /\ found = {} /\ heardBefore = {}
  /\ reported = {} /\ lost = {}

----------------------------------------------------------------------------
(* start(), stop() by a signal, and the loop's head.                       *)

\* Everything is due at once.
Start ==
  /\ pc = "down" /\ sessions < MaxSessions
  /\ sessions' = sessions + 1
  /\ running' = TRUE /\ pc' = "top" /\ started' = now
  /\ last' = [c \in Channel |-> now - Interval[c]]
  /\ UNCHANGED <<spaceVars, worldVars, setup, now, due, readings, baseline, findings>>

\* stop(), or a signal, at any moment.
Stop ==
  /\ pc # "down" /\ running
  /\ running' = FALSE
  /\ UNCHANGED <<spaceVars, worldVars, setup, sessions, started, now, pc, timing, readings, baseline, findings>>

\* The process is killed, or the power fails.
Crash == pc # "down" /\ EndProcess

OverTime == setup.duration > 0 /\ now - started >= setup.duration

\* Deliberate fault: the flag is not looked at.
Top_Unstoppable ==
  /\ pc = "top"
  /\ IF OverTime
     THEN pc' = "finalize" /\ UNCHANGED due
     ELSE pc' = "ble" /\ due' = {c \in Channel : now - last[c] >= Interval[c]}
  /\ UNCHANGED <<spaceVars, worldVars, session, now, last, readings, baseline, findings>>

Top ==
  /\ pc = "top"
  /\ IF ~running \/ OverTime
     THEN pc' = "finalize" /\ UNCHANGED due
     ELSE pc' = "ble" /\ due' = {c \in Channel : now - last[c] >= Interval[c]}
  /\ UNCHANGED <<spaceVars, worldVars, session, now, last, readings, baseline, findings>>

----------------------------------------------------------------------------
(* The sensors that are due and in use.  One that raises is logged and     *)
(* reads nothing; its next turn comes an interval later all the same.      *)

Logged(reading) ==
  IF reading = None THEN LogDiscovery("SENSOR_ERROR") ELSE UNCHANGED spaceVars

Taken(c) == last' = [last EXCEPT ![c] = now]

\* A scan whose radio fails is not an error: it heard nothing.
ScanBle ==
  /\ pc = "ble" /\ pc' = "audio"
  /\ \/ /\ "ble" \in due /\ "ble" \in setup.sensors
        /\ \E heard \in (SUBSET Mac) \cup {None} :
             /\ prox' = heard /\ Logged(heard) /\ Taken("ble")
     \/ /\ ~("ble" \in due /\ "ble" \in setup.sensors)
        /\ UNCHANGED <<spaceVars, last, prox>>
  /\ UNCHANGED <<worldVars, session, now, due, sound, view, baseline, findings>>

SampleAudio ==
  /\ pc = "audio" /\ pc' = "camera"
  /\ \/ /\ "audio" \in due /\ "mic" \in setup.sensors
        /\ \E s \in Sound \cup {None} : sound' = s /\ Logged(s) /\ Taken("audio")
     \/ /\ ~("audio" \in due /\ "mic" \in setup.sensors)
        /\ UNCHANGED <<spaceVars, last, sound>>
  /\ UNCHANGED <<worldVars, session, now, due, prox, view, baseline, findings>>

CaptureScene ==
  /\ pc = "camera" /\ pc' = "world"
  /\ \/ /\ "camera" \in due /\ "camera" \in setup.sensors
        /\ \E v \in View \cup {None} : view' = v /\ Logged(v) /\ Taken("camera")
     \/ /\ ~("camera" \in due /\ "camera" \in setup.sensors)
        /\ UNCHANGED <<spaceVars, last, view>>
  /\ UNCHANGED <<worldVars, session, now, due, prox, sound, baseline, findings>>

----------------------------------------------------------------------------
(* What was read goes to the world model, and then, in one transaction     *)
(* for each channel, to the space model.                                   *)

Stronger(a, b) == IF a > b THEN a ELSE b
Weaker(a, b) == IF a < b THEN a ELSE b

\* _extract_entities: the entities of a context, each with its confidence.
Heard == IF sound = None THEN <<>> ELSE
  [e \in {<<"ambient", "audio">>} \cup {p \in {<<"person", "audio">>} : sound.class = "speech"}
     |-> IF e[1] = "ambient" THEN Stronger(30, sound.confidence) ELSE sound.confidence]
Seen == IF view = None THEN <<>> ELSE
  [e \in {<<"ambient", "visual">>} \cup {p \in {<<"person", "visual">>} : view.people}
     |-> IF e[1] = "ambient" THEN view.confidence ELSE (view.confidence * 8) \div 10]
InRange == IF prox = None THEN <<>> ELSE
  [e \in ({"ble"} \X prox) \cup ({"known"} \X (prox \cap Named))
     |-> IF e[1] = "ble" THEN BleConfidence ELSE Weaker(100, BleConfidence + 10)]
Extracted == [e \in DOMAIN Heard \cup DOMAIN Seen \cup DOMAIN InRange |->
                IF e \in DOMAIN Heard THEN Heard[e] ELSE IF e \in DOMAIN Seen THEN Seen[e] ELSE InRange[e]]

SensedNothing == prox = None /\ sound = None /\ view = None

UpdateModel ==
  /\ pc = "world"
  /\ IF SensedNothing
     THEN pc' = "report" /\ UNCHANGED worldVars
     ELSE pc' = "space_ble" /\ UpdateWorld(now, Extracted)
  /\ UNCHANGED <<spaceVars, session, now, timing, readings, baseline, findings>>

RecordScan ==
  /\ pc = "space_ble" /\ pc' = "space_audio"
  /\ IF prox = None THEN UNCHANGED spaceVars ELSE UpdateBle(prox)
  /\ UNCHANGED <<worldVars, session, now, timing, readings, baseline, findings>>

\* The exception leaves the loop: start() has only a finally.
RecordScanRaises ==
  /\ pc = "space_ble" /\ pc' = "finalize"
  /\ prox # None /\ UpdateBleLocked(prox)
  /\ UNCHANGED <<worldVars, session, now, timing, readings, baseline, findings>>

RecordActivity ==
  /\ pc = "space_audio" /\ pc' = "space_scene"
  /\ IF sound = None THEN UNCHANGED spaceVars ELSE UpdateActivity(now)
  /\ UNCHANGED <<worldVars, session, now, timing, readings, baseline, findings>>

Diff == IF baseline = None THEN 0
        ELSE IF view.mean > baseline THEN view.mean - baseline ELSE baseline - view.mean

RecordScene ==
  /\ pc = "space_scene" /\ pc' = "check"
  /\ IF view = None THEN UNCHANGED <<spaceVars, baseline>>
     ELSE UpdateScene(Diff) /\ baseline' = IF baseline = None THEN view.mean ELSE baseline
  /\ UNCHANGED <<worldVars, session, now, timing, readings, findings>>

----------------------------------------------------------------------------
(* Anomalies and reports.                                                  *)

\* Deliberate fault: an anomaly waits for the next scheduled report.
Check_Waits ==
  /\ pc = "check"
  /\ found' = Found(prox, sound, view, now)
  /\ anomalies' = anomalies \cup found'
  /\ pc' = "report"
  /\ Remember(prox)
  /\ heardBefore' = IF prox = None THEN heardBefore ELSE prox
  /\ UNCHANGED <<spaceVars, worldVars, session, now, timing, readings, baseline, reported, lost>>

Check ==
  /\ pc = "check"
  /\ found' = Found(prox, sound, view, now)
  /\ anomalies' = anomalies \cup found'
  /\ pc' = IF found' = {} THEN "report" ELSE "anomaly_report"
  /\ Remember(prox)
  /\ heardBefore' = IF prox = None THEN heardBefore ELSE prox
  /\ UNCHANGED <<spaceVars, worldVars, session, now, timing, readings, baseline, reported, lost>>

\* _push_report: build_report takes all anomalies of the session, those of a report
\* that failed with them.  A failure to build or to write it is logged, and no more.
PushReport ==
  \/ reported' = reported \cup anomalies /\ lost' = lost \ anomalies
  \/ lost' = lost \cup (anomalies \ reported) /\ UNCHANGED reported

\* The report counts as made, whether or not it got out.
ReportAnomalies ==
  /\ pc = "anomaly_report" /\ pc' = "report"
  /\ PushReport /\ Taken("report")
  /\ UNCHANGED <<spaceVars, worldVars, session, now, due, readings, baseline, previousMacs, anomalies, found, heardBefore>>

\* What was due at the head of the cycle is due here, whether or not an anomaly has
\* been reported since.
Report ==
  /\ pc = "report" /\ pc' = "sleep"
  /\ IF "report" \in due THEN PushReport /\ Taken("report")
                          ELSE UNCHANGED <<reported, lost, last>>
  /\ UNCHANGED <<spaceVars, worldVars, session, now, due, readings, baseline, previousMacs, anomalies, found, heardBefore>>

\* The next cycle starts without readings.
Sleep ==
  /\ pc = "sleep" /\ pc' = "top"
  /\ \E d \in CycleTicks : now' = Weaker(MaxTime, now + d)
  /\ due' = {} /\ found' = {}
  /\ prox' = None /\ sound' = None /\ view' = None
  /\ UNCHANGED <<spaceVars, worldVars, session, last, baseline, previousMacs, anomalies,
                 reported, lost, heardBefore>>

\* _finalize, also when the loop was left by an exception: a last report.
PushFinal ==
  /\ pc = "finalize" /\ pc' = "exit"
  /\ PushReport
  /\ UNCHANGED <<spaceVars, worldVars, session, now, timing, readings, baseline, previousMacs,
                 anomalies, found, heardBefore>>

Exit == pc = "exit" /\ EndProcess

----------------------------------------------------------------------------
Cycle == \/ Top \/ ScanBle \/ SampleAudio \/ CaptureScene \/ UpdateModel
         \/ RecordScan \/ RecordScanRaises \/ RecordActivity \/ RecordScene
         \/ Check \/ ReportAnomalies \/ Report \/ Sleep \/ PushFinal \/ Exit

Next == Start \/ Stop \/ Crash \/ Cycle

Fairness == WF_vars(Cycle)

Spec == Init /\ [][Next]_vars /\ Fairness

----------------------------------------------------------------------------
(* Once there is a baseline, a check that has a scan reports as departed    *)
(* exactly the devices heard in the scan before it in this session and not  *)
(* in it, and as appeared exactly those of it that the scan before did not  *)
(* hear, also one that no scan ever heard before: the loop records a scan   *)
(* before it checks it, so the device is already known.  None is missed     *)
(* because the scan before was made while there was no baseline, or had     *)
(* other sensors' cycles after it.                                          *)
PresenceReported ==
  [][pc = "check" /\ pc' # "down" /\ pc' # pc /\ prox # None /\ scanCount >= MinBaselineScans
     => \A m \in Mac :
          /\ <<"KNOWN_DEVICE_DEPARTED", m>> \in found' <=> m \in heardBefore \ prox
          /\ <<"KNOWN_DEVICE_APPEARED", m>> \in found' <=> m \in prox \ heardBefore]_vars

(* When a cycle is over, or the session has ended of itself, an anomaly of  *)
(* the session that no report contains is one that every report made since  *)
(* it was found failed with: none waits for a report that is still to be    *)
(* made, and the first report that gets out has it.                         *)
AnomaliesReported == pc \in {"sleep", "top", "exit"} => anomalies \subseteq reported \cup lost

(* A session that is asked to stop, or whose loop was left by an exception, *)
(* comes to its end, whatever the sensors do.                               *)
SessionsEnd == (pc # "down" /\ ~running) \/ pc = "finalize" ~> pc = "down"

(* discovery_loop.py:205 and seven more comments: one cycle's failure must  *)
(* not stop the daemon.  The loop is left only when it was asked to stop or *)
(* its time is over.                                                        *)
DaemonSurvives == [][pc # "finalize" /\ pc' = "finalize" => ~running \/ OverTime]_vars
============================================================================
