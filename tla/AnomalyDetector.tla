-------------------------- MODULE AnomalyDetector --------------------------
(***************************************************************************)
(* discovery/anomaly_detector.py: compares the latest readings with the    *)
(* tables of the space model and with the scan before.                     *)
(*                                                                         *)
(* An anomaly is a type with the address it is about.  Readings are        *)
(* None, or a set of addresses (prox), a sound and a view; descriptions    *)
(* and confidences are left out, and unusual_hour_window is not set.       *)
(***************************************************************************)
EXTENDS SpaceModel

CONSTANTS
  None,              \* no reading
  MinBaselineScans,  \* scans of this process before anomalies are looked for
  PatternHours       \* 5: active hours that make a pattern

VARIABLE previousMacs  \* self._previous_macs

DeviceEvent == {"NEW_UNKNOWN_DEVICE", "KNOWN_DEVICE_APPEARED", "KNOWN_DEVICE_DEPARTED"}
SpaceEvent == {"SPEECH_IN_EMPTY_SPACE", "SCENE_CHANGE", "UNUSUAL_HOUR_ACTIVITY"}
Anomaly == (DeviceEvent \X Mac) \cup (SpaceEvent \X {None})

\* _sync_known_macs runs first in check(), so _known_macs and _infra_macs are what the
\* tables hold now.  The same table is then read again for devices that are newly
\* infrastructure, of which there are none: NEW_INFRASTRUCTURE_DEVICE never comes.
CheckBle(prox) ==
  IF prox = None THEN {} ELSE
     ({"NEW_UNKNOWN_DEVICE"} \X (prox \ Known))
     \cup ({"KNOWN_DEVICE_APPEARED"} \X ((prox \cap (Known \ previousMacs)) \ Infrastructure))
     \cup ({"KNOWN_DEVICE_DEPARTED"} \X (((previousMacs \cap Known) \ prox) \ Infrastructure))

\* Devices heard beyond the infrastructure, wherever that is now.
NonInfra(prox) == (IF prox = None THEN 0 ELSE Cardinality(prox)) - Cardinality(Infrastructure)

Speaks(sound) == sound # None /\ sound.class = "speech"
When(condition, type) == IF condition THEN {<<type, None>>} ELSE {}

CheckSpeech(prox, sound) == When(Speaks(sound) /\ NonInfra(prox) <= 0, "SPEECH_IN_EMPTY_SPACE")

\* The latest snapshot, whichever session took it.
CheckScene(view) == When(view # None /\ scene > Lighter, "SCENE_CHANGE")

CheckHour(prox, sound, t) ==
  When(/\ Cardinality(ActiveHours) >= PatternHours
       /\ HourOf(t) \notin ActiveHours
       /\ Speaks(sound) \/ NonInfra(prox) > 0, "UNUSUAL_HOUR_ACTIVITY")

\* check(), for a context that was assembled: nothing before there is a baseline, but
\* the scan is remembered all the same.
Found(prox, sound, view, t) ==
  IF scanCount < MinBaselineScans THEN {}
  ELSE CheckBle(prox) \cup CheckSpeech(prox, sound) \cup CheckScene(view)
       \cup CheckHour(prox, sound, t)

\* Deliberate fault: nothing is remembered while there is no baseline.
Remember_Baseline(prox) ==
  previousMacs' = IF prox = None \/ scanCount < MinBaselineScans THEN previousMacs ELSE prox

Remember(prox) == previousMacs' = IF prox = None THEN previousMacs ELSE prox

============================================================================
