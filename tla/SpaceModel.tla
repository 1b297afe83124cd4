----------------------------- MODULE SpaceModel -----------------------------
(***************************************************************************)
(* discovery/space_model.py: what the device has learned about its space,  *)
(* in SQLite tables that outlive the process, and the number of scans      *)
(* since the process started, which does not.  Each method opens a         *)
(* connection of its own, and its statements are one transaction.          *)
(*                                                                         *)
(* Abstracted: names, signal strengths and time stamps of a row; the       *)
(* discovery log is the set of event types in it; windows of one hour are  *)
(* counted up to WindowsNeeded, all that is ever asked of them.            *)
(***************************************************************************)
EXTENDS Integers, FiniteSets

CONSTANTS
  Mac,           \* the Bluetooth addresses
  HourLength,    \* ticks of the clock in an hour
  HoursPerDay,   \* 24 in the code
  WindowsNeeded, \* 2: windows that make an hour an active one
  Lighter        \* diff score, in 1/255, from which a scene is another: 0.3

ASSUME SpaceAssumption ==
  /\ HourLength \in Nat \ {0} /\ HoursPerDay \in Nat \ {0}
  /\ WindowsNeeded \in Nat /\ Lighter \in Nat

VARIABLES
  scans,      \* ble_devices.scans_present; 0 for an address without a row
  infra,      \* ble_devices.is_infrastructure
  windows,    \* activity_windows, by hour of the day
  scene,      \* diff score of the latest scene snapshot, -1 if there is none
  log,        \* discovery_log
  scanCount   \* self._scan_count, of this process

tables == <<scans, infra, windows, scene, log>>

Hour == 0 .. HoursPerDay - 1
HourOf(t) == (t \div HourLength) % HoursPerDay

EventType == {"SENSOR_ERROR", "NEW_INFRASTRUCTURE_DEVICE"}

SpaceTypeOK ==
  /\ scans \in [Mac -> Nat] /\ infra \in [Mac -> BOOLEAN]
  /\ windows \in [Hour -> 0 .. WindowsNeeded]
  /\ scene \in -1 .. 255
  /\ log \subseteq EventType
  /\ scanCount \in Nat

EmptyTables ==
  /\ scans = [m \in Mac |-> 0] /\ infra = [m \in Mac |-> FALSE]
  /\ windows = [h \in Hour |-> 0]
  /\ scene = -1 /\ log = {}

----------------------------------------------------------------------------
Known == {m \in Mac : scans[m] > 0}           \* get_all_ble_devices
Infrastructure == {m \in Known : infra[m]}

\* Present in at least 80 % of the scans, of which this is the latest: the rows
\* count those of all processes, scanCount those of this one.
Always(m) == 5 * (scans[m] + 1) >= 4 * (scanCount + 1)

\* A scan heard an address whose row it turns into infrastructure.
Classifies(heard) == \E m \in heard \cap Known : Always(m) /\ ~infra[m]

\* update_ble_with_names: a first row is never infrastructure.
UpdateBle(heard) ==
  /\ ~Classifies(heard)
  /\ scanCount' = scanCount + 1
  /\ scans' = [m \in Mac |-> IF m \in heard THEN scans[m] + 1 ELSE scans[m]]
  /\ infra' = [m \in Mac |-> IF m \in heard \cap Known THEN Always(m) ELSE infra[m]]
  /\ UNCHANGED <<windows, scene, log>>

\* log_discovery writes through a second connection, which waits for the lock that
\* this transaction holds until it gives up: OperationalError, and all is rolled back.
UpdateBleLocked(heard) ==
  /\ Classifies(heard)
  /\ scanCount' = scanCount + 1
  /\ UNCHANGED tables

\* update_activity_full
UpdateActivity(t) ==
  /\ windows' = [windows EXCEPT ![HourOf(t)] = IF @ < WindowsNeeded THEN @ + 1 ELSE @]
  /\ UNCHANGED <<scans, infra, scene, log, scanCount>>

UpdateScene(diff) ==
  /\ scene' = diff
  /\ UNCHANGED <<scans, infra, windows, log, scanCount>>

LogDiscovery(type) ==
  /\ log' = log \cup {type}
  /\ UNCHANGED <<scans, infra, windows, scene, scanCount>>

\* get_space_summary: hours with at least two windows.
ActiveHours == {h \in Hour : windows[h] >= WindowsNeeded}
============================================================================
