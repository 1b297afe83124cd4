------------------------ MODULE DiscoveryLoopProofs ------------------------
(***************************************************************************)
(* No entity is lost by the world model or listed twice, for any entities, *)
(* half-lives and observations, however long between them; and of the      *)
(* discovery loop: what it tells of devices that come and go is exact, and *)
(* no anomaly of a cycle is left out of the reports.                       *)
(***************************************************************************)
EXTENDS DiscoveryLoop, TLAPS

----------------------------------------------------------------------------
(* The world model.                                                        *)
WorldInv == WorldTypeOK /\ EntitiesTracked

\* A confidence that has faded stays faded: it only decays.
LEMMA FadedForGood ==
  ASSUME NEW c \in Percent, NEW h \in Nat \ {0}, NEW a \in Int, NEW b \in Int,
         a <= b, Faded(c, a, h)
  PROVE  Faded(c, b, h)
<1>1. CASE a >= h
  BY <1>1 DEF Faded
<1>2. CASE c * (h - a) < Floor * h
  <2>1. c \in Nat /\ h - b <= h - a /\ h - b \in Int /\ h - a \in Int
    BY DEF Percent
  <2>2. c * (h - b) <= c * (h - a)
    BY <2>1
  <2>3. c * (h - b) \in Int /\ c * (h - a) \in Int /\ Floor * h \in Int
    BY <2>1 DEF Floor
  <2>. QED
    BY <1>2, <2>2, <2>3 DEF Faded
<1>. QED
  BY <1>1, <1>2 DEF Faded

LEMMA WorldInvInit == EmptyWorld => WorldInv
BY DEF EmptyWorld, WorldInv, WorldTypeOK, EntitiesTracked, Percent

LEMMA WorldInvForget == ForgetWorld => WorldInv'
BY DEF ForgetWorld, WorldInv, WorldTypeOK, EntitiesTracked, Percent

\* An update moves each entity to the dictionary its confidence puts it in.
LEMMA WorldInvUpdate ==
  ASSUME WorldInv, NEW t \in Nat, NEW obs \in Observations, t >= lastUpdated,
         UpdateWorld(t, obs)
  PROVE  WorldInv'
<1>. DEFINE active == entityStates \cup DOMAIN obs
            faded == {e \in active : Faded(initial'[e], t - lastSeen'[e], HalfLife(e))}
<1>1. DOMAIN obs \subseteq Entity /\ \A e \in DOMAIN obs : obs[e] \in Percent
  BY DEF Observations
<1>2. /\ lastSeen' = [e \in Entity |-> IF e \in DOMAIN obs THEN t ELSE lastSeen[e]]
      /\ initial' = [e \in Entity |-> IF e \in DOMAIN obs THEN obs[e] ELSE initial[e]]
      /\ lastUpdated' = t
      /\ observed' = observed \cup DOMAIN obs
  BY DEF UpdateWorld, UpdateEntities
<1>3. entityStates \subseteq Entity /\ lastKnown \subseteq Entity /\ observed \subseteq Entity
  BY DEF WorldInv, WorldTypeOK
<1>4. entityStates' = active \ faded /\ lastKnown' = (lastKnown \ DOMAIN obs) \cup faded
  BY <1>1, <1>2, <1>3 DEF UpdateWorld, UpdateEntities
<1>5. WorldTypeOK'
  <2>1. lastSeen' \in [Entity -> Nat] /\ initial' \in [Entity -> Percent]
    BY <1>1, <1>2 DEF WorldInv, WorldTypeOK
  <2>. QED
    BY <2>1, <1>1, <1>2, <1>3, <1>4 DEF WorldTypeOK
<1>6. entityStates' \cap lastKnown' = {} /\ entityStates' \cup lastKnown' = observed'
  BY <1>2, <1>4 DEF WorldInv, EntitiesTracked
<1>7. ASSUME NEW e \in observed'
      PROVE  e \in entityStates' <=> ~Faded(initial'[e], lastUpdated' - lastSeen'[e], HalfLife(e))
  <2>1. CASE e \in active
    BY <2>1, <1>2, <1>4
  <2>2. CASE e \notin active
    <3>1. e \in lastKnown /\ e \in Entity /\ e \in observed /\ e \notin entityStates
      BY <2>2, <1>2, <1>3 DEF WorldInv, EntitiesTracked
    <3>2. initial'[e] = initial[e] /\ lastSeen'[e] = lastSeen[e]
      BY <2>2, <3>1, <1>2
    <3>3. Faded(initial[e], lastUpdated - lastSeen[e], HalfLife(e))
      BY <3>1 DEF WorldInv, EntitiesTracked
    <3>4. /\ initial[e] \in Percent /\ HalfLife(e) \in Nat \ {0}
          /\ lastUpdated - lastSeen[e] \in Int /\ t - lastSeen[e] \in Int
          /\ lastUpdated - lastSeen[e] <= t - lastSeen[e]
      BY <3>1, WorldAssumption DEF WorldInv, WorldTypeOK
    <3>5. Faded(initial[e], t - lastSeen[e], HalfLife(e))
      BY <3>3, <3>4, FadedForGood
    <3>. QED
      BY <2>2, <3>2, <3>5, <1>2, <1>4
  <2>. QED
    BY <2>1, <2>2
<1>. QED
  BY <1>5, <1>6, <1>7 DEF WorldInv, EntitiesTracked

----------------------------------------------------------------------------
(* Whatever was observed is in exactly one of the two dictionaries, and in  *)
(* the active one exactly while its confidence has not faded: of all the    *)
(* updates and resets of world_model.py.                                    *)
THEOREM WorldTracksEntities == WorldSpec => []EntitiesTracked
<1>1. WorldInv /\ [WorldNext]_worldVars => WorldInv'
  <2>. SUFFICES ASSUME WorldInv, [WorldNext]_worldVars PROVE WorldInv'
    OBVIOUS
  <2>1. CASE WorldNext
    BY <2>1, WorldInvUpdate, WorldInvForget DEF WorldNext
  <2>2. CASE UNCHANGED worldVars
    BY <2>2 DEF worldVars, WorldInv, WorldTypeOK, EntitiesTracked
  <2>. QED
    BY <2>1, <2>2
<1>2. WorldInv => EntitiesTracked
  BY DEF WorldInv
<1>. QED
  BY WorldInvInit, <1>1, <1>2, PTL DEF WorldSpec

----------------------------------------------------------------------------
(* The loop.  The clock never goes back, so an update is never older than  *)
(* the one before; every device of a checked scan has a row, since that    *)
(* scan was recorded first and rows are never deleted; no row is ever      *)
(* infrastructure, since the transaction that would make it so is rolled   *)
(* back; and an anomaly waits for no report, except where it was found.    *)
ClockInv == now <= MaxTime /\ lastUpdated <= now

PresenceInv ==
  /\ previousMacs = heardBefore /\ heardBefore \subseteq Known
  /\ pc \in {"space_audio", "space_scene", "check"} /\ prox # None => prox \subseteq Known

NoInfrastructure == \A m \in Mac : ~infra[m]

ReportInv == pc # "anomaly_report" => anomalies \subseteq reported \cup lost

LoopInv == TypeOK /\ ClockInv /\ EntitiesTracked /\ PresenceInv /\ NoInfrastructure /\ ReportInv

LEMMA LoopInvInit == Init => LoopInv
<1>. SUFFICES ASSUME Init PROVE LoopInv
  OBVIOUS
<1>1. WorldInv
  BY WorldInvInit DEF Init
<1>2. SpaceTypeOK /\ NoInfrastructure
  BY SpaceAssumption DEF Init, EmptyTables, SpaceTypeOK, NoInfrastructure
<1>3. TypeOK
  <2>1. 0 \in 0 .. MaxSessions /\ 0 \in Nat /\ last \in [Channel -> Int]
    BY LoopAssumption DEF Init
  <2>. QED
    BY <1>1, <1>2, <2>1 DEF WorldInv, Init, TypeOK, Place
<1>4. ClockInv
  BY LoopAssumption DEF Init, EmptyWorld, ClockInv
<1>. QED
  BY <1>1, <1>2, <1>3, <1>4 DEF WorldInv, LoopInv, Init, PresenceInv, ReportInv

\* What the steps that leave the tables and the world model alone keep.
LEMMA TablesKept ==
  ASSUME LoopInv, UNCHANGED <<spaceVars, worldVars>>
  PROVE  SpaceTypeOK' /\ WorldTypeOK' /\ EntitiesTracked' /\ Known' = Known /\ NoInfrastructure'
BY DEF LoopInv, TypeOK, spaceVars, tables, worldVars, SpaceTypeOK, WorldTypeOK, EntitiesTracked, Known, NoInfrastructure

LEMMA LoggedKeeps ==
  ASSUME LoopInv, NEW reading, Logged(reading)
  PROVE  SpaceTypeOK' /\ Known' = Known /\ NoInfrastructure'
BY DEF LoopInv, TypeOK, Logged, LogDiscovery, spaceVars, tables, SpaceTypeOK, EventType, Known, NoInfrastructure

LEMMA WorldKept ==
  ASSUME LoopInv, UNCHANGED worldVars
  PROVE  WorldTypeOK' /\ EntitiesTracked'
BY DEF LoopInv, TypeOK, worldVars, WorldTypeOK, EntitiesTracked

LEMMA IntervalType == \A c \in Channel : Interval[c] \in Nat
BY LoopAssumption DEF Channel, Interval

\* A process that ends leaves the tables, and nothing else.
LEMMA EndProcessInv == LoopInv /\ EndProcess => LoopInv'
<1>. SUFFICES ASSUME LoopInv, EndProcess PROVE LoopInv'
  OBVIOUS
<1>1. WorldInv'
  BY WorldInvForget DEF EndProcess
<1>2. SpaceTypeOK' /\ NoInfrastructure'
  BY DEF LoopInv, TypeOK, SpaceTypeOK, NoInfrastructure, EndProcess, tables
<1>3. TypeOK'
  <2>1. /\ setup' = setup /\ now' = now /\ sessions' = sessions
        /\ last' = [c \in Channel |-> 0] /\ pc' = "down" /\ running' = FALSE /\ started' = 0
        /\ previousMacs' = {} /\ anomalies' = {} /\ found' = {} /\ heardBefore' = {}
        /\ reported' = {} /\ lost' = {}
        /\ due' = {} /\ prox' = None /\ sound' = None /\ view' = None /\ baseline' = None
    BY DEF EndProcess
  <2>2. last' \in [Channel -> Int]
    BY <2>1
  <2>. QED
    BY <1>1, <1>2, <2>1, <2>2 DEF WorldInv, LoopInv, TypeOK, Place
<1>4. ClockInv'
  BY DEF LoopInv, TypeOK, ClockInv, EndProcess, ForgetWorld
<1>. QED
  BY <1>1, <1>2, <1>3, <1>4 DEF WorldInv, LoopInv, PresenceInv, ReportInv, EndProcess

LEMMA StartInv == LoopInv /\ Start => LoopInv'
<1>. SUFFICES ASSUME LoopInv, Start PROVE LoopInv'
  OBVIOUS
<1>1. last' \in [Channel -> Int]
  BY IntervalType DEF LoopInv, TypeOK, Start
<1>2. sessions' \in 0 .. MaxSessions
  BY LoopAssumption DEF LoopInv, TypeOK, Start
<1>3. TypeOK'
  BY <1>1, <1>2, TablesKept DEF LoopInv, TypeOK, Start, readings, findings, Place
<1>. QED
  BY <1>3, TablesKept DEF LoopInv, ClockInv, PresenceInv, ReportInv, Start, findings, worldVars

LEMMA StopInv == LoopInv /\ Stop => LoopInv'
<1>. SUFFICES ASSUME LoopInv, Stop PROVE LoopInv'
  OBVIOUS
<1>1. TypeOK'
  BY TablesKept DEF LoopInv, TypeOK, Stop, timing, readings, findings
<1>. QED
  BY <1>1, TablesKept DEF LoopInv, ClockInv, PresenceInv, ReportInv, Stop, readings, findings, worldVars

LEMMA TopInv == LoopInv /\ Top => LoopInv'
<1>. SUFFICES ASSUME LoopInv, Top PROVE LoopInv'
  OBVIOUS
<1>1. TypeOK'
  BY TablesKept DEF LoopInv, TypeOK, Top, session, readings, findings, Place
<1>. QED
  BY <1>1, TablesKept DEF LoopInv, ClockInv, PresenceInv, ReportInv, Top, findings, worldVars

LEMMA SensorInv == LoopInv /\ (ScanBle \/ SampleAudio \/ CaptureScene) => LoopInv'
<1>. SUFFICES ASSUME LoopInv, ScanBle \/ SampleAudio \/ CaptureScene PROVE LoopInv'
  OBVIOUS
<1>. USE DEF ScanBle, SampleAudio, CaptureScene
<1>1. /\ UNCHANGED <<worldVars, session, now, due, baseline, findings>>
      /\ pc' \in {"audio", "camera", "world"}
  OBVIOUS
<1>2. WorldTypeOK' /\ EntitiesTracked'
  BY <1>1, WorldKept
<1>3. SpaceTypeOK' /\ Known' = Known /\ NoInfrastructure'
  BY LoggedKeeps, TablesKept, <1>1
<1>4. /\ prox' = None \/ prox' \subseteq Mac
      /\ sound' = None \/ sound' \in Sound
      /\ view' = None \/ view' \in View
  BY DEF LoopInv, TypeOK
<1>5. last' \in [Channel -> Int]
  BY DEF LoopInv, TypeOK, Taken
<1>6. TypeOK'
  BY <1>1, <1>2, <1>3, <1>4, <1>5 DEF LoopInv, TypeOK, session, findings, Place
<1>7. ClockInv' /\ PresenceInv' /\ ReportInv'
  BY <1>1, <1>3 DEF LoopInv, ClockInv, PresenceInv, ReportInv, findings, worldVars
<1>. QED
  BY <1>2, <1>3, <1>6, <1>7 DEF LoopInv

\* What a context observes are entities, each with a confidence in per cent.
LEMMA ObservationsType == TypeOK => Extracted \in Observations
<1>. SUFFICES ASSUME TypeOK PROVE Extracted \in Observations
  OBVIOUS
<1>1. DOMAIN Heard \subseteq Entity /\ \A e \in DOMAIN Heard : Heard[e] \in Percent
  <2>1. CASE sound = None
    <3>. DEFINE nothing == <<>>
    <3>1. DOMAIN nothing = {}
      OBVIOUS
    <3>. HIDE DEF nothing
    <3>. QED
      BY <2>1, <3>1 DEF Heard, nothing
  <2>2. CASE sound # None
    <3>1. sound.confidence \in Percent /\ Stronger(30, sound.confidence) \in Percent
      BY <2>2, LoopAssumption DEF TypeOK, Stronger, Percent
    <3>2. <<"ambient", "audio">> \in Entity /\ <<"person", "audio">> \in Entity
      BY LoopAssumption
    <3>. QED
      BY <2>2, <3>1, <3>2 DEF Heard
  <2>. QED
    BY <2>1, <2>2
<1>2. DOMAIN Seen \subseteq Entity /\ \A e \in DOMAIN Seen : Seen[e] \in Percent
  <2>1. CASE view = None
    <3>. DEFINE nothing == <<>>
    <3>1. DOMAIN nothing = {}
      OBVIOUS
    <3>. HIDE DEF nothing
    <3>. QED
      BY <2>1, <3>1 DEF Seen, nothing
  <2>2. CASE view # None
    <3>1. view.confidence \in Percent /\ (view.confidence * 8) \div 10 \in Percent
      BY <2>2, LoopAssumption DEF TypeOK, Percent
    <3>2. <<"ambient", "visual">> \in Entity /\ <<"person", "visual">> \in Entity
      BY LoopAssumption
    <3>. QED
      BY <2>2, <3>1, <3>2 DEF Seen
  <2>. QED
    BY <2>1, <2>2
<1>3. DOMAIN InRange \subseteq Entity /\ \A e \in DOMAIN InRange : InRange[e] \in Percent
  <2>1. CASE prox = None
    <3>. DEFINE nothing == <<>>
    <3>1. DOMAIN nothing = {}
      OBVIOUS
    <3>. HIDE DEF nothing
    <3>. QED
      BY <2>1, <3>1 DEF InRange, nothing
  <2>2. CASE prox # None
    <3>1. BleConfidence \in Percent /\ Weaker(100, BleConfidence + 10) \in Percent
      BY LoopAssumption DEF Weaker, Percent
    <3>2. ({"ble"} \X prox) \cup ({"known"} \X (prox \cap Named)) \subseteq Entity
      BY <2>2, LoopAssumption DEF TypeOK
    <3>. QED
      BY <2>2, <3>1, <3>2 DEF InRange
  <2>. QED
    BY <2>1, <2>2
<1>. DEFINE E == DOMAIN Heard \cup DOMAIN Seen \cup DOMAIN InRange
<1>4. E \in SUBSET Entity
  BY <1>1, <1>2, <1>3
<1>5. Extracted \in [E -> Percent]
  BY <1>1, <1>2, <1>3 DEF Extracted
<1>. HIDE DEF E
<1>. QED
  BY <1>4, <1>5 DEF Observations

LEMMA UpdateModelInv == LoopInv /\ UpdateModel => LoopInv'
<1>. SUFFICES ASSUME LoopInv, UpdateModel PROVE LoopInv'
  OBVIOUS
<1>1. SpaceTypeOK' /\ Known' = Known /\ NoInfrastructure'
  BY DEF LoopInv, TypeOK, UpdateModel, spaceVars, tables, SpaceTypeOK, Known, NoInfrastructure
<1>2. WorldInv' /\ lastUpdated' <= now
  <2>1. CASE SensedNothing
    BY <2>1, WorldKept DEF UpdateModel, WorldInv, LoopInv, ClockInv, worldVars
  <2>2. CASE ~SensedNothing
    <3>1. Extracted \in Observations
      BY ObservationsType DEF LoopInv
    <3>2. UpdateWorld(now, Extracted) /\ lastUpdated' = now
      BY <2>2 DEF UpdateModel, UpdateWorld
    <3>3. WorldInv /\ now \in Nat /\ now >= lastUpdated
      BY DEF LoopInv, TypeOK, WorldInv, WorldTypeOK, ClockInv
    <3>4. WorldInv'
      BY <3>1, <3>2, <3>3, WorldInvUpdate
    <3>. QED
      BY <3>2, <3>3, <3>4
  <2>. QED
    BY <2>1, <2>2
<1>3. TypeOK'
  BY <1>1, <1>2 DEF WorldInv, LoopInv, TypeOK, UpdateModel, session, timing, readings, findings, Place
<1>. QED
  BY <1>1, <1>2, <1>3 DEF WorldInv, LoopInv, ClockInv, PresenceInv, ReportInv, UpdateModel, findings

\* A scan that is recorded gives every device it heard a row, and makes none of them
\* infrastructure.
LEMMA UpdateBleKeeps ==
  ASSUME SpaceTypeOK, NoInfrastructure, NEW heard \in SUBSET Mac, UpdateBle(heard)
  PROVE  SpaceTypeOK' /\ NoInfrastructure' /\ Known \subseteq Known' /\ heard \subseteq Known'
<1>1. scans' \in [Mac -> Nat] /\ \A m \in Mac : scans'[m] = IF m \in heard THEN scans[m] + 1 ELSE scans[m]
  BY DEF SpaceTypeOK, UpdateBle
<1>2. infra' \in [Mac -> BOOLEAN]
  <2>1. \A m \in Mac : Always(m) \in BOOLEAN
    BY DEF Always
  <2>. QED
    BY <2>1 DEF SpaceTypeOK, UpdateBle
<1>3. Known \subseteq Known' /\ heard \subseteq Known'
  BY <1>1 DEF SpaceTypeOK, Known
<1>4. NoInfrastructure'
  BY DEF SpaceTypeOK, NoInfrastructure, UpdateBle, Classifies
<1>. QED
  BY <1>1, <1>2, <1>3, <1>4 DEF SpaceTypeOK, UpdateBle

LEMMA RecordScanInv == LoopInv /\ (RecordScan \/ RecordScanRaises) => LoopInv'
<1>. SUFFICES ASSUME LoopInv, RecordScan \/ RecordScanRaises PROVE LoopInv'
  OBVIOUS
<1>. USE DEF RecordScan, RecordScanRaises
<1>1. WorldTypeOK' /\ EntitiesTracked'
  BY WorldKept
<1>2. /\ SpaceTypeOK' /\ NoInfrastructure' /\ Known \subseteq Known'
      /\ pc' = "space_audio" /\ prox # None => prox \subseteq Known'
  <2>1. CASE RecordScan /\ prox # None
    BY <2>1, UpdateBleKeeps DEF LoopInv, TypeOK
  <2>2. CASE RecordScan /\ prox = None
    BY <2>2 DEF LoopInv, TypeOK, spaceVars, tables, SpaceTypeOK, Known, NoInfrastructure
  <2>3. CASE RecordScanRaises
    BY <2>3 DEF LoopInv, TypeOK, UpdateBleLocked, tables, SpaceTypeOK, Known, NoInfrastructure
  <2>. QED
    BY <2>1, <2>2, <2>3
<1>3. TypeOK'
  BY <1>1, <1>2 DEF LoopInv, TypeOK, session, timing, readings, findings, Place
<1>4. ClockInv' /\ PresenceInv' /\ ReportInv'
  BY <1>2 DEF LoopInv, ClockInv, PresenceInv, ReportInv, worldVars, readings, findings
<1>. QED
  BY <1>1, <1>2, <1>3, <1>4 DEF LoopInv

LEMMA RecordActivityInv == LoopInv /\ RecordActivity => LoopInv'
<1>. SUFFICES ASSUME LoopInv, RecordActivity PROVE LoopInv'
  OBVIOUS
<1>1. WorldTypeOK' /\ EntitiesTracked'
  BY WorldKept DEF RecordActivity
<1>2. SpaceTypeOK' /\ Known' = Known /\ NoInfrastructure'
  BY SpaceAssumption DEF LoopInv, TypeOK, RecordActivity, UpdateActivity, spaceVars, tables, SpaceTypeOK, Known, NoInfrastructure
<1>3. TypeOK'
  BY <1>1, <1>2 DEF LoopInv, TypeOK, RecordActivity, session, timing, readings, findings, Place
<1>4. ClockInv' /\ PresenceInv' /\ ReportInv'
  BY <1>2 DEF LoopInv, ClockInv, PresenceInv, ReportInv, RecordActivity, worldVars, readings, findings
<1>. QED
  BY <1>1, <1>2, <1>3, <1>4 DEF LoopInv

LEMMA Difference == \A a, b \in 0 .. 255 : (IF a > b THEN a - b ELSE b - a) \in 0 .. 255
OBVIOUS

LEMMA RecordSceneInv == LoopInv /\ RecordScene => LoopInv'
<1>. SUFFICES ASSUME LoopInv, RecordScene PROVE LoopInv'
  OBVIOUS
<1>1. WorldTypeOK' /\ EntitiesTracked'
  BY WorldKept DEF RecordScene
<1>2. /\ SpaceTypeOK' /\ Known' = Known /\ NoInfrastructure'
      /\ baseline' = None \/ baseline' \in 0 .. 255
  <2>1. CASE view = None
    BY <2>1 DEF LoopInv, TypeOK, RecordScene, spaceVars, tables, SpaceTypeOK, Known, NoInfrastructure
  <2>2. CASE view # None
    <3>1. view.mean \in 0 .. 255 /\ (baseline = None \/ baseline \in 0 .. 255)
      BY <2>2, LoopAssumption DEF LoopInv, TypeOK
    <3>2. Diff \in 0 .. 255
      <4>1. CASE baseline = None
        BY <4>1 DEF Diff
      <4>2. CASE baseline # None
        <5>1. baseline \in 0 .. 255
          BY <3>1, <4>2
        <5>. QED
          BY <3>1, <4>2, <5>1, Difference DEF Diff
      <4>. QED
        BY <4>1, <4>2
    <3>. QED
      BY <2>2, <3>1, <3>2 DEF LoopInv, TypeOK, RecordScene, UpdateScene, SpaceTypeOK, Known, NoInfrastructure
  <2>. QED
    BY <2>1, <2>2
<1>3. TypeOK'
  BY <1>1, <1>2 DEF LoopInv, TypeOK, RecordScene, session, timing, readings, findings, Place
<1>4. ClockInv' /\ PresenceInv' /\ ReportInv'
  BY <1>2 DEF LoopInv, ClockInv, PresenceInv, ReportInv, RecordScene, worldVars, readings, findings
<1>. QED
  BY <1>1, <1>2, <1>3, <1>4 DEF LoopInv

LEMMA FoundType == TypeOK => Found(prox, sound, view, now) \subseteq Anomaly
<1>. SUFFICES ASSUME TypeOK PROVE Found(prox, sound, view, now) \subseteq Anomaly
  OBVIOUS
<1>1. CheckBle(prox) \subseteq Anomaly
  BY DEF TypeOK, CheckBle, Anomaly, DeviceEvent
<1>2. /\ CheckSpeech(prox, sound) \subseteq Anomaly /\ CheckScene(view) \subseteq Anomaly
      /\ CheckHour(prox, sound, now) \subseteq Anomaly
  BY DEF CheckSpeech, CheckScene, CheckHour, When, Anomaly, SpaceEvent
<1>. QED
  BY <1>1, <1>2 DEF Found

LEMMA CheckInv == LoopInv /\ Check => LoopInv'
<1>. SUFFICES ASSUME LoopInv, Check PROVE LoopInv'
  OBVIOUS
<1>1. SpaceTypeOK' /\ WorldTypeOK' /\ EntitiesTracked' /\ Known' = Known /\ NoInfrastructure'
  BY TablesKept DEF Check
<1>2. found' \subseteq Anomaly /\ anomalies' \subseteq Anomaly
  BY FoundType DEF LoopInv, TypeOK, Check
<1>3. TypeOK'
  BY <1>1, <1>2 DEF LoopInv, TypeOK, Check, Remember, session, timing, readings, Place
<1>4. ClockInv' /\ PresenceInv'
  BY <1>1 DEF LoopInv, ClockInv, PresenceInv, Check, Remember, worldVars
<1>5. ReportInv'
  BY DEF LoopInv, ReportInv, Check
<1>. QED
  BY <1>1, <1>3, <1>4, <1>5 DEF LoopInv

LEMMA ReportsInv == LoopInv /\ (ReportAnomalies \/ Report \/ PushFinal) => LoopInv'
<1>. SUFFICES ASSUME LoopInv, ReportAnomalies \/ Report \/ PushFinal PROVE LoopInv'
  OBVIOUS
<1>. USE DEF ReportAnomalies, Report, PushFinal, PushReport
<1>1. SpaceTypeOK' /\ WorldTypeOK' /\ EntitiesTracked' /\ Known' = Known /\ NoInfrastructure'
  BY TablesKept
<1>2. last' \in [Channel -> Int]
  BY DEF LoopInv, TypeOK, Taken, timing
<1>3. TypeOK'
  BY <1>1, <1>2 DEF LoopInv, TypeOK, session, timing, readings, Place
<1>4. ClockInv' /\ PresenceInv' /\ ReportInv'
  BY <1>1 DEF LoopInv, ClockInv, PresenceInv, ReportInv, worldVars
<1>. QED
  BY <1>1, <1>3, <1>4 DEF LoopInv

LEMMA SleepInv == LoopInv /\ Sleep => LoopInv'
<1>. SUFFICES ASSUME LoopInv, Sleep PROVE LoopInv'
  OBVIOUS
<1>1. SpaceTypeOK' /\ WorldTypeOK' /\ EntitiesTracked' /\ Known' = Known /\ NoInfrastructure'
  BY TablesKept DEF Sleep
<1>2. now' \in Nat /\ now <= now' /\ now' <= MaxTime
  BY LoopAssumption DEF LoopInv, TypeOK, ClockInv, Sleep, Weaker
<1>3. TypeOK'
  BY <1>1, <1>2 DEF LoopInv, TypeOK, Sleep, session, Place
<1>4. ClockInv'
  BY <1>2 DEF LoopInv, TypeOK, WorldTypeOK, ClockInv, Sleep, worldVars
<1>5. PresenceInv' /\ ReportInv'
  BY <1>1 DEF LoopInv, PresenceInv, ReportInv, Sleep
<1>. QED
  BY <1>1, <1>3, <1>4, <1>5 DEF LoopInv

LEMMA LoopInvNext == LoopInv /\ [Next]_vars => LoopInv'
<1>. SUFFICES ASSUME LoopInv, [Next]_vars PROVE LoopInv'
  OBVIOUS
<1>1. CASE UNCHANGED vars
  <2>1. SpaceTypeOK' /\ WorldTypeOK' /\ EntitiesTracked' /\ Known' = Known /\ NoInfrastructure'
    BY <1>1, TablesKept DEF vars
  <2>2. TypeOK'
    BY <1>1, <2>1 DEF vars, LoopInv, TypeOK, session, timing, readings, findings
  <2>. QED
    BY <1>1, <2>1, <2>2 DEF vars, LoopInv, ClockInv, PresenceInv, ReportInv, worldVars, readings, findings
<1>2. CASE Next
  BY <1>2, StartInv, StopInv, EndProcessInv, TopInv, SensorInv, UpdateModelInv, RecordScanInv,
     RecordActivityInv, RecordSceneInv, CheckInv, ReportsInv, SleepInv
     DEF Next, Cycle, Crash, Exit
<1>. QED
  BY <1>1, <1>2

LEMMA LoopInvariant == Spec => []LoopInv
BY LoopInvInit, LoopInvNext, PTL DEF Spec

(* Every variable of the daemon keeps its type, through crashes and        *)
(* restarts: readings and findings name known addresses, the scene's score *)
(* stays one, and the world model is given confidences in per cent.        *)
THEOREM DiscoveryTypeCorrect == Spec => []TypeOK
<1>1. LoopInv => TypeOK
  BY DEF LoopInv
<1>. QED
  BY <1>1, LoopInvariant, PTL

(* The daemon's own updates keep the world model's promise, since its      *)
(* clock does not go back: whatever it observed is in exactly one of the   *)
(* two dictionaries, the one its confidence says.                          *)
THEOREM DaemonTracksEntities == Spec => []EntitiesTracked
<1>1. LoopInv => EntitiesTracked
  BY DEF LoopInv
<1>. QED
  BY <1>1, LoopInvariant, PTL

(* When a cycle is over or a session has ended of itself, an anomaly that  *)
(* is in no report is one that every report since it was found failed      *)
(* with: none waits for a report still to be made.                         *)
THEOREM NoAnomalyLeftOut == Spec => []AnomaliesReported
<1>1. LoopInv => AnomaliesReported
  BY DEF LoopInv, ReportInv, AnomaliesReported
<1>. QED
  BY <1>1, LoopInvariant, PTL

(* Once there is a baseline, a check reports as departed and as appeared   *)
(* exactly the devices that left and came since the scan checked before:   *)
(* those never heard before among the latter, and none left out as         *)
(* infrastructure.                                                         *)
THEOREM PresenceIsExact == Spec => PresenceReported
<1>. DEFINE Exact ==
       pc = "check" /\ pc' # "down" /\ pc' # pc /\ prox # None /\ scanCount >= MinBaselineScans
       => \A m \in Mac :
            /\ <<"KNOWN_DEVICE_DEPARTED", m>> \in found' <=> m \in heardBefore \ prox
            /\ <<"KNOWN_DEVICE_APPEARED", m>> \in found' <=> m \in prox \ heardBefore
<1>1. LoopInv /\ Check => Exact
  <2>. SUFFICES ASSUME LoopInv, Check, prox # None, scanCount >= MinBaselineScans, NEW m \in Mac
                PROVE  /\ <<"KNOWN_DEVICE_DEPARTED", m>> \in found' <=> m \in heardBefore \ prox
                       /\ <<"KNOWN_DEVICE_APPEARED", m>> \in found' <=> m \in prox \ heardBefore
    OBVIOUS
  <2>1. /\ previousMacs = heardBefore /\ heardBefore \subseteq Known /\ prox \subseteq Known
        /\ Infrastructure = {}
    BY DEF LoopInv, PresenceInv, NoInfrastructure, Infrastructure, Known, Check
  <2>2. found' = CheckBle(prox) \cup CheckSpeech(prox, sound) \cup CheckScene(view)
                 \cup CheckHour(prox, sound, now)
    BY LoopAssumption DEF Check, Found, LoopInv, TypeOK, SpaceTypeOK
  <2>3. \A type \in {"KNOWN_DEVICE_DEPARTED", "KNOWN_DEVICE_APPEARED"} :
          <<type, m>> \notin CheckSpeech(prox, sound) \cup CheckScene(view) \cup CheckHour(prox, sound, now)
    BY DEF CheckSpeech, CheckScene, CheckHour, When
  <2>4. /\ <<"KNOWN_DEVICE_DEPARTED", m>> \in CheckBle(prox)
             <=> m \in ((previousMacs \cap Known) \ prox) \ Infrastructure
        /\ <<"KNOWN_DEVICE_APPEARED", m>> \in CheckBle(prox)
             <=> m \in (prox \cap (Known \ previousMacs)) \ Infrastructure
    BY DEF CheckBle
  <2>. QED
    BY <2>1, <2>2, <2>3, <2>4
<1>2. LoopInv /\ [Next]_vars => [Exact]_vars
  <2>. SUFFICES ASSUME LoopInv, Next, pc = "check", pc' # "down", pc' # pc PROVE Check
    BY <1>1
  <2>. QED
    BY DEF Next, Start, Stop, Crash, EndProcess, Cycle, Top, ScanBle, SampleAudio, CaptureScene,
           UpdateModel, RecordScan, RecordScanRaises, RecordActivity, RecordScene, ReportAnomalies,
           Report, Sleep, PushFinal, Exit
<1>. QED
  BY <1>2, LoopInvariant, PTL DEF Spec, PresenceReported
============================================================================
