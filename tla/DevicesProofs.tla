--------------------------- MODULE DevicesProofs ---------------------------
(***************************************************************************)
(* The device HALs and profiles, and the context they feed, for any number *)
(* of threads, sounds, callbacks, readings, frames, chunks and signatures. *)
(***************************************************************************)
EXTENDS MicrophoneHals, TransportHals, PiAudioOutput, HealthMonitor, PiBleLink, PoseSensors,
        IosReceiver, HeadsetFeeds, PhotoChunks, AutoDiscovery, SensorFusion,
        FiniteSetTheorems, SequenceTheorems, WellFoundedInduction, TLAPS

-----------------------------------------------------------------------------
(* PiAudioOutput: one sound at a time.                                     *)

AudioTyped ==
    /\ worker \in [Sounds -> {"unborn", "begin", "write", "spawn", "poll", "forget", "ended"}]
    /\ voice \in [Sounds -> Sounds \cup {NoSound}] /\ file \in Sounds \cup {NoSound}
    /\ stop \in [Places -> {"out", "set", "check", "poll", "join", "start"}]

\* As long as each join saw its thread end: a thread that lives is the one in
\* _thread, and none does when play() is about to start the next; the file is
\* the sound of the thread that has written it; what sounds is polled by its
\* thread, through _proc, and was given its own sound; and after a stop() no
\* thread lives until the next play().
OneWorker ==
    /\ \A s \in Sounds : Alive(s) => s = thread
    /\ stop["play"] = "start" => ~Alive(thread)
    /\ \A s \in Sounds : worker[s] = "spawn" => file = s
    /\ \A s \in Sounds : worker[s] = "poll" => proc = s
    /\ \A s \in sounding : s \in Sounds /\ worker[s] = "poll" /\ voice[s] = s
    /\ silenced => stop["play"] = "out" /\ \A s \in Sounds : ~Alive(s)

AudioInv == AudioTyped /\ (~audioGaveUp => OneWorker)

LEMMA AudioInvInit == AudioInit => AudioInv
BY DEF AudioInit, AudioInv, AudioTyped, OneWorker, Alive, Places

\* play() and stop() look at the thread, and never at its place.
LEMMA StopStepInv ==
    ASSUME AudioInv,
           \/ Play \/ Stop
           \/ \E p \in Places : \/ SetEvent(p) \/ CheckProc(p) \/ Terminate(p)
                                \/ \E timeout \in BOOLEAN : Join(p, timeout)
    PROVE  AudioInv'
<1>1. AudioTyped'
  BY DEF AudioInv, AudioTyped, Play, Stop, SetEvent, CheckProc, Terminate, Join, Steps, Sleeps,
         Places
<1>2. SUFFICES ASSUME ~audioGaveUp' PROVE OneWorker'
  BY <1>1 DEF AudioInv
<1>3. "play" \in Places /\ "other" \in Places
  BY DEF Places
<1>4. CASE Play
  BY <1>2, <1>3, <1>4 DEF AudioInv, AudioTyped, OneWorker, Play, Sleeps, Alive
<1>5. CASE Stop
  BY <1>2, <1>3, <1>5 DEF AudioInv, AudioTyped, OneWorker, Stop, Sleeps, Alive
<1>6. ASSUME NEW p \in Places, SetEvent(p) \/ CheckProc(p) \/ Terminate(p)
      PROVE  OneWorker'
  <2>1. OneWorker /\ stop \in [Places -> {"out", "set", "check", "poll", "join", "start"}]
    BY <1>2, <1>6 DEF SetEvent, CheckProc, Terminate, AudioInv, AudioTyped
  <2>2. /\ UNCHANGED <<worker, thread, file, proc, voice, silenced>>
        /\ sounding' \subseteq sounding
        /\ \E to \in {"check", "join", "poll", "out"} : stop' = [stop EXCEPT ![p] = to]
        /\ stop[p] # "out"
    BY <1>6 DEF SetEvent, CheckProc, Terminate, Steps, Sleeps
  <2>. QED
    BY <1>3, <2>1, <2>2 DEF OneWorker, Alive
<1>7. ASSUME NEW p \in Places, NEW timeout \in BOOLEAN, Join(p, timeout)
      PROVE  OneWorker'
  <2>1. ~Alive(thread) /\ OneWorker
    BY <1>2, <1>7 DEF Join, AudioInv
  <2>2. \A s \in Sounds : ~Alive(s)
    BY <2>1 DEF OneWorker
  <2>. QED
    BY <1>2, <1>3, <1>7, <2>1, <2>2
       DEF AudioInv, AudioTyped, OneWorker, Join, Steps, Sleeps, Alive, Places
<1>. QED
  BY <1>4, <1>5, <1>6, <1>7

LEMMA WorkerStepInv ==
    ASSUME AudioInv, NEW s \in Sounds,
           \/ StartThread(s) \/ Begin(s) \/ WriteFile(s) \/ Spawn(s)
           \/ SpawnFails(s) \/ PollAplay(s) \/ Forget(s) \/ AplayEnds(s)
    PROVE  AudioInv'
<1>1. AudioTyped'
  <2>1. CASE StartThread(s) \/ Begin(s) \/ WriteFile(s) \/ SpawnFails(s)
    BY <2>1 DEF AudioInv, AudioTyped, StartThread, Begin, WriteFile, SpawnFails, Works,
                OnlyWorker, Sleeps, Places
  <2>2. CASE Spawn(s)
    BY <2>2 DEF AudioInv, AudioTyped, Spawn, Works, OnlyWorker
  <2>3. CASE PollAplay(s) \/ Forget(s) \/ AplayEnds(s)
    BY <2>3 DEF AudioInv, AudioTyped, PollAplay, Forget, AplayEnds, Works, OnlyWorker
  <2>. QED
    BY <2>1, <2>2, <2>3
<1>2. SUFFICES ASSUME ~audioGaveUp' PROVE OneWorker'
  BY <1>1 DEF AudioInv
<1>3. CASE StartThread(s)
  BY <1>2, <1>3, AudioAssumption
     DEF AudioInv, AudioTyped, OneWorker, StartThread, Sleeps, Alive, Places
<1>4. CASE Begin(s) \/ WriteFile(s) \/ Spawn(s) \/ SpawnFails(s)
  BY <1>2, <1>4, AudioAssumption
     DEF AudioInv, AudioTyped, OneWorker, Begin, WriteFile, Spawn, SpawnFails, Works, OnlyWorker,
         Sleeps, Alive
<1>5. CASE PollAplay(s) \/ Forget(s) \/ AplayEnds(s)
  BY <1>2, <1>5, AudioAssumption
     DEF AudioInv, AudioTyped, OneWorker, PollAplay, Forget, AplayEnds, Works, OnlyWorker, Alive
<1>. QED
  BY <1>3, <1>4, <1>5

\* As long as every join saw its thread end, at most one aplay runs, with its
\* own sound, and none once a stop() that ran alone has returned.
THEOREM OneSoundAtATime == AudioSpec => []OneSound
<1>1. AudioInv /\ [AudioNext]_audioVars => AudioInv'
  <2>1. AudioInv /\ UNCHANGED audioVars => AudioInv'
    BY DEF audioVars, AudioInv, AudioTyped, OneWorker, Alive
  <2>. QED
    BY <2>1, StopStepInv, WorkerStepInv DEF AudioNext
<1>2. AudioInv => OneSound
  <2>. SUFFICES ASSUME AudioInv, ~audioGaveUp PROVE OneSound
    BY DEF OneSound
  <2>1. sounding \subseteq {thread}
    BY AudioAssumption DEF AudioInv, OneWorker, Alive
  <2>2. Cardinality(sounding) <= 1
    <3>1. IsFiniteSet({thread}) /\ Cardinality({thread}) = 1
      BY FS_Singleton
    <3>. QED
      BY <2>1, <3>1, FS_Subset
  <2>3. silenced => sounding = {}
    BY AudioAssumption DEF AudioInv, OneWorker, Alive
  <2>. QED
    BY <2>2, <2>3 DEF OneSound, AudioInv, OneWorker
<1>. QED
  BY <1>1, <1>2, AudioInvInit, PTL DEF AudioSpec

-----------------------------------------------------------------------------
(* PiSystemHealth: the callbacks have a monitor.                           *)

MonitorPlace == [pc : {"unborn", "top", "tell", "wait", "dead"}, next : Nat]
HealthTyped ==
    /\ monitor \in [Monitors -> MonitorPlace]
    /\ registrar \in [Registrars -> {"out", "clear", "start", "done"}]
    /\ shutdown \in {"out", "join"} /\ stopEvent \in BOOLEAN

\* As long as on_degraded and shutdown kept apart and every join saw its monitor
\* end: a monitor that is told to stop has ended when shutdown has; a registrar
\* that starts one has cleared the event; and who has registered since the last
\* shutdown waits for its own monitor or has found one that goes on.
MonitorKept ==
    /\ shutdown = "out" /\ stopEvent => monitorThread \notin Running
    /\ shutdown = "join" => shut
    /\ \A r \in Registrars : registrar[r] = "start" => ~stopEvent
    /\ ~shut /\ (\E r \in Registrars : registrar[r] # "out")
         => \/ \E r \in Registrars : registrar[r] \in {"clear", "start"}
            \/ monitorThread \in Running /\ ~stopEvent

HealthInv == HealthTyped /\ (~healthCrossed => MonitorKept)

LEMMA HealthInvInit == HealthInit => HealthInv
<1>. SUFFICES ASSUME HealthInit PROVE HealthInv
  OBVIOUS
<1>1. HealthTyped
  BY DEF HealthInit, HealthTyped, MonitorPlace
<1>2. MonitorKept
  BY HealthAssumption DEF HealthInit, MonitorKept, Running
<1>. QED
  BY <1>1, <1>2 DEF HealthInv

LEMMA RegistrarStepInv ==
    ASSUME HealthInv, NEW r \in Registrars,
           OnDegraded(r) \/ ClearEvent(r) \/ \E m \in Monitors : StartMonitor(r, m)
    PROVE  HealthInv'
<1>1. CASE OnDegraded(r)
  BY <1>1 DEF HealthInv, HealthTyped, MonitorKept, OnDegraded, OnlyRegistrar, Running
<1>2. CASE ClearEvent(r)
  BY <1>2 DEF HealthInv, HealthTyped, MonitorKept, ClearEvent, OnlyRegistrar, Running
<1>3. ASSUME NEW m \in Monitors, StartMonitor(r, m) PROVE HealthInv'
  <2>. DEFINE n == [monitor[m] EXCEPT !.pc = "top"]
  <2>1. n \in MonitorPlace /\ n.pc = "top" /\ monitor' = [monitor EXCEPT ![m] = n]
    BY <1>3 DEF StartMonitor, HealthInv, HealthTyped, MonitorPlace
  <2>. HIDE DEF n
  <2>2. \A k \in Monitors : k # m => monitor'[k] = monitor[k]
    BY <2>1 DEF HealthInv, HealthTyped
  <2>3. monitor'[m] = n
    BY <2>1 DEF HealthInv, HealthTyped
  <2>4. HealthTyped'
    BY <1>3, <2>1, <2>2, <2>3 DEF HealthInv, HealthTyped, StartMonitor, OnlyRegistrar
  <2>5. ~healthCrossed => MonitorKept'
    BY <1>3, <2>1, <2>2, <2>3
       DEF HealthInv, HealthTyped, MonitorKept, StartMonitor, OnlyRegistrar, Running
  <2>. QED
    BY <1>3, <2>4, <2>5 DEF HealthInv, StartMonitor
<1>. QED
  BY <1>1, <1>2, <1>3

LEMMA ShutdownStepInv ==
    ASSUME HealthInv, SetStop \/ \E timeout \in BOOLEAN : JoinMonitor(timeout)
    PROVE  HealthInv'
<1>1. CASE SetStop
  BY <1>1, HealthAssumption DEF HealthInv, HealthTyped, MonitorKept, SetStop, Running
<1>2. ASSUME NEW timeout \in BOOLEAN, JoinMonitor(timeout) PROVE HealthInv'
  BY <1>2 DEF HealthInv, HealthTyped, MonitorKept, JoinMonitor, Running
<1>. QED
  BY <1>1, <1>2

\* A monitor ends only when it is told to.
LEMMA MonitorStepInv ==
    ASSUME HealthInv, NEW m \in Monitors,
           Ends(m) \/ Report(m) \/ Degraded(m) \/ Call(m) \/ Wakes(m)
    PROVE  HealthInv'
<1>1. PICK n : /\ monitor' = [monitor EXCEPT ![m] = n]
               /\ n \in MonitorPlace
               /\ n.pc = "dead" => stopEvent
               /\ m \in Running /\ n.pc # "unborn"
  <2>1. monitor[m] \in MonitorPlace
    BY DEF HealthInv, HealthTyped
  <2>2. CASE Degraded(m)
    <3>. WITNESS [pc |-> "tell", next |-> 1]
    <3>. QED
      BY <2>2 DEF Degraded, Running, MonitorPlace
  <2>3. ASSUME NEW to \in {"dead", "wait", "top"}, to = "dead" => stopEvent,
               monitor' = [monitor EXCEPT ![m].pc = to], m \in Running
        PROVE  \E n : /\ monitor' = [monitor EXCEPT ![m] = n]
                      /\ n \in MonitorPlace
                      /\ n.pc = "dead" => stopEvent
                      /\ m \in Running /\ n.pc # "unborn"
    <3>. WITNESS [monitor[m] EXCEPT !.pc = to]
    <3>. QED
      BY <2>1, <2>3 DEF MonitorPlace
  <2>4. CASE Call(m) /\ monitor[m].next <= Len(callbacks)
    <3>. WITNESS [monitor[m] EXCEPT !.next = @ + 1]
    <3>. QED
      BY <2>1, <2>4 DEF Call, Running, MonitorPlace
  <2>5. m \in Running
    BY DEF Ends, Report, Degraded, Call, Wakes, MonitorGoes, Running
  <2>6. CASE Ends(m)
    BY <2>3, <2>5, <2>6 DEF Ends, MonitorGoes
  <2>7. CASE Report(m) \/ Wakes(m) \/ (Call(m) /\ ~(monitor[m].next <= Len(callbacks)))
    BY <2>3, <2>5, <2>7 DEF Report, Wakes, Call, MonitorGoes
  <2>. QED
    BY <2>2, <2>4, <2>6, <2>7
<1>2. UNCHANGED <<callbacks, stopEvent, monitorThread, registrar, shutdown, shut, healthCrossed>>
  BY DEF Ends, Report, Degraded, Call, Wakes, OnlyMonitor
<1>3. \A k \in Monitors : monitor'[k] = IF k = m THEN n ELSE monitor[k]
  BY <1>1 DEF HealthInv, HealthTyped
<1>4. \A k \in Monitors : k \in Running /\ ~stopEvent => k \in Running'
  BY <1>1, <1>3 DEF Running
<1>5. \A k \in Monitors : k \in Running' => k \in Running
  BY <1>1, <1>3 DEF Running
<1>6. HealthTyped'
  BY <1>1, <1>2, <1>3 DEF HealthInv, HealthTyped
<1>7. Running \subseteq Monitors /\ Running' \subseteq Monitors
  BY DEF Running
<1>. QED
  BY <1>2, <1>4, <1>5, <1>6, <1>7 DEF HealthInv, MonitorKept

\* Once every on_degraded() has returned, the callbacks registered since the last
\* shutdown have a monitor that runs and goes on, however many threads register
\* at once, unless a shutdown ran at the same time or gave up on a monitor.
THEOREM CallbacksWatched == HealthSpec => []Watched
<1>1. HealthInv /\ [HealthNext]_healthVars => HealthInv'
  <2>1. HealthInv /\ UNCHANGED healthVars => HealthInv'
    BY DEF healthVars, HealthInv, HealthTyped, MonitorKept, Running
  <2>. QED
    BY <2>1, RegistrarStepInv, ShutdownStepInv, MonitorStepInv DEF HealthNext
<1>2. HealthInv => Watched
  BY DEF HealthInv, MonitorKept, Watched
<1>. QED
  BY <1>1, <1>2, HealthInvInit, PTL DEF HealthSpec

-----------------------------------------------------------------------------
(* The motion HALs: what has been given adds up to the way gone.           *)

Pose == 0 .. MaxPose
MotionTyped ==
    /\ pose \in Pose /\ last \in Pose \cup {NoPose} /\ origin \in Pose \cup {NoPose}
    /\ prober \in [Probes -> [pc : {"out", "test", "subtract", "store"},
                              read : Pose \cup {NoPose}]]
    /\ \A p \in Probes : prober[p].pc = "subtract" => prober[p].read # NoPose
    /\ moved \in Int

\* The differences given end at `at`; there are none before the first pose.
Balanced(at) ==
    IF origin = NoPose THEN moved = 0 ELSE at # NoPose /\ moved = at - origin

\* As long as no two samples overlapped: one is taken at a time; it balances at
\* the last pose until the difference is given, and then at the one it stores.
OneSample ==
    /\ \A p, q \in Probes : p \in Reading /\ q \in Reading => p = q
    /\ \A p \in Probes : prober[p].pc = "store" => Balanced(prober[p].read)
    /\ (\A p \in Probes : prober[p].pc # "store") => Balanced(last)
    /\ (\A p \in Probes : prober[p].pc # "store") => (last = NoPose <=> origin = NoPose)

MotionInv == MotionTyped /\ (~tangled => OneSample)

LEMMA MotionInvInit == MotionInit => MotionInv
<1>. SUFFICES ASSUME MotionInit PROVE MotionInv
  OBVIOUS
<1>1. MotionTyped
  BY MotionAssumption DEF MotionInit, MotionTyped, Pose, Resting
<1>2. OneSample
  BY DEF MotionInit, OneSample, Balanced, Reading, Resting
<1>. QED
  BY <1>1, <1>2 DEF MotionInv

LEMMA MotionCallInv ==
    ASSUME MotionInv, Moves \/ InitializeMotion \/ ShutdownMotion
    PROVE  MotionInv'
<1>1. MotionTyped'
  BY MotionAssumption DEF MotionInv, MotionTyped, Moves, InitializeMotion, ShutdownMotion, Pose
<1>2. CASE Moves
  BY <1>1, <1>2 DEF MotionInv, OneSample, Moves, Balanced, Reading
<1>3. CASE InitializeMotion \/ ShutdownMotion
  <2>. SUFFICES ASSUME ~tangled' PROVE OneSample'
    BY <1>1 DEF MotionInv
  <2>1. Reading = {} /\ prober' = prober /\ origin' = last' /\ moved' = 0
    BY <1>3 DEF InitializeMotion, ShutdownMotion
  <2>2. \A p \in Probes : prober[p].pc = "out"
    BY <2>1 DEF Reading, Resting
  <2>3. last' = NoPose \/ last' \in Int
    BY <1>1, MotionAssumption DEF MotionTyped, Pose
  <2>. QED
    BY <2>1, <2>2, <2>3 DEF OneSample, Balanced, Reading
<1>. QED
  BY <1>1, <1>2, <1>3 DEF MotionInv

LEMMA SampleInv ==
    ASSUME MotionInv, NEW p \in Probes,
           AskPose(p) \/ TestLast(p) \/ SkipDifference(p) \/ Subtract(p) \/ StoreLast(p)
    PROVE  MotionInv'
<1>. DEFINE Place == [pc : {"out", "test", "subtract", "store"}, read : Pose \cup {NoPose}]
<1>1. prober[p] \in Place /\ Resting \in Place
  BY DEF MotionInv, MotionTyped, Resting
<1>2. PICK n \in Place : /\ prober' = [prober EXCEPT ![p] = n]
                         /\ n.pc = "subtract" => n.read # NoPose
                         /\ SkipDifference(p) => n.pc = "store" /\ n.read = prober[p].read
                         /\ AskPose(p) => n.pc = "test"
                         /\ TestLast(p) /\ ~SkipDifference(p) => IF prober[p].read = NoPose THEN n = Resting
                              ELSE /\ n.pc = IF last = NoPose THEN "store" ELSE "subtract"
                                   /\ n.read = prober[p].read
                         /\ Subtract(p) => IF last = NoPose THEN n = Resting
                                           ELSE n.pc = "store" /\ n.read = prober[p].read
                         /\ StoreLast(p) => n = Resting
  <2>1. CASE AskPose(p)
    BY <1>1, <2>1 DEF AskPose, TestLast, SkipDifference, Subtract, StoreLast, Pose
  <2>2. CASE TestLast(p) /\ ~SkipDifference(p)
    <3>. DEFINE t == IF prober[p].read = NoPose THEN Resting
                  ELSE [prober[p] EXCEPT !.pc = IF last = NoPose THEN "store" ELSE "subtract"]
    <3>1. prober' = [prober EXCEPT ![p] = t] /\ prober[p].pc = "test"
      BY <2>2 DEF TestLast, MotionInv, MotionTyped
    <3>2. /\ t \in Place
          /\ t.pc = "subtract" => t.read # NoPose
          /\ IF prober[p].read = NoPose THEN t = Resting
             ELSE /\ t.pc = IF last = NoPose THEN "store" ELSE "subtract"
                  /\ t.read = prober[p].read
      <4>1. CASE prober[p].read = NoPose
        BY <1>1, <4>1 DEF Resting
      <4>2. CASE prober[p].read # NoPose /\ last = NoPose
        BY <1>1, <4>2
      <4>3. CASE prober[p].read # NoPose /\ last # NoPose
        BY <1>1, <4>3
      <4>. QED
        BY <4>1, <4>2, <4>3
    <3>. HIDE DEF t
    <3>. QED
      <4>1. ~AskPose(p) /\ ~Subtract(p) /\ ~StoreLast(p)
        BY <3>1 DEF AskPose, Subtract, StoreLast
      <4>. QED
        BY <2>2, <3>1, <3>2, <4>1
  <2>3. CASE Subtract(p)
    BY <1>1, <2>3 DEF AskPose, TestLast, SkipDifference, Subtract, StoreLast, Resting, MotionInv, MotionTyped
  <2>4. CASE StoreLast(p)
    BY <1>1, <2>4 DEF AskPose, TestLast, SkipDifference, Subtract, StoreLast, Resting
  <2>5. CASE SkipDifference(p)
    BY <1>1, <2>5 DEF AskPose, TestLast, SkipDifference, Subtract, StoreLast
  <2>. QED
    BY <2>1, <2>2, <2>3, <2>4, <2>5
<1>3. \A q \in Probes : prober'[q] = IF q = p THEN n ELSE prober[q]
  BY <1>2 DEF MotionInv, MotionTyped
<1>4. \A v \in Pose : v \in Int /\ v # NoPose
  BY MotionAssumption DEF Pose
<1>5. MotionTyped'
  <2>1. prober' \in [Probes -> Place]
    BY <1>2 DEF MotionInv, MotionTyped
  <2>2. pose' \in Pose /\ last' \in Pose \cup {NoPose} /\ origin' \in Pose \cup {NoPose}
    BY <1>1 DEF MotionInv, MotionTyped, AskPose, TestLast, SkipDifference, Subtract, StoreLast
  <2>3. moved' \in Int
    BY <1>1, <1>4 DEF MotionInv, MotionTyped, AskPose, TestLast, SkipDifference, Subtract, StoreLast
  <2>. QED
    BY <1>2, <1>3, <2>1, <2>2, <2>3 DEF MotionInv, MotionTyped
<1>6. SUFFICES ASSUME ~tangled' PROVE OneSample'
  BY <1>5 DEF MotionInv
<1>7. OneSample
  BY <1>6 DEF MotionInv, AskPose, TestLast, SkipDifference, Subtract, StoreLast
<1>8. \A q \in Probes : q \in Reading' => q = p
  <2>1. CASE AskPose(p)
    BY <1>3, <1>6, <2>1 DEF AskPose, Reading
  <2>2. CASE ~AskPose(p)
    <3>1. p \in Reading
      BY <2>2 DEF TestLast, SkipDifference, Subtract, StoreLast, Reading, Resting
    <3>. QED
      BY <1>3, <1>7, <3>1 DEF OneSample, Reading
  <2>. QED
    BY <2>1, <2>2
<1>9. \A q \in Probes : q # p => prober[q].pc = "out" /\ prober'[q].pc = "out"
  BY <1>3, <1>8 DEF Reading, Resting
<1>10. last = NoPose \/ last \in Int
  BY <1>4 DEF MotionInv, MotionTyped
<1>11. CASE AskPose(p)
  BY <1>2, <1>3, <1>7, <1>8, <1>9, <1>11 DEF AskPose, OneSample, Balanced
<1>12. CASE TestLast(p) /\ ~SkipDifference(p)
  BY <1>2, <1>3, <1>7, <1>8, <1>9, <1>12 DEF TestLast, OneSample, Balanced, Resting
<1>13. CASE Subtract(p)
  <2>1. prober[p].read \in Int /\ origin \in Int \cup {NoPose} /\ moved \in Int
    BY <1>1, <1>4, <1>13 DEF Subtract, MotionInv, MotionTyped
  <2>2. Balanced(last)
    BY <1>7, <1>9, <1>13 DEF OneSample, Subtract
  <2>3. CASE last = NoPose
    BY <1>2, <1>3, <1>7, <1>8, <1>9, <1>13, <2>2, <2>3 DEF Subtract, OneSample, Balanced, Resting
  <2>4. CASE last # NoPose
    <3>1. origin # NoPose /\ moved = last - origin /\ moved' = moved + prober[p].read - last
      BY <1>7, <1>9, <1>13, <2>2, <2>4 DEF OneSample, Subtract, Balanced
    <3>2. moved' = prober[p].read - origin
      BY <1>10, <2>1, <2>4, <3>1
    <3>3. Balanced(prober[p].read)' /\ prober'[p].read = prober[p].read
      BY <1>2, <1>3, <1>13, <2>4, <3>1, <3>2, <2>1, <1>4 DEF Subtract, Balanced, MotionInv, MotionTyped
    <3>. QED
      BY <1>2, <1>3, <1>7, <1>8, <1>9, <1>13, <2>4, <3>3, ZenonT(60) DEF Subtract, OneSample, Balanced
  <2>. QED
    BY <2>3, <2>4
<1>14. CASE StoreLast(p)
  <2>1. prober[p].read = NoPose \/ prober[p].read \in Int
    BY <1>1, <1>4
  <2>2. Balanced(prober[p].read)
    BY <1>7, <1>14 DEF StoreLast, OneSample
  <2>3. last' = prober[p].read /\ moved' = moved
        /\ origin' = IF origin = NoPose THEN prober[p].read ELSE origin
    BY <1>14 DEF StoreLast
  <2>4. Balanced(last)' /\ (last' = NoPose <=> origin' = NoPose)
    BY <2>1, <2>2, <2>3 DEF Balanced
  <2>5. \A q \in Probes : prober'[q].pc # "store"
    BY <1>2, <1>3, <1>9, <1>14 DEF Resting
  <2>. QED
    BY <1>8, <2>4, <2>5 DEF OneSample
<1>15. CASE SkipDifference(p)
  <2>1. origin' = NoPose /\ moved' = 0 /\ prober'[p].pc = "store"
    BY <1>2, <1>3, <1>15 DEF SkipDifference
  <2>2. \A q \in Probes : Balanced(prober[q].read)'
    BY <2>1 DEF Balanced
  <2>. QED
    BY <1>8, <2>1, <2>2 DEF OneSample
<1>. QED
  BY <1>11, <1>12, <1>13, <1>14, <1>15

\* As long as no two samples overlap, the differences given since the first pose
\* (on the OAK-D, since the last frame it did not compare) add up to the way from
\* it to the last one, whatever readings failed.
THEOREM NoMovementLost == MotionSpec => []MotionConserved
<1>1. MotionInv /\ [MotionNext]_motionVars => MotionInv'
  <2>1. MotionInv /\ UNCHANGED motionVars => MotionInv'
    BY DEF motionVars, MotionInv, MotionTyped, OneSample, Balanced, Reading
  <2>. QED
    BY <2>1, MotionCallInv, SampleInv DEF MotionNext
<1>2. MotionInv => MotionConserved
  BY DEF MotionInv, OneSample, MotionConserved, Balanced, Reading, Resting
<1>. QED
  BY <1>1, <1>2, MotionInvInit, PTL DEF MotionSpec

-----------------------------------------------------------------------------
(* The transport HALs: the callback hears what get_state says.             *)

Done == << >>
Todos == {Done, <<Connected>>, <<Disconnected>>,
          <<Connecting, "link">>, <<Connecting, "link", "unlock">>, <<"link">>, <<"link", "unlock">>,
          <<Connected, "unlock">>, <<Disconnected, "unlock">>, <<"unlock">>,
          <<"close", Disconnected>>}
Over == {Done, <<"unlock">>}

TransportTyped ==
    /\ hal \in [builds : BOOLEAN, locks : BOOLEAN, guarded : BOOLEAN, saysBye : BOOLEAN,
                mock : BOOLEAN, sends : {"http", "socket", "nothing"}]
    /\ hal.builds => ~hal.mock /\ hal.saysBye
    /\ sim => hal.mock
    /\ sim \in BOOLEAN /\ cb \in [hal : BOOLEAN, sim : BOOLEAN] /\ linked \in BOOLEAN
    /\ caller \in [Callers -> [todo : Todos, tell : States \cup {Silent}]]
    /\ ~Listened => told = Silent

\* What is promised between calls, of the callback and of the link.
Heard == told # Silent => told = state \/ (state = Disconnected /\ ~Tells(Disconnected))
Backed == hal.builds /\ state = Connected => linked

\* As long as no two calls ran at once: a call has assigned what it is about to
\* tell, the callback has heard the state when nothing is left to assign or to
\* tell, and the link goes only when the state is about to.
OneCall ==
    /\ \A c, d \in Callers : c \in Busy /\ d \in Busy => c = d
    /\ \A c \in Callers : caller[c].tell \in {Silent, state}
    /\ (\A c \in Callers : caller[c].tell = Silent /\ caller[c].todo \in Over) => Heard
    /\ \/ Backed
       \/ \E c \in Callers : caller[c].tell = Silent /\ caller[c].todo = <<Disconnected>>
    /\ \A c \in Callers : caller[c].todo \in {<<Connected>>, <<Connected, "unlock">>}
         => (hal.builds => linked)

TransportInv == TransportTyped /\ (~crossed => OneCall)

\* What is left of a call after each of its steps.
LEMMA TodoFacts ==
    ASSUME NEW t \in Todos, t # Done
    PROVE  /\ Head(t) \in States => Tail(t) \in {Done, <<"unlock">>, <<"link">>, <<"link", "unlock">>}
           /\ Head(t) = Connected => t \in {<<Connected>>, <<Connected, "unlock">>}
           /\ Head(t) = "unlock" => t = <<"unlock">> /\ Tail(t) = Done
           /\ Head(t) = "close" => t = <<"close", Disconnected>> /\ Tail(t) = <<Disconnected>>
           /\ Head(t) = "link" => /\ t \in {<<"link">>, <<"link", "unlock">>}
                                  /\ \A x \in States : [t EXCEPT ![1] = x] \in {<<x>>, <<x, "unlock">>}
<1>. USE DEF Done, States, Connected, Disconnected, Connecting
<1>1. CASE t \in {<<Connected>>, <<Disconnected>>, <<"link">>, <<"unlock">>}
  <2>1. \A x, y : <<x>> # << >> /\ Head(<<x>>) = x /\ Tail(<<x>>) = << >>
                  /\ [<<x>> EXCEPT ![1] = y] = <<y>>
    OBVIOUS
  <2>. QED
    BY <1>1, <2>1, ZenonT(40)
<1>2. CASE t \in {<<Connecting, "link">>, <<"link", "unlock">>, <<Connected, "unlock">>,
                  <<Disconnected, "unlock">>, <<"close", Disconnected>>}
  <2>1. \A x, y : Head(<<x, y>>) = x /\ Tail(<<x, y>>) = <<y>>
    OBVIOUS
  <2>2. \A x, y, z : [<<x, y>> EXCEPT ![1] = z] = <<z, y>>
    OBVIOUS
  <2>3. /\ t = <<Connecting, "link">> => Head(t) = Connecting /\ Tail(t) = <<"link">>
        /\ t = <<"link", "unlock">> => Head(t) = "link"
        /\ t = <<Connected, "unlock">> => Head(t) = Connected /\ Tail(t) = <<"unlock">>
        /\ t = <<Disconnected, "unlock">> => Head(t) = Disconnected /\ Tail(t) = <<"unlock">>
        /\ t = <<"close", Disconnected>> => Head(t) = "close" /\ Tail(t) = <<Disconnected>>
    BY <2>1
  <2>4. t = <<"link", "unlock">> => \A x : [t EXCEPT ![1] = x] = <<x, "unlock">>
    BY <2>2
  <2>. QED
    BY <1>2, <2>3, <2>4
<1>3. CASE t = <<Connecting, "link", "unlock">>
  BY <1>3
<1>. QED
  BY <1>1, <1>2, <1>3 DEF Todos

LEMMA TodoKinds ==
    /\ \A t \in {Done, <<"unlock">>, <<"link">>, <<"link", "unlock">>} :
         t \in Todos /\ t \notin {<<Connected>>, <<Connected, "unlock">>, <<Disconnected>>}
    /\ <<Connected>> # Done /\ <<Disconnected>> # Done /\ <<"unlock">> # Done
    /\ <<Disconnected>> \notin {<<Connected>>, <<Connected, "unlock">>, <<"unlock">>}
BY DEF Todos, Done, States, Connected, Disconnected, Connecting

LEMMA TransportInvInit == TransportInit => TransportInv
<1>. SUFFICES ASSUME TransportInit PROVE TransportInv
  OBVIOUS
<1>. DEFINE Classes == [builds : BOOLEAN, locks : BOOLEAN, guarded : BOOLEAN,
                        saysBye : BOOLEAN, mock : BOOLEAN,
                        sends : {"http", "socket", "nothing"}]
            Fits(h) == h \in Classes /\ (h.builds => ~h.mock /\ h.saysBye)
<1>1. \A kind \in TransportKinds : Fits(Class(kind))
  <2>1. Fits(Plain)
    BY DEF Plain
  <2>2. Fits(PiWiFiTransport)
    BY DEF Plain, PiWiFiTransport
  <2>3. Fits(G2TransportHAL) /\ Fits(AttachmentTransport)
    BY DEF Plain, G2TransportHAL, AttachmentTransport
  <2>4. ASSUME NEW m \in BOOLEAN
        PROVE  Fits(Quiet(m)) /\ Fits([Quiet(m) EXCEPT !.sends = "nothing"])
    BY DEF Plain, Quiet
  <2>5. ASSUME NEW m \in BOOLEAN
        PROVE  /\ Fits(RayBanTransportHal(m)) /\ Fits(Go2TransportHal(m))
               /\ Fits(VisionProTransportHal(m)) /\ Fits(OpenGlassTransportHal(m))
    BY <2>4 DEF RayBanTransportHal, Go2TransportHal, VisionProTransportHal, OpenGlassTransportHal
  <2>. HIDE DEF Fits
  <2>6. ASSUME NEW kind \in {"pi", "reachy", "reachy2", "oakd", "frame", "g2", "attachment"}
        PROVE  Fits(Class(kind))
    BY <2>1, <2>2, <2>3
       DEF Class, ReachyTransportHAL, Reachy2TransportHAL, OakDTransportHAL, FrameTransportHAL
  <2>7. ASSUME NEW kind \in {"rayban", "avp", "openglass", "go2",
                             "rayban_mock", "avp_mock", "openglass_mock", "go2_mock"}
        PROVE  Fits(Class(kind))
    BY <2>5 DEF Class
  <2>. QED
    BY <2>6, <2>7, TransportAssumption
<1>2. TransportTyped
  BY <1>1 DEF TransportInit, TransportTyped, NoCall, Todos, Done, Silent
<1>3. OneCall
  BY TodoKinds DEF TransportInit, OneCall, Busy, NoCall, Heard, Backed, Over, Done, Silent,
                   Connected, Disconnected
<1>. QED
  BY <1>2, <1>3 DEF TransportInv

\* A call that begins while none runs, or whose caller takes a step.
LEMMA CallerStepInv ==
    ASSUME TransportInv, NEW c \in Callers,
           \/ Connect(c) \/ Disconnect(c) \/ BuildLink(c) \/ CloseLink(c) \/ Unlock(c)
           \/ \E s \in States : Assign(c, s)
           \/ \E raises \in BOOLEAN : Tell(c, raises)
    PROVE  TransportInv'
<1>. DEFINE Call1 == [todo : Todos, tell : States \cup {Silent}]
            me == caller[c]
<1>1. me \in Call1 /\ Done \in Todos
  BY DEF TransportInv, TransportTyped, Todos
<1>2. Silent \notin States /\ Connected \in States /\ Disconnected \in States
  BY DEF States, Silent, Connected, Disconnected, Connecting
<1>3. UNCHANGED <<hal, sim, cb>>
  BY DEF Connect, Disconnect, Begins, BuildLink, CloseLink, Unlock, Assign, Tell, NotLink
\* It is enough to know what the caller's step leaves it.
<1>4. ASSUME NEW n \in Call1, caller' = [caller EXCEPT ![c] = n], linked' \in BOOLEAN,
             ~Listened => told' = told,
             ~crossed' =>
               /\ ~crossed /\ \A d \in Callers : d \in Busy => d = c
               /\ n.tell \in {Silent, state'}
               /\ n.tell = Silent /\ n.todo \in Over => Heard'
               /\ Backed' \/ (n.tell = Silent /\ n.todo = <<Disconnected>>)
               /\ n.todo \in {<<Connected>>, <<Connected, "unlock">>} /\ hal.builds => linked'
      PROVE  TransportInv'
  <2>1. \A d \in Callers : caller'[d] = IF d = c THEN n ELSE caller[d]
    BY <1>4 DEF TransportInv, TransportTyped
  <2>2. TransportTyped'
    BY <1>3, <1>4 DEF TransportInv, TransportTyped, Listened
  <2>3. SUFFICES ASSUME ~crossed' PROVE OneCall'
    BY <2>2 DEF TransportInv
  <2>4. OneCall /\ \A d \in Callers \ {c} : d \notin Busy
    BY <1>4, <2>3 DEF TransportInv
  <2>5. \A d \in Callers \ {c} : caller'[d] = NoCall
    BY <2>1, <2>4 DEF Busy
  <2>6. \A d \in Callers : d \in Busy' => d = c
    BY <2>5 DEF Busy
  <2>7. NoCall.todo = Done /\ NoCall.tell = Silent
    BY DEF NoCall, Done
  <2>8. (\A d \in Callers : caller'[d].tell = Silent /\ caller'[d].todo \in Over) => Heard'
    BY <1>4, <2>1, <2>3
  <2>9. \/ Backed'
        \/ \E d \in Callers : caller'[d].tell = Silent /\ caller'[d].todo = <<Disconnected>>
    BY <1>4, <2>1, <2>3
  <2>10. \A d \in Callers : caller'[d].todo \in {<<Connected>>, <<Connected, "unlock">>}
         => (hal'.builds => linked')
    BY <1>3, <1>4, <2>1, <2>3, <2>5, <2>7, TodoKinds
  <2>11. \A d \in Callers : caller'[d].tell \in {Silent, state'}
    BY <1>4, <2>1, <2>3, <2>5, <2>7
  <2>. QED
    BY <2>6, <2>8, <2>9, <2>10, <2>11 DEF OneCall
<1>5. ~crossed => OneCall
  BY DEF TransportInv
<1>6. ASSUME NEW todo \in Todos \ Over, Begins(c, todo),
             todo \in {<<Connected>>, <<Connected, "unlock">>} => ~hal.builds
      PROVE  TransportInv'
  <2>. DEFINE n == [todo |-> todo, tell |-> Silent]
  <2>0. [NoCall EXCEPT !.todo = todo] = n
    BY DEF NoCall
  <2>1. caller' = [caller EXCEPT ![c] = n]
    BY <1>6, <2>0 DEF Begins
  <2>2. ~crossed' => ~crossed /\ Busy = {}
    BY <1>6 DEF Begins
  <2>3. UNCHANGED <<hal, state, sim, linked, told>>
    BY <1>6 DEF Begins, NotLink
  <2>4. ~crossed' => Backed'
    <3>1. Busy = {} => \A d \in Callers : caller[d].todo = Done
      BY DEF Busy, NoCall, Done
    <3>. QED
      BY <1>5, <2>2, <2>3, <3>1, TodoKinds DEF OneCall, Backed
  <2>5. linked' \in BOOLEAN
    BY <2>3 DEF TransportInv, TransportTyped
  <2>. QED
    BY <1>4, <1>6, <2>1, <2>2, <2>3, <2>4, <2>5
<1>7. CASE Connect(c) \/ Disconnect(c)
  <2>1. sim => ~hal.builds
    BY DEF TransportInv, TransportTyped
  <2>2. PICK todo \in {<<Connected>>, <<Disconnected>>, <<Connecting, "link">>,
                       <<Connecting, "link", "unlock">>, <<"close", Disconnected>>} :
          Begins(c, todo) /\ (todo = <<Connected>> => ~hal.builds)
    BY <1>7, <2>1 DEF Connect, Disconnect, Connected, Disconnected, Connecting
  <2>3. todo \in Todos \ Over /\ todo # <<Connected, "unlock">>
    BY <2>2 DEF Todos, Over, Done, Connected, Disconnected, Connecting
  <2>. QED
    BY <1>6, <2>2, <2>3
\* The steps that take a token from the front.
<1>8. ASSUME NEW token \in {"link", "close", "unlock"} \cup States, Does(c, token)
      PROVE  /\ me.tell = Silent /\ me.todo \in Todos /\ me.todo # Done /\ Head(me.todo) = token
             /\ c \in Busy /\ (~crossed => \A d \in Callers : d \in Busy => d = c)
  <2>1. me.todo # Done /\ me.tell = Silent /\ Head(me.todo) = token
    BY <1>8 DEF Does, Done
  <2>2. c \in Busy
    BY <2>1 DEF Busy, NoCall, Done
  <2>. QED
    BY <1>1, <1>5, <2>1, <2>2 DEF OneCall
<1>9. CASE BuildLink(c)
  <2>1. Does(c, "link")
    BY <1>9 DEF BuildLink
  <2>2. PICK x \in {Connected, Disconnected} :
          /\ caller' = [caller EXCEPT ![c].todo[1] = x]
          /\ linked' \in BOOLEAN /\ (linked => linked') /\ (x = Connected => linked')
    <3>1. PICK built \in BOOLEAN :
            /\ linked' = (built \/ linked)
            /\ caller' = [caller EXCEPT ![c].todo[1] = IF built THEN Connected ELSE Disconnected]
      BY <1>9 DEF BuildLink
    <3>2. linked \in BOOLEAN /\ Disconnected # Connected
      BY DEF TransportInv, TransportTyped, Connected, Disconnected
    <3>. QED
      BY <3>1, <3>2
  <2>. DEFINE t == [me.todo EXCEPT ![1] = x]
              n == [todo |-> t, tell |-> Silent]
  <2>3. me.todo \in {<<"link">>, <<"link", "unlock">>} /\ t \in {<<x>>, <<x, "unlock">>}
    BY <1>2, <1>8, <2>1, TodoFacts
  <2>4. [me EXCEPT !.todo[1] = x] = n
    BY <1>1, <1>8, <2>1
  <2>5. caller' = [caller EXCEPT ![c] = n]
    BY <2>2, <2>4
  <2>6. t \in Todos \ Over
    BY <2>3 DEF Todos, Over, Done, Connected, Disconnected, Connecting
  <2>7. t \in {<<Connected>>, <<Connected, "unlock">>} => x = Connected
    BY <2>3 DEF Connected, Disconnected
  <2>8. UNCHANGED <<hal, state, told, crossed>>
    BY <1>9 DEF BuildLink
  <2>9. ~crossed => Backed'
    <3>1. \A d \in Callers : caller[d].todo = <<Disconnected>> => d \in Busy
      BY TodoKinds DEF Busy, NoCall, Done
    <3>2. me.todo # <<Disconnected>>
      BY <2>3, TodoKinds
    <3>. QED
      BY <1>5, <1>8, <2>1, <2>2, <2>8, <3>1, <3>2 DEF OneCall, Backed
  <2>. QED
    BY <1>4, <1>8, <2>1, <2>2, <2>5, <2>6, <2>7, <2>8, <2>9
<1>10. CASE CloseLink(c)
  <2>1. Does(c, "close")
    BY <1>10 DEF CloseLink
  <2>2. me.todo = <<"close", Disconnected>> /\ Tail(me.todo) = <<Disconnected>>
    BY <1>8, <2>1, TodoFacts
  <2>. DEFINE n == [todo |-> <<Disconnected>>, tell |-> Silent]
  <2>3. [me EXCEPT !.todo = Tail(@)] = n
    BY <1>1, <1>8, <2>1, <2>2
  <2>4. caller' = [caller EXCEPT ![c] = n]
    BY <1>10, <2>3 DEF CloseLink
  <2>5. n \in Call1 /\ n.todo \notin Over
    BY TodoKinds DEF Todos, Over
  <2>. QED
    BY <1>4, <1>8, <1>10, <2>1, <2>4, <2>5, TodoKinds DEF CloseLink
<1>11. CASE Unlock(c)
  <2>1. Does(c, "unlock")
    BY <1>11 DEF Unlock
  <2>2. me.todo = <<"unlock">> /\ Tail(me.todo) = Done
    BY <1>8, <2>1, TodoFacts
  <2>. DEFINE n == [todo |-> Done, tell |-> Silent]
  <2>3. [me EXCEPT !.todo = Tail(@)] = n
    BY <1>1, <1>8, <2>1, <2>2
  <2>4. caller' = [caller EXCEPT ![c] = n]
    BY <1>11, <2>3 DEF Unlock
  <2>5. UNCHANGED <<hal, sim, cb, linked, state, told, crossed>>
    BY <1>11 DEF Unlock, NotLink
  <2>6. ~crossed => Heard /\ Backed
    <3>1. \A d \in Callers : d \notin Busy => caller[d].todo = Done /\ caller[d].tell = Silent
      BY DEF Busy, NoCall, Done
    <3>. QED
      BY <1>5, <1>8, <2>1, <2>2, <3>1, TodoKinds DEF OneCall, Over
  <2>7. ~crossed => Heard' /\ Backed'
    BY <2>5, <2>6 DEF Heard, Backed, Tells
  <2>8. linked' \in BOOLEAN
    BY <2>5 DEF TransportInv, TransportTyped
  <2>. QED
    BY <1>1, <1>4, <1>8, <2>1, <2>4, <2>5, <2>7, <2>8, TodoKinds
<1>12. ASSUME NEW s \in States, Assign(c, s) PROVE TransportInv'
  <2>1. Does(c, s)
    BY <1>12 DEF Assign
  <2>. DEFINE tell == IF Tells(s) THEN s ELSE Silent
              n == [todo |-> Tail(me.todo), tell |-> tell]
  <2>2. caller' = [caller EXCEPT ![c] = n]
    BY <1>12 DEF Assign
  <2>3. n.todo \in {Done, <<"unlock">>, <<"link">>, <<"link", "unlock">>}
    <3>1. me.todo \in Todos /\ me.todo # Done /\ Head(me.todo) \in States
      BY <1>8, <2>1
    <3>2. Tail(me.todo) \in {Done, <<"unlock">>, <<"link">>, <<"link", "unlock">>}
      BY <3>1, TodoFacts
    <3>. QED
      BY <3>2
  <2>4. n \in Call1
    BY <2>3, TodoKinds
  <2>5. UNCHANGED <<hal, sim, cb, linked, told, crossed>> /\ state' = s
    BY <1>12 DEF Assign, NotLink
  <2>6. n.tell = Silent => s = Disconnected /\ ~Tells(Disconnected)
    BY <1>2 DEF Tells
  <2>7. n.tell = Silent => Heard'
    BY <2>5, <2>6 DEF Heard, Tells
  <2>8. ~crossed => Backed'
    <3>1. s = Connected => me.todo \in {<<Connected>>, <<Connected, "unlock">>}
      BY <1>8, <2>1, TodoFacts
    <3>. QED
      BY <1>5, <2>5, <3>1 DEF OneCall, Backed
  <2>9. linked' \in BOOLEAN
    BY <2>5 DEF TransportInv, TransportTyped
  <2>. QED
    BY <1>4, <1>8, <2>1, <2>2, <2>3, <2>4, <2>5, <2>7, <2>8, <2>9, TodoKinds
<1>13. ASSUME NEW raises \in BOOLEAN, Tell(c, raises) PROVE TransportInv'
  <2>1. me.tell # Silent /\ c \in Busy
    BY <1>13 DEF Tell, Busy, NoCall
  <2>2. PICK todo \in {me.todo, Done} : caller' = [caller EXCEPT ![c] = [todo |-> todo, tell |-> Silent]]
    BY <1>13 DEF Tell, Done
  <2>. DEFINE n == [todo |-> todo, tell |-> Silent]
  <2>3. UNCHANGED <<hal, sim, cb, linked, state, crossed>>
        /\ told' = IF Listened THEN me.tell ELSE told
    BY <1>13 DEF Tell, NotLink
  <2>4. linked' \in BOOLEAN
    BY <2>3 DEF TransportInv, TransportTyped
  <2>5. ASSUME ~crossed
        PROVE  /\ \A d \in Callers : d \in Busy => d = c
               /\ me.tell = state /\ Heard' /\ Backed'
               /\ me.todo \in {<<Connected>>, <<Connected, "unlock">>} /\ hal.builds => linked'
    <3>1. OneCall
      BY <1>5, <2>5
    <3>2. \A d \in Callers : d \in Busy => d = c
      BY <2>1, <3>1 DEF OneCall
    <3>3. me.tell = state
      BY <2>1, <3>1 DEF OneCall
    <3>4. Heard'
      BY <2>3, <3>3 DEF Heard, TransportInv, TransportTyped
    <3>5. Backed'
      <4>1. \A d \in Callers : caller[d].todo = <<Disconnected>> => d \in Busy
        BY TodoKinds DEF Busy, NoCall, Done
      <4>. QED
        BY <2>1, <2>3, <3>1, <3>2, <4>1 DEF OneCall, Backed
    <3>. QED
      BY <2>3, <3>1, <3>2, <3>3, <3>4, <3>5 DEF OneCall
  <2>6. n \in Call1 /\ n.tell = Silent /\ Done \notin {<<Connected>>, <<Connected, "unlock">>}
    BY <1>1, <2>2, TodoKinds
  <2>. QED
    BY <1>4, <2>2, <2>3, <2>4, <2>5, <2>6
<1>. QED
  BY <1>7, <1>9, <1>10, <1>11, <1>12, <1>13

LEMMA OwnerStepInv ==
    ASSUME TransportInv, Initialize \/ SetStateCallback \/ Send \/ Receive
    PROVE  TransportInv'
<1>1. CASE Initialize
  <2>1. TransportTyped'
    BY <1>1 DEF TransportInv, TransportTyped, Initialize, Listened
  <2>2. Busy' = {} /\ \A c \in Callers : caller'[c] = NoCall
    BY <1>1 DEF Initialize, Busy
  <2>3. OneCall'
    BY <1>1, <2>2, TodoKinds DEF Initialize, OneCall, NoCall, Heard, Backed, Done, Connected, Disconnected
  <2>. QED
    BY <2>1, <2>3 DEF TransportInv
<1>2. CASE SetStateCallback
  <2>1. TransportTyped'
    BY <1>2 DEF TransportInv, TransportTyped, SetStateCallback, Listened
  <2>2. OneCall => OneCall'
    BY <1>2 DEF SetStateCallback, OneCall, Busy, Heard, Backed
  <2>. QED
    BY <1>2, <2>1, <2>2 DEF TransportInv, SetStateCallback
<1>3. CASE Send \/ Receive
  <2>1. OnlyPayload
    BY <1>3 DEF Send, Receive
  <2>. QED
    BY <2>1 DEF OnlyPayload, TransportInv, TransportTyped, OneCall, Busy, Heard, Backed, Listened,
                Tells
<1>. QED
  BY <1>1, <1>2, <1>3

\* Between calls that did not run at once, the callback heard last what get_state
\* says, whether or not it raised, but for the goodbye of the HALs that do not say
\* it; and a HAL that builds a link says CONNECTED only when it has one.
THEOREM CallbackHearsState == TransportSpec => []StateTold
<1>1. TransportInv /\ [TransportNext]_transportVars => TransportInv'
  <2>1. TransportInv /\ UNCHANGED transportVars => TransportInv'
    BY DEF transportVars, TransportInv, TransportTyped, OneCall, Busy, Heard, Backed, Listened,
           Tells
  <2>. QED
    BY <2>1, CallerStepInv, OwnerStepInv DEF TransportNext, States
<1>2. TransportInv => StateTold
  <2>. SUFFICES ASSUME TransportInv, Busy = {}, ~crossed PROVE Heard /\ Backed
    BY DEF StateTold, Heard, Backed
  <2>1. \A c \in Callers : caller[c].tell = Silent /\ caller[c].todo = Done
    BY DEF Busy, NoCall, Done
  <2>. QED
    BY <2>1, TodoKinds DEF TransportInv, OneCall, Over
<1>. QED
  BY <1>1, <1>2, TransportInvInit, PTL DEF TransportSpec

-----------------------------------------------------------------------------
(* auto_discover_profile: the best profile there is.                       *)

\* A set of natural numbers has a least one, and a list of bounded numbers a
\* greatest one.
Below == {p \in Nat \X Nat : p[1] < p[2]}

LEMMA BelowWellFounded == IsWellFoundedOn(Below, Nat)
<1>1. Below = OpToRel(<, Nat)
  BY Zenon DEF Below, OpToRel
<1>. QED
  BY <1>1, NatLessThanWellFounded, Zenon

LEMMA Least ==
  ASSUME NEW T \in SUBSET Nat, T # {}
  PROVE  Min(T) \in T /\ \A y \in T : Min(T) <= y
<1>1. PICK x \in T : \A y \in T : ~(<<y, x>> \in Below)
  BY BelowWellFounded, WFMin
<1>2. ASSUME NEW y \in T
      PROVE  x <= y
  <2>1. x \in Nat /\ y \in Nat
    OBVIOUS
  <2>2. ~(y < x)
    <3>1. ~(<<y, x>> \in Below)
      BY <1>1, <1>2
    <3>. QED
      BY <2>1, <3>1 DEF Below
  <2>. QED
    BY <2>1, <2>2
<1>. QED
  BY <1>2 DEF Min

LEMMA Greatest ==
  ASSUME NEW n \in Nat, n >= 1, NEW K \in Nat, NEW f,
         \A i \in 1 .. n : f[i] \in Nat /\ f[i] <= K
  PROVE  \E i \in 1 .. n : \A j \in 1 .. n : f[j] <= f[i]
<1>. DEFINE short == {K - f[i] : i \in 1 .. n}
<1>1. short \in SUBSET Nat
  OBVIOUS
<1>2. \A i \in 1 .. n : K - f[i] \in short
  OBVIOUS
<1>3. \A m \in short : \E i \in 1 .. n : m = K - f[i]
  OBVIOUS
<1>. HIDE DEF short
<1>0. short # {}
  <2>1. 1 \in 1 .. n
    OBVIOUS
  <2>. QED
    BY <1>2, <2>1
<1>4. PICK m \in short : \A k \in short : m <= k
  BY <1>0, <1>1, Least
<1>5. PICK i \in 1 .. n : m = K - f[i]
  BY <1>3, <1>4
<1>6. ASSUME NEW j \in 1 .. n
      PROVE  f[j] <= f[i]
  <2>1. K - f[i] <= K - f[j]
    BY <1>2, <1>4, <1>5, <1>6
  <2>2. f[i] \in Int /\ f[j] \in Int
    OBVIOUS
  <2>. QED
    BY <2>1, <2>2
<1>. QED
  BY <1>6

LEMMA LastIsGreatest ==
    ASSUME NEW n \in Nat \ {0}, Signatures = 1..n
    PROVE  LastSignature = n
BY DEF LastSignature, Max

\* Who finds more scores no less.
LEMMA ScoreGrows ==
    ASSUME NEW s \in Signatures, NEW ids1, NEW ids2, NEW names1, NEW names2, NEW ports1, NEW ports2,
           ids1 \subseteq ids2, names1 \subseteq names2, ports1 \subseteq ports2
    PROVE  /\ Score(s, ids1, names1, ports1) \in Nat /\ Score(s, ids1, names1, ports1) <= 2500
           /\ Score(s, ids1, names1, ports1) <= Score(s, ids2, names2, ports2)
<1>. DEFINE Weight(ids, names, ports) ==
              (IF s \in ids THEN 10 ELSE 0) + (IF s \in names THEN 8 ELSE 0)
                + (IF s \in ports THEN 7 ELSE 0)
            a == Weight(ids1, names1, ports1)
            b == Weight(ids2, names2, ports2)
<1>1. a \in 0..25 /\ b \in 0..25 /\ a <= b
  OBVIOUS
<1>2. PICK c \in 0..100 : c = Confidence[s]
  BY DiscoverAssumption
<1>3. Score(s, ids1, names1, ports1) = c * a /\ Score(s, ids2, names2, ports2) = c * b
  BY <1>2 DEF Score
<1>. HIDE DEF a, b
<1>4. c * a \in Nat /\ c * a <= 2500 /\ c * a <= c * b
  BY <1>1
<1>. QED
  BY <1>3, <1>4

\* The score a signature would have if everything were found.
There == [s \in Signatures |-> Score(s, usbThere, bleThere, portOpen)]

LEMMA ThereIs ==
    \A s \in Signatures : /\ There[s] = Score(s, usbThere, bleThere, portOpen)
                          /\ There[s] \in Nat /\ There[s] <= 2500
BY ScoreGrows DEF There

Scanning == {"ble", "usb", "net"}
Scoring == {"score", "choose", "returned"}

DiscoverTyped ==
    /\ probe \in [Signatures -> {"run", "done"}] /\ usb \in {"run", "done"}
    /\ main \in Scanning \cup Scoring /\ network \in BOOLEAN
    /\ netJoins \in Nat /\ netJoins >= 1
    /\ known \in [Signatures -> Nat] /\ score \in [Signatures -> Nat]
    /\ chosen \in Signatures \cup {0} /\ gaveUp \in BOOLEAN

\* Nothing is found that is not there, and what a probe found is in the
\* dictionary.
Found == /\ usbIds \subseteq usbThere /\ bleNames \subseteq bleThere /\ results \subseteq portOpen
         /\ \A s \in Signatures : probe[s] = "done" /\ s \in portOpen => s \in results

\* As long as nothing was given up: who was joined has found all there is.
AllFound == /\ main \in {"net"} \cup Scoring => usb = "done"
            /\ usb = "done" => usbIds = usbThere
            /\ main # "ble" => bleNames = bleThere
            /\ \A s \in Signatures : s < netJoins => probe[s] = "done"
            /\ main \in Scoring => network /\ \A s \in Signatures : s \in portOpen => s \in results
            /\ \A s \in Signatures : score[s] > 0 => score[s] - 1 = There[s]

\* A score is between what was known when the scoring began and what is there.
Scored == /\ main \in Scanning => \A s \in Signatures : score[s] = 0
          /\ main \in Scoring => \A s \in Signatures : known[s] <= Score(s, usbIds, bleNames, Ports)
          /\ \A s \in Signatures : score[s] > 0 =>
               known[s] <= score[s] - 1 /\ score[s] - 1 <= There[s]
          /\ main \in {"choose", "returned"} => \A s \in Signatures : score[s] > 0

\* The profile chosen is the first of those with the greatest score.
First == main = "returned" =>
    IF chosen = 0 THEN \A s \in Signatures : score[s] <= 1
    ELSE /\ score[chosen] > 1
         /\ \A s \in Signatures : /\ score[s] <= score[chosen]
                                  /\ s < chosen => score[s] < score[chosen]

DiscoverInv == DiscoverTyped /\ Found /\ (~gaveUp => AllFound) /\ Scored /\ First

LEMMA DiscoverInvInit == DiscoverInit => DiscoverInv
<1>. SUFFICES ASSUME DiscoverInit PROVE DiscoverInv
  OBVIOUS
<1>1. DiscoverTyped
  <2>1. probe \in [Signatures -> {"run", "done"}] /\ known \in [Signatures -> Nat]
        /\ score \in [Signatures -> Nat]
    BY DEF DiscoverInit
  <2>2. usb \in {"run", "done"} /\ main \in Scanning \cup Scoring
    BY DEF DiscoverInit, Scanning
  <2>3. netJoins \in Nat /\ netJoins >= 1 /\ chosen \in Signatures \cup {0}
    BY DEF DiscoverInit
  <2>4. network \in BOOLEAN /\ gaveUp \in BOOLEAN
    BY Zenon DEF DiscoverInit
  <2>. QED
    BY <2>1, <2>2, <2>3, <2>4 DEF DiscoverTyped
<1>2. Found /\ Scored /\ First
  BY DEF DiscoverInit, Found, Scored, First, Scanning, Scoring
<1>3. AllFound
  BY DiscoverAssumption DEF DiscoverInit, AllFound, Scanning, Scoring
<1>. QED
  BY <1>1, <1>2, <1>3 DEF DiscoverInv

\* The threads only add to what is found.
LEMMA ThreadStepInv ==
    ASSUME DiscoverInv,
           \/ \E works \in BOOLEAN : ScanUsb(works)
           \/ \E timeout \in BOOLEAN : JoinProbe(timeout)
           \/ \E s \in Signatures : Probe(s)
    PROVE  DiscoverInv'
<1>1. /\ UNCHANGED <<usbThere, bleThere, portOpen, main, bleNames, network, known, score, chosen>>
      /\ gaveUp => gaveUp'
  BY DEF ScanUsb, JoinProbe, Probe, OnlyThread, World, DiscoverInv, DiscoverTyped
<1>2. /\ usbIds \subseteq usbThere /\ usbIds' \subseteq usbThere
      /\ results \subseteq results' /\ results' \subseteq portOpen
      /\ main \in Scoring => usbIds' = usbIds
  BY DEF DiscoverInv, DiscoverTyped, Found, ScanUsb, JoinProbe, Probe, OnlyThread, Scanning, Scoring
<1>3. DiscoverTyped'
  <2>1. CASE \E works \in BOOLEAN : ScanUsb(works)
    BY <1>1, <2>1 DEF DiscoverInv, DiscoverTyped, ScanUsb
  <2>2. CASE \E timeout \in BOOLEAN : JoinProbe(timeout)
    BY <1>1, <2>2, DiscoverAssumption DEF DiscoverInv, DiscoverTyped, JoinProbe
  <2>3. CASE \E s \in Signatures : Probe(s)
    BY <1>1, <2>3 DEF DiscoverInv, DiscoverTyped, Probe
  <2>. QED
    BY <2>1, <2>2, <2>3
<1>4. Found'
  BY <1>1, <1>2 DEF DiscoverInv, DiscoverTyped, Found, ScanUsb, JoinProbe, Probe
<1>5. Scored'
  <2>1. Ports \subseteq Ports'
    BY <1>1, <1>2 DEF Ports
  <2>2. ASSUME NEW s \in Signatures, main \in Scoring
        PROVE  known[s] <= Score(s, usbIds, bleNames, Ports)'
    <3>. DEFINE old == Score(s, usbIds, bleNames, Ports)
                new == Score(s, usbIds', bleNames, Ports')
    <3>1. old <= new
      BY <1>2, <2>1, <2>2, ScoreGrows
    <3>2. old \in Nat /\ old <= 2500 /\ new \in Nat /\ new <= 2500
      BY ScoreGrows
    <3>3. known[s] <= old /\ known[s] \in Nat
      BY <2>2 DEF DiscoverInv, DiscoverTyped, Scored
    <3>4. Score(s, usbIds, bleNames, Ports)' = new
      BY <1>1 DEF Score
    <3>. HIDE DEF old, new
    <3>5. known[s] <= new
      BY <3>1, <3>2, <3>3
    <3>. QED
      BY <3>4, <3>5
  <2>3. \A s \in Signatures : There'[s] = There[s]
    BY <1>1 DEF There, Score
  <2>. QED
    BY <1>1, <2>2, <2>3 DEF DiscoverInv, Scored
<1>6. ASSUME ~gaveUp' PROVE AllFound'
  <2>1. \A s \in Signatures : There'[s] = There[s]
    BY <1>1 DEF There, Score
  <2>2. AllFound
    BY <1>1, <1>6 DEF DiscoverInv
  <2>3. CASE \E works \in BOOLEAN : ScanUsb(works)
    BY <1>1, <1>6, <2>1, <2>2, <2>3
       DEF AllFound, ScanUsb, DiscoverInv, DiscoverTyped, Scanning, Scoring
  <2>4. ASSUME NEW timeout \in BOOLEAN, JoinProbe(timeout) PROVE AllFound'
    <3>1. probe[netJoins] = "done" /\ netJoins' = netJoins + 1 /\ netJoins \in Nat
      BY <1>6, <2>4 DEF JoinProbe, DiscoverInv, DiscoverTyped
    <3>2. \A s \in Signatures : s < netJoins' => s < netJoins \/ s = netJoins
      BY <3>1, DiscoverAssumption
    <3>. QED
      BY <1>1, <2>1, <2>2, <2>4, <3>1, <3>2 DEF AllFound, JoinProbe
  <2>5. ASSUME NEW s \in Signatures, Probe(s) PROVE AllFound'
    BY <1>1, <1>2, <2>1, <2>2, <2>5 DEF AllFound, Probe, DiscoverInv, DiscoverTyped
  <2>. QED
    BY <2>3, <2>4, <2>5
<1>7. First'
  BY <1>1 DEF DiscoverInv, First
<1>. QED
  BY <1>3, <1>4, <1>5, <1>6, <1>7 DEF DiscoverInv

LEMMA ScanInv ==
    ASSUME DiscoverInv,
           \/ \E works \in BOOLEAN : ScanBle(works)
           \/ \E timeout \in BOOLEAN : JoinUsb(timeout)
    PROVE  DiscoverInv'
<1>1. /\ UNCHANGED <<usbThere, bleThere, portOpen, usb, probe, results, netJoins, usbIds, network,
                     known, score, chosen>>
      /\ gaveUp => gaveUp'
      /\ main \in {"ble", "usb"} /\ main' \in {"usb", "net"}
  BY DEF ScanBle, JoinUsb, OnlyCaller, World, DiscoverInv, DiscoverTyped
<1>2. bleNames' \subseteq bleThere
  BY DEF ScanBle, JoinUsb, DiscoverInv, Found
<1>3. \A s \in Signatures : There'[s] = There[s]
  BY <1>1 DEF There, Score
<1>4. DiscoverTyped'
  <2>1. gaveUp' \in BOOLEAN
    BY DEF ScanBle, JoinUsb, DiscoverInv, DiscoverTyped
  <2>. QED
    BY <1>1, <2>1 DEF DiscoverInv, DiscoverTyped, Scanning
<1>5. Found' /\ First' /\ Scored'
  BY <1>1, <1>2, <1>3 DEF DiscoverInv, Found, First, Scored, Scanning, Scoring
<1>6. ~gaveUp' => AllFound'
  <2>1. CASE \E works \in BOOLEAN : ScanBle(works)
    BY <1>1, <1>3, <2>1 DEF DiscoverInv, AllFound, ScanBle, Scoring
  <2>2. CASE \E timeout \in BOOLEAN : JoinUsb(timeout)
    BY <1>1, <1>3, <2>2 DEF DiscoverInv, DiscoverTyped, AllFound, JoinUsb, Scoring
  <2>. QED
    BY <2>1, <2>2
<1>. QED
  BY <1>4, <1>5, <1>6 DEF DiscoverInv

\* The scoring begins with what is found by then.
LEMMA JoinNetworkInv ==
    ASSUME DiscoverInv, NEW timeout \in BOOLEAN, JoinNetwork(timeout)
    PROVE  DiscoverInv'
<1>1. /\ UNCHANGED <<usbThere, bleThere, portOpen, usb, probe, results, netJoins, usbIds,
                     bleNames, score, chosen>>
      /\ main = "net" /\ main' = "score"
      /\ network' = ~timeout /\ gaveUp' = (gaveUp \/ timeout)
      /\ timeout <=> netJoins \in Signatures
      /\ known' = [s \in Signatures |->
                     Score(s, usbIds, bleNames, IF timeout THEN {} ELSE results)]
  BY DEF JoinNetwork, OnlyCaller, World
<1>2. \A s \in Signatures : There'[s] = There[s]
  BY <1>1 DEF There, Score
<1>3. \A s \in Signatures : known'[s] = Score(s, usbIds, bleNames, Ports')
  BY <1>1 DEF Ports
<1>4. \A s \in Signatures : Score(s, usbIds, bleNames, Ports') \in Nat /\ Score(s, usbIds, bleNames, Ports') <= 2500
  BY ScoreGrows
<1>5. DiscoverTyped'
  <2>1. \A s \in Signatures : known'[s] \in Nat /\ known'[s] <= 2500
    BY <1>3, <1>4
  <2>2. known' \in [Signatures -> Nat]
    BY <1>1, <2>1
  <2>. QED
    BY <1>1, <2>2 DEF DiscoverInv, DiscoverTyped, Scoring
<1>6. Found' /\ First'
  BY <1>1 DEF DiscoverInv, Found, First
<1>7. \A s \in Signatures : score'[s] = 0
  BY <1>1 DEF DiscoverInv, Scored, Scanning
<1>8. Scored'
  <2>1. \A s \in Signatures : known'[s] <= Score(s, usbIds, bleNames, Ports)'
    <3>1. \A s \in Signatures : Score(s, usbIds, bleNames, Ports)' = known'[s]
      BY <1>1, <1>3 DEF Score
    <3>. QED
      BY <1>5, <3>1 DEF DiscoverTyped
  <2>. QED
    BY <1>1, <1>7, <2>1 DEF Scored, Scanning
<1>9. ASSUME ~gaveUp' PROVE AllFound'
  <2>1. AllFound /\ netJoins \notin Signatures
    BY <1>1, <1>9 DEF DiscoverInv
  <2>2. \A s \in Signatures : s < netJoins
    BY <2>1, DiscoverAssumption DEF DiscoverInv, DiscoverTyped
  <2>. QED
    BY <1>1, <1>2, <1>7, <1>9, <2>1, <2>2 DEF AllFound, DiscoverInv, Found, Scoring
<1>. QED
  BY <1>5, <1>6, <1>8, <1>9 DEF DiscoverInv

LEMMA ScoreOneInv ==
    ASSUME DiscoverInv, NEW s \in Signatures, ScoreOne(s)
    PROVE  DiscoverInv'
<1>. DEFINE new == Score(s, usbIds, bleNames, Ports)
<1>1. /\ UNCHANGED <<usbThere, bleThere, portOpen, usb, probe, results, netJoins, usbIds,
                     bleNames, network, known, gaveUp, chosen>>
      /\ main = "score" /\ main' \in {"score", "choose"} /\ (main' = "choose" => s = LastSignature)
      /\ score' = [score EXCEPT ![s] = new + 1] /\ score[s] = 0
      /\ \A earlier \in 1..(s - 1) : score[earlier] > 0
  BY DEF ScoreOne, OnlyCaller, World
<1>2. new \in Nat /\ new <= 2500 /\ new <= There[s]
  <2>1. Ports \subseteq portOpen
    BY DEF Ports, DiscoverInv, Found
  <2>. QED
    BY <2>1, ScoreGrows, ThereIs DEF DiscoverInv, Found
<1>3. There[s] \in Nat /\ There[s] <= 2500
  BY ThereIs
<1>4. known[s] <= new
  BY <1>1 DEF DiscoverInv, Scored, Scoring
<1>5. ~gaveUp => new = There[s]
  <2>1. ASSUME ~gaveUp PROVE There[s] <= new
    <3>1. AllFound
      BY <2>1 DEF DiscoverInv
    <3>2. usbThere \subseteq usbIds /\ bleThere \subseteq bleNames
      BY <1>1, <3>1 DEF AllFound, Scoring
    <3>3. Ports = results /\ \A t \in Signatures : t \in portOpen => t \in results
      BY <1>1, <3>1 DEF AllFound, Scoring, Ports
    <3>4. s \in portOpen => s \in Ports
      BY <3>3
    <3>5. There[s] = Score(s, usbThere, bleThere, portOpen \cap {s})
      BY ThereIs DEF Score
    <3>6. portOpen \cap {s} \subseteq Ports
      BY <3>4
    <3>. QED
      BY <3>2, <3>5, <3>6, ScoreGrows
  <2>. HIDE DEF new
  <2>. QED
    BY <1>2, <1>3, <2>1
<1>6. \A t \in Signatures : Score(t, usbIds, bleNames, Ports)' = Score(t, usbIds, bleNames, Ports)
  BY <1>1 DEF Score, Ports
<1>. HIDE DEF new
<1>7. \A t \in Signatures : There'[t] = There[t]
  BY <1>1 DEF There, Score
<1>8. \A t \in Signatures : score'[t] = IF t = s THEN new + 1 ELSE score[t]
  BY <1>1 DEF DiscoverInv, DiscoverTyped
<1>9. DiscoverTyped'
  BY <1>1, <1>2 DEF DiscoverInv, DiscoverTyped, Scoring
<1>10. Found' /\ First'
  BY <1>1 DEF DiscoverInv, Found, First
<1>11. Scored'
  <2>1. \A t \in Signatures : score'[t] > 0 => known'[t] <= score'[t] - 1 /\ score'[t] - 1 <= There'[t]
    BY <1>1, <1>2, <1>4, <1>7, <1>8 DEF DiscoverInv, DiscoverTyped, Scored
  <2>2. \A t \in Signatures : known'[t] <= Score(t, usbIds, bleNames, Ports)'
    BY <1>1, <1>6 DEF DiscoverInv, Scored, Scoring
  <2>3. s = LastSignature => \A t \in Signatures : score'[t] > 0
    <3>1. PICK n \in Nat \ {0} : Signatures = 1..n
      BY DiscoverAssumption
    <3>2. s = LastSignature => s = n
      BY <3>1, LastIsGreatest
    <3>. QED
      BY <1>1, <1>2, <1>8, <3>1, <3>2
  <2>. QED
    BY <1>1, <2>1, <2>2, <2>3 DEF Scored, Scanning
<1>12. ~gaveUp' => AllFound'
  BY <1>1, <1>2, <1>5, <1>7, <1>8 DEF DiscoverInv, AllFound, Scoring
<1>. QED
  BY <1>9, <1>10, <1>11, <1>12 DEF DiscoverInv

LEMMA ChooseInv == DiscoverInv /\ Choose => DiscoverInv'
<1>. SUFFICES ASSUME DiscoverInv, Choose PROVE DiscoverInv'
  OBVIOUS
<1>. DEFINE best == {s \in Signatures : \A t \in Signatures : score[t] <= score[s]}
<1>1. /\ UNCHANGED <<usbThere, bleThere, portOpen, usb, probe, results, netJoins, usbIds,
                     bleNames, network, known, score, gaveUp>>
      /\ main = "choose" /\ main' = "returned"
      /\ chosen' = IF score[Min(best)] > 1 THEN Min(best) ELSE 0
  BY DEF Choose, OnlyCaller, World
<1>2. PICK n \in Nat \ {0} : Signatures = 1..n
  BY DiscoverAssumption
<1>3. \A s \in Signatures : score[s] \in Nat /\ score[s] <= 2501
  <2>1. \A s \in Signatures : There[s] \in Nat /\ There[s] <= 2500
    BY ThereIs
  <2>2. \A s \in Signatures : score[s] > 0 /\ score[s] - 1 <= There[s] /\ score[s] \in Nat
    BY <1>1 DEF DiscoverInv, DiscoverTyped, Scored
  <2>. QED
    BY <2>1, <2>2
<1>4. \E i \in 1..n : \A j \in 1..n : score[j] <= score[i]
  <2>1. PICK K \in Nat : K = 2501
    OBVIOUS
  <2>2. \A i \in 1..n : score[i] \in Nat /\ score[i] <= K
    BY <1>2, <1>3, <2>1
  <2>3. n \in Nat /\ n >= 1
    OBVIOUS
  <2>. QED
    BY <2>2, <2>3, Greatest, Zenon
<1>5. best # {} /\ best \in SUBSET Nat
  BY <1>2, <1>4
<1>6. Min(best) \in best /\ \A t \in best : Min(best) <= t
  BY <1>5, Least
<1>. DEFINE b == Min(best)
<1>7. b \in Signatures /\ \A t \in Signatures : score[t] <= score[b]
  BY <1>6
<1>8. \A t \in Signatures : t < b => score[t] < score[b]
  <2>. SUFFICES ASSUME NEW t \in Signatures, t < b, ~(score[t] < score[b]) PROVE FALSE
    OBVIOUS
  <2>1. score[t] = score[b]
    BY <1>3, <1>7
  <2>2. t \in best
    BY <1>7, <2>1
  <2>. QED
    BY <1>2, <1>6, <1>7, <2>2
<1>. HIDE DEF b
<1>9. chosen' = IF score[b] > 1 THEN b ELSE 0
  BY <1>1 DEF b
<1>. HIDE DEF best
<1>10. 0 \notin Signatures
  BY <1>2
<1>11. First'
  BY <1>1, <1>3, <1>7, <1>8, <1>9, <1>10 DEF First
<1>12. \A t \in Signatures : /\ There'[t] = There[t]
                             /\ Score(t, usbIds, bleNames, Ports)' = Score(t, usbIds, bleNames, Ports)
  BY <1>1 DEF There, Score, Ports
<1>13. DiscoverTyped'
  BY <1>1, <1>7, <1>9 DEF DiscoverInv, DiscoverTyped, Scoring
<1>14. Found'
  BY <1>1 DEF DiscoverInv, Found
<1>15. Scored'
  BY <1>1, <1>12 DEF DiscoverInv, Scored, Scanning, Scoring
<1>16. ~gaveUp' => AllFound'
  BY <1>1, <1>12 DEF DiscoverInv, AllFound, Scoring
<1>. QED
  BY <1>11, <1>13, <1>14, <1>15, <1>16 DEF DiscoverInv

\* The profile returned is of a device that is there, and none that the scans had
\* found more of is passed over, though probes go on meanwhile; if every scan
\* ended in time it is the best there is, the first of the manifest among equals.
THEOREM BestProfileReturned == DiscoverSpec => []BestFound
<1>1. DiscoverInv /\ [DiscoverNext]_discoverVars => DiscoverInv'
  <2>1. DiscoverInv /\ UNCHANGED discoverVars => DiscoverInv'
    <3>. SUFFICES ASSUME DiscoverInv, UNCHANGED discoverVars PROVE DiscoverInv'
      OBVIOUS
    <3>1. \A t \in Signatures : /\ There'[t] = There[t]
                                /\ Score(t, usbIds, bleNames, Ports)' = Score(t, usbIds, bleNames, Ports)
      BY DEF discoverVars, There, Score, Ports
    <3>2. DiscoverTyped' /\ Found' /\ First'
      BY DEF discoverVars, DiscoverInv, DiscoverTyped, Found, First
    <3>3. Scored' /\ (~gaveUp' => AllFound')
      BY <3>1 DEF discoverVars, DiscoverInv, Scored, AllFound
    <3>. QED
      BY <3>2, <3>3 DEF DiscoverInv
  <2>. QED
    BY <2>1, ThreadStepInv, ScanInv, JoinNetworkInv, ScoreOneInv, ChooseInv DEF DiscoverNext
<1>2. DiscoverInv => BestFound
  <2>. SUFFICES ASSUME DiscoverInv, main = "returned" PROVE BestFound
    BY DEF BestFound
  <2>. DEFINE there == [s \in Signatures |-> Score(s, usbThere, bleThere, portOpen)]
  <2>1. \A s \in Signatures : there[s] = There[s] /\ There[s] \in Nat /\ There[s] <= 2500
    BY ThereIs
  <2>. HIDE DEF there
  <2>2. \A s \in Signatures : /\ score[s] \in Nat /\ score[s] > 0 /\ known[s] \in Nat
                              /\ known[s] <= score[s] - 1 /\ score[s] - 1 <= there[s]
                              /\ there[s] \in Nat /\ s \in Nat
    <3>1. \A s \in Signatures : score[s] \in Nat /\ known[s] \in Nat /\ s \in Nat
      BY DiscoverAssumption DEF DiscoverInv, DiscoverTyped
    <3>2. \A s \in Signatures : /\ score[s] > 0 /\ known[s] <= score[s] - 1
                                /\ score[s] - 1 <= There[s]
      BY DEF DiscoverInv, Scored
    <3>. QED
      BY <2>1, <3>1, <3>2
  <2>3. IF chosen = 0 THEN \A s \in Signatures : score[s] <= 1
        ELSE /\ chosen \in Signatures /\ score[chosen] > 1
             /\ \A s \in Signatures : /\ score[s] <= score[chosen]
                                      /\ s < chosen => score[s] < score[chosen]
    BY DEF DiscoverInv, DiscoverTyped, First
  <2>4. chosen # 0 => there[chosen] > 0
    BY <2>2, <2>3
  <2>5. \A s \in Signatures : known[s] > 0 => chosen # 0 /\ known[s] <= score[chosen] - 1
    BY <2>2, <2>3
  <2>6. ASSUME ~gaveUp
        PROVE  /\ chosen = 0 <=> \A s \in Signatures : there[s] = 0
               /\ chosen # 0 => \A s \in Signatures :
                    there[s] < there[chosen] \/ (there[s] = there[chosen] /\ s >= chosen)
    <3>1. \A s \in Signatures : there[s] = score[s] - 1
      BY <2>1, <2>2, <2>6 DEF DiscoverInv, AllFound
    <3>2. chosen = 0 <=> \A s \in Signatures : there[s] = 0
      BY <2>2, <2>3, <3>1
    <3>3. ASSUME chosen # 0, NEW s \in Signatures
          PROVE  there[s] < there[chosen] \/ (there[s] = there[chosen] /\ s >= chosen)
      BY <2>2, <2>3, <3>1, <3>3
    <3>. QED
      BY <3>2, <3>3
  <2>. QED
    BY <2>4, <2>5, <2>6 DEF BestFound, there
<1>. QED
  BY <1>1, <1>2, DiscoverInvInit, PTL DEF DiscoverSpec

-----------------------------------------------------------------------------
(* SensorContext: what a channel, and a conflict, is worth.                *)

LEMMA ClampIs ==
    ASSUME NEW n \in Int
    PROVE  Clamp(n) = IF n < 0 THEN 0 ELSE IF n > 20 THEN 20 ELSE n
<1>1. ASSUME NEW a \in Int, NEW b \in Int
      PROVE  /\ Max({a, b}) = IF a >= b THEN a ELSE b
             /\ Min({a, b}) = IF a <= b THEN a ELSE b
  BY DEF Max, Min
<1>2. Min({20, n}) = IF 20 <= n THEN 20 ELSE n
  BY <1>1
<1>. DEFINE m == IF 20 <= n THEN 20 ELSE n
<1>3. Max({0, m}) = IF 0 >= m THEN 0 ELSE m
  BY <1>1
<1>. QED
  BY <1>2, <1>3 DEF Clamp

LEMMA NamesAre == IsFiniteSet(Names) /\ Cardinality(Names) = 4
<1>1. IsFiniteSet({}) /\ Cardinality({}) = 0
  BY FS_EmptySet
<1>2. IsFiniteSet({"audio"}) /\ Cardinality({"audio"}) = 1
  BY FS_Singleton
<1>3. IsFiniteSet({"audio", "visual"}) /\ Cardinality({"audio", "visual"}) = 2
  <2>1. {"audio", "visual"} = {"audio"} \cup {"visual"} /\ "visual" \notin {"audio"}
    OBVIOUS
  <2>. QED
    BY <1>2, <2>1, FS_AddElement
<1>4. IsFiniteSet({"audio", "visual", "motion"}) /\ Cardinality({"audio", "visual", "motion"}) = 3
  <2>1. {"audio", "visual", "motion"} = {"audio", "visual"} \cup {"motion"}
        /\ "motion" \notin {"audio", "visual"}
    OBVIOUS
  <2>. QED
    BY <1>3, <2>1, FS_AddElement
<1>5. Names = {"audio", "visual", "motion"} \cup {"proximity"}
      /\ "proximity" \notin {"audio", "visual", "motion"}
  BY DEF Names
<1>. QED
  BY <1>4, <1>5, FS_AddElement

\* A channel more is one more of the four.
LEMMA PresentCount ==
    ASSUME NEW c \in Inputs
    PROVE  /\ Cardinality(Present(c)) \in Nat /\ Cardinality(Present(c)) <= 4
           /\ Cardinality(Present(c)) = 4 <=> Present(c) = Names
           /\ \A n \in Present(c) :
                /\ Present(Without(c, n)) = Present(c) \ {n}
                /\ Cardinality(Present(Without(c, n))) = Cardinality(Present(c)) - 1
<1>1. Present(c) \subseteq Names
  BY DEF Present
<1>2. IsFiniteSet(Present(c)) /\ Cardinality(Present(c)) \in Nat
  BY <1>1, NamesAre, FS_Subset, FS_CardinalityType
<1>3. Cardinality(Present(c)) <= 4 /\ (Cardinality(Present(c)) = 4 <=> Present(c) = Names)
  BY <1>1, NamesAre, FS_Subset
<1>4. ASSUME NEW n \in Present(c)
      PROVE  Present(Without(c, n)) = Present(c) \ {n}
  <2>1. n \in Names /\ DOMAIN c = Names
    BY DEF Present, Inputs, Names
  <2>2. \A k \in Names : Without(c, n)[k] = IF k = n THEN Absent ELSE c[k]
    BY <2>1 DEF Without
  <2>. QED
    BY <2>1, <2>2 DEF Present
<1>5. \A n \in Present(c) : Cardinality(Present(c) \ {n}) = Cardinality(Present(c)) - 1
  BY <1>2, FS_RemoveElement
<1>. QED
  BY <1>2, <1>3, <1>4, <1>5

\* Without one of the channels there are no conflicts and no agreement that are
\* not there with it.
LEMMA WithoutLoses ==
    ASSUME NEW c \in Inputs, NEW n \in Present(c)
    PROVE  /\ CountConflict(Without(c, n)) => CountConflict(c)
           /\ MotionConflict(Without(c, n)) => MotionConflict(c)
           /\ SensorsCorroborate(Without(c, n)) => SensorsCorroborate(c)
<1>. DEFINE w == Without(c, n)
<1>1. Present(w) \subseteq Present(c)
  BY PresentCount
<1>2. \A k \in Present(w) : w[k] = c[k]
  <2>1. n \in Names /\ DOMAIN c = Names
    BY DEF Present, Inputs, Names
  <2>. QED
    BY <2>1 DEF Present, Without
<1>. HIDE DEF w
<1>3. /\ "audio" \in Present(w) => w.audio = c.audio
      /\ "visual" \in Present(w) => w.visual = c.visual
      /\ "motion" \in Present(w) => w.motion = c.motion
  BY <1>2
<1>4. CountConflict(w) => CountConflict(c)
  BY <1>1, <1>3 DEF CountConflict, Counted
<1>5. MotionConflict(w) => MotionConflict(c)
  BY <1>1, <1>3 DEF MotionConflict
<1>6. (CountAgrees(w) => CountAgrees(c)) /\ (MotionAgrees(w) => MotionAgrees(c))
      /\ (SpeakerSeen(w) => SpeakerSeen(c))
  BY <1>1, <1>3 DEF CountAgrees, Counted, MotionAgrees, SpeakerSeen
<1>. QED
  BY <1>4, <1>5, <1>6 DEF SensorsCorroborate, w

LEMMA ConflictCount ==
    ASSUME NEW c
    PROVE  Cardinality(DetectConflicts(c)) =
             (IF CountConflict(c) THEN 1 ELSE 0) + (IF MotionConflict(c) THEN 1 ELSE 0)
<1>1. IsFiniteSet({}) /\ Cardinality({}) = 0
  BY FS_EmptySet
<1>2. Cardinality({"count"}) = 1 /\ IsFiniteSet({"count"}) /\ Cardinality({"motion"}) = 1
  BY FS_Singleton
<1>3. Cardinality({"count"} \cup {"motion"}) = 2
  BY <1>2, FS_AddElement
<1>4. /\ CountConflict(c) /\ MotionConflict(c) => DetectConflicts(c) = {"count"} \cup {"motion"}
      /\ CountConflict(c) /\ ~MotionConflict(c) => DetectConflicts(c) = {"count"}
      /\ ~CountConflict(c) /\ MotionConflict(c) => DetectConflicts(c) = {"motion"}
      /\ ~CountConflict(c) /\ ~MotionConflict(c) => DetectConflicts(c) = {}
  BY DEF DetectConflicts
<1>. QED
  BY <1>1, <1>2, <1>3, <1>4

LEMMA LevelIs ==
    ASSUME NEW c \in Inputs
    PROVE  \E p, k, r \in Nat :
             /\ p = Cardinality(Present(c))
             /\ k = Cardinality(DetectConflicts(c)) /\ k <= 2
             /\ r = IF SensorsCorroborate(c) THEN 2 ELSE 0
             /\ AwarenessLevel(c) = LET n == 5 * p - 3 * k + r
                                    IN  IF n < 0 THEN 0 ELSE IF n > 20 THEN 20 ELSE n
<1>. DEFINE p == Cardinality(Present(c))
            k == Cardinality(DetectConflicts(c))
            r == IF SensorsCorroborate(c) THEN 2 ELSE 0
            n == 5 * p - 3 * k + r
<1>1. p \in Nat
  BY PresentCount
<1>2. k \in Nat /\ k <= 2
  BY ConflictCount
<1>3. r \in Nat
  OBVIOUS
<1>4. AwarenessLevel(c) = Clamp(n)
  BY DEF AwarenessLevel
<1>. HIDE DEF p, k, r
<1>5. n \in Int
  BY <1>1, <1>2, <1>3
<1>. HIDE DEF n
<1>6. AwarenessLevel(c) = IF n < 0 THEN 0 ELSE IF n > 20 THEN 20 ELSE n
  BY <1>4, <1>5, ClampIs
<1>. QED
  BY <1>1, <1>2, <1>3, <1>6 DEF p, k, r, n

\* A channel lowers the level only when it brings both conflicts with it.
LEMMA ChannelWorthHaving ==
    ASSUME NEW c \in Inputs, NEW n \in Present(c)
    PROVE  \/ AwarenessLevel(Without(c, n)) <= AwarenessLevel(c)
           \/ Cardinality(DetectConflicts(c)) = 2 /\ DetectConflicts(Without(c, n)) = {}
<1>. DEFINE w == Without(c, n)
<1>1. w \in Inputs
  <2>1. n \in Names /\ c[n] # Absent
    BY DEF Present
  <2>2. /\ n = "audio" => w = [c EXCEPT !.audio = Absent]
        /\ n = "visual" => w = [c EXCEPT !.visual = Absent]
        /\ n = "motion" => w = [c EXCEPT !.motion = Absent]
        /\ n = "proximity" => w = [c EXCEPT !.proximity = Absent]
    BY DEF Without
  <2>. HIDE DEF w
  <2>3. /\ [c EXCEPT !.audio = Absent] \in Inputs /\ [c EXCEPT !.visual = Absent] \in Inputs
        /\ [c EXCEPT !.motion = Absent] \in Inputs /\ [c EXCEPT !.proximity = Absent] \in Inputs
    BY DEF Inputs
  <2>. QED
    BY <2>1, <2>2, <2>3 DEF Names
<1>2. PICK p, k, r \in Nat :
             /\ p = Cardinality(Present(c))
             /\ k = Cardinality(DetectConflicts(c)) /\ k <= 2
             /\ r = IF SensorsCorroborate(c) THEN 2 ELSE 0
             /\ AwarenessLevel(c) = LET m == 5 * p - 3 * k + r
                                    IN  IF m < 0 THEN 0 ELSE IF m > 20 THEN 20 ELSE m
  BY LevelIs
<1>. HIDE DEF w
<1>3. PICK p1, k1, r1 \in Nat :
             /\ p1 = Cardinality(Present(w))
             /\ k1 = Cardinality(DetectConflicts(w)) /\ k1 <= 2
             /\ r1 = IF SensorsCorroborate(w) THEN 2 ELSE 0
             /\ AwarenessLevel(w) = LET m == 5 * p1 - 3 * k1 + r1
                                    IN  IF m < 0 THEN 0 ELSE IF m > 20 THEN 20 ELSE m
  BY <1>1, LevelIs
<1>4. p1 = p - 1
  BY <1>2, <1>3, PresentCount DEF w
<1>5. k1 <= k /\ r1 <= r
  BY <1>2, <1>3, WithoutLoses, ConflictCount DEF w
<1>6. k1 = 0 => DetectConflicts(w) = {}
  <2>1. k1 = (IF CountConflict(w) THEN 1 ELSE 0) + (IF MotionConflict(w) THEN 1 ELSE 0)
    BY <1>3, ConflictCount
  <2>2. k1 = 0 => ~CountConflict(w) /\ ~MotionConflict(w)
    BY <2>1
  <2>. QED
    BY <2>2 DEF DetectConflicts
<1>7. CASE k - k1 <= 1
  BY <1>2, <1>3, <1>4, <1>5, <1>7 DEF w
<1>8. CASE k - k1 > 1
  BY <1>2, <1>3, <1>5, <1>6, <1>8 DEF w
<1>. QED
  BY <1>2, <1>3, <1>7, <1>8

\* Below the threshold of limited coverage is one channel, and no more.
LEMMA LimitedIsOne ==
    ASSUME NEW c \in Inputs, Present(c) # {}
    PROVE  AwarenessLevel(c) < 6 <=> Cardinality(Present(c)) = 1
<1>1. PICK p, k, r \in Nat :
             /\ p = Cardinality(Present(c))
             /\ k = Cardinality(DetectConflicts(c)) /\ k <= 2
             /\ r = IF SensorsCorroborate(c) THEN 2 ELSE 0
             /\ AwarenessLevel(c) = LET m == 5 * p - 3 * k + r
                                    IN  IF m < 0 THEN 0 ELSE IF m > 20 THEN 20 ELSE m
  BY LevelIs
<1>2. IsFiniteSet(Present(c)) /\ p > 0
  <2>1. IsFiniteSet(Present(c))
    BY NamesAre, FS_Subset DEF Present
  <2>. QED
    BY <1>1, <2>1, FS_EmptySet
<1>3. {"audio", "visual"} \subseteq Present(c) => p >= 2
  <2>1. IsFiniteSet({"audio"}) /\ Cardinality({"audio"}) = 1
    BY FS_Singleton
  <2>2. Cardinality({"audio"} \cup {"visual"}) = 2 /\ {"audio", "visual"} = {"audio"} \cup {"visual"}
    BY <2>1, FS_AddElement
  <2>. QED
    BY <1>1, <1>2, <2>2, FS_Subset
<1>4. {"audio", "motion"} \subseteq Present(c) => p >= 2
  <2>1. IsFiniteSet({"audio"}) /\ Cardinality({"audio"}) = 1
    BY FS_Singleton
  <2>2. Cardinality({"audio"} \cup {"motion"}) = 2 /\ {"audio", "motion"} = {"audio"} \cup {"motion"}
    BY <2>1, FS_AddElement
  <2>. QED
    BY <1>1, <1>2, <2>2, FS_Subset
<1>5. {"audio", "visual", "motion"} \subseteq Present(c) => p >= 3
  <2>1. IsFiniteSet({"audio"}) /\ Cardinality({"audio"}) = 1
    BY FS_Singleton
  <2>2. /\ IsFiniteSet({"audio"} \cup {"visual"}) /\ Cardinality({"audio"} \cup {"visual"}) = 2
        /\ "motion" \notin {"audio"} \cup {"visual"}
        /\ {"audio", "visual", "motion"} = ({"audio"} \cup {"visual"}) \cup {"motion"}
    BY <2>1, FS_AddElement
  <2>3. Cardinality(({"audio"} \cup {"visual"}) \cup {"motion"}) = 3
    BY <2>2, FS_AddElement
  <2>. QED
    BY <1>1, <1>2, <2>2, <2>3, FS_Subset
<1>6. CountConflict(c) => {"audio", "visual"} \subseteq Present(c)
  BY DEF CountConflict, Counted
<1>7. MotionConflict(c) => {"audio", "motion"} \subseteq Present(c)
  BY DEF MotionConflict
<1>8. SensorsCorroborate(c) => {"audio", "visual"} \subseteq Present(c) \/ {"audio", "motion"} \subseteq Present(c)
  BY DEF SensorsCorroborate, CountAgrees, Counted, MotionAgrees, SpeakerSeen
<1>9. k = (IF CountConflict(c) THEN 1 ELSE 0) + (IF MotionConflict(c) THEN 1 ELSE 0)
  BY <1>1, ConflictCount
<1>10. k = 2 => p >= 3
  BY <1>5, <1>6, <1>7, <1>9
<1>11. k > 0 \/ r > 0 => p >= 2
  BY <1>1, <1>3, <1>4, <1>6, <1>7, <1>8, <1>9
<1>. DEFINE m == 5 * p - 3 * k + r
<1>12. p = 1 => m = 5
  BY <1>1, <1>11
<1>13. p # 1 => m >= 6
  BY <1>1, <1>2, <1>10
<1>14. m \in Int /\ AwarenessLevel(c) = IF m < 0 THEN 0 ELSE IF m > 20 THEN 20 ELSE m
  BY <1>1
<1>. HIDE DEF m
<1>. QED
  BY <1>1, <1>12, <1>13, <1>14

\* The level and the summary that are made of any channels: another channel is
\* worth having, counts that contradict one another do not agree, only four
\* channels without a conflict are certain, a conflict is said, and coverage is
\* called limited where one channel speaks alone.
THEOREM LevelIsFair == FusionSpec => []LevelFair
<1>. DEFINE Fresh == /\ channels \in Inputs
                     /\ \/ context = NoContext
                        \/ context = [level |-> AwarenessLevel(channels),
                                      conflicts |-> DetectConflicts(channels),
                                      summary |-> Summary(channels)]
<1>1. FusionInit => Fresh
  BY DEF FusionInit
<1>2. Fresh /\ [FusionNext]_fusionVars => Fresh'
  BY DEF FusionNext, Build, fusionVars
<1>3. Fresh => LevelFair
  <2>. SUFFICES ASSUME NEW c \in Inputs, channels = c, context # NoContext, Fresh PROVE LevelFair
    BY DEF LevelFair
  <2>1. /\ context.level = AwarenessLevel(c) /\ context.conflicts = DetectConflicts(c)
        /\ context.summary = Summary(c)
    OBVIOUS
  <2>2. ~(CountConflict(c) /\ CountAgrees(c))
    <3>. SUFFICES ASSUME CountConflict(c), CountAgrees(c) PROVE FALSE
      OBVIOUS
    <3>1. c.audio.speakers \in Nat /\ c.visual.people \in Nat
      BY FusionAssumption DEF CountAgrees, Counted, Present, Inputs, Audio, Visual, Names
    <3>. QED
      BY <3>1 DEF CountConflict, CountAgrees
  <2>3. context.level = 20 <=> Present(c) = Names /\ context.conflicts = {}
    <3>1. PICK p, k, r \in Nat :
             /\ p = Cardinality(Present(c))
             /\ k = Cardinality(DetectConflicts(c)) /\ k <= 2
             /\ r = IF SensorsCorroborate(c) THEN 2 ELSE 0
             /\ AwarenessLevel(c) = LET m == 5 * p - 3 * k + r
                                    IN  IF m < 0 THEN 0 ELSE IF m > 20 THEN 20 ELSE m
      BY LevelIs
    <3>2. p <= 4 /\ (p = 4 <=> Present(c) = Names) /\ r <= 2
      BY <3>1, PresentCount
    <3>3. k = 0 <=> DetectConflicts(c) = {}
      BY <3>1, ConflictCount, FS_EmptySet DEF DetectConflicts
    <3>4. AwarenessLevel(c) = 20 <=> p = 4 /\ k = 0
      <4>. DEFINE m == 5 * p - 3 * k + r
      <4>1. AwarenessLevel(c) = IF m < 0 THEN 0 ELSE IF m > 20 THEN 20 ELSE m
        BY <3>1
      <4>2. m \in Int
        BY <3>1
      <4>3. p = 4 /\ k = 0 => m >= 20
        BY <3>1
      <4>4. ~(p = 4 /\ k = 0) => m < 20
        BY <3>1, <3>2
      <4>. HIDE DEF m
      <4>. QED
        BY <4>1, <4>2, <4>3, <4>4
    <3>. QED
      BY <2>1, <3>2, <3>3, <3>4
  <2>4. context.conflicts = {} \/ "conflict" \in context.summary
    <3>1. Present(c) = {} => DetectConflicts(c) = {}
      BY DEF DetectConflicts, CountConflict, MotionConflict, Counted
    <3>. QED
      BY <2>1, <3>1 DEF Summary
  <2>5. \A n \in Present(c) :
          \/ AwarenessLevel(Without(c, n)) <= context.level
          \/ Cardinality(context.conflicts) = 2 /\ DetectConflicts(Without(c, n)) = {}
    BY <2>1, ChannelWorthHaving
  <2>6. "limited" \in context.summary <=> Cardinality(Present(c)) = 1
    <3>1. Present(c) # {} => (AwarenessLevel(c) < 6 <=> Cardinality(Present(c)) = 1)
      BY LimitedIsOne
    <3>2. Present(c) = {} => Cardinality(Present(c)) # 1
      BY FS_EmptySet
    <3>. QED
      BY <2>1, <3>1, <3>2 DEF Summary
  <2>. QED
    BY <2>2, <2>3, <2>4, <2>5, <2>6 DEF LevelFair
<1>. QED
  BY <1>1, <1>2, <1>3, PTL DEF FusionSpec

-----------------------------------------------------------------------------
(* The microphone HALs: audio in the order it was spoken.                  *)

Rising(s) == \A i, j \in 1..Len(s) : i < j => s[i] < s[j]
Before(s, t) == \A x \in Range(s), y \in Range(t) : x < y

LEMMA RangeIs ==
    ASSUME NEW s \in Seq(Nat)
    PROVE  /\ Range(s) = {s[i] : i \in 1..Len(s)} /\ Range(s) \subseteq Nat
           /\ \A i \in 1..Len(s) : s[i] \in Nat
           /\ Len(s) \in Nat
BY RangeEquality DEF Range

LEMMA RisingAppend ==
    ASSUME NEW s \in Seq(Nat), NEW n \in Nat
    PROVE  /\ Append(s, n) \in Seq(Nat) /\ Len(Append(s, n)) = Len(s) + 1
           /\ Range(Append(s, n)) = Range(s) \cup {n}
           /\ Rising(s) /\ (\A x \in Range(s) : x < n) => Rising(Append(s, n))
<1>. DEFINE a == Append(s, n)
<1>1. /\ a \in Seq(Nat) /\ Len(a) = Len(s) + 1 /\ a[Len(s) + 1] = n
      /\ \A i \in 1..Len(s) : a[i] = s[i]
  BY AppendProperties
<1>. HIDE DEF a
<1>2. Range(a) = {a[i] : i \in 1..Len(a)} /\ Range(s) = {s[i] : i \in 1..Len(s)} /\ Len(s) \in Nat
  BY <1>1, RangeIs
<1>3. Range(a) = Range(s) \cup {n}
  BY <1>1, <1>2, SMTT(30)
<1>4. ASSUME Rising(s), \A x \in Range(s) : x < n
      PROVE  Rising(a)
  <2>. SUFFICES ASSUME NEW i \in 1..Len(a), NEW j \in 1..Len(a), i < j PROVE a[i] < a[j]
    BY DEF Rising
  <2>1. i \in 1..Len(s) /\ a[i] = s[i] /\ s[i] \in Range(s)
    BY <1>1, <1>2, SMTT(30)
  <2>2. CASE j = Len(s) + 1
    BY <1>1, <1>4, <2>1, <2>2
  <2>3. CASE j # Len(s) + 1
    <3>1. j \in 1..Len(s)
      BY <1>1, <1>2, <2>3
    <3>. QED
      BY <1>1, <1>4, <2>1, <3>1 DEF Rising
  <2>. QED
    BY <2>2, <2>3
<1>. QED
  BY <1>1, <1>3, <1>4 DEF a

LEMMA RisingTail ==
    ASSUME NEW s \in Seq(Nat), s # << >>
    PROVE  /\ Head(s) \in Nat /\ Tail(s) \in Seq(Nat) /\ Len(Tail(s)) = Len(s) - 1
           /\ Range(s) = {Head(s)} \cup Range(Tail(s))
           /\ Rising(s) => Rising(Tail(s)) /\ \A x \in Range(Tail(s)) : Head(s) < x
<1>. DEFINE t == Tail(s)
<1>1. /\ t \in Seq(Nat) /\ Len(t) = Len(s) - 1 /\ \A i \in 1..Len(t) : t[i] = s[i + 1]
      /\ Head(s) \in Nat /\ Head(s) = s[1] /\ Len(s) \in Nat /\ Len(s) >= 1
  BY HeadTailProperties, EmptySeq
<1>. HIDE DEF t
<1>2. Range(t) = {t[i] : i \in 1..Len(t)} /\ Range(s) = {s[i] : i \in 1..Len(s)}
  BY <1>1, RangeIs
<1>3. Range(s) = {Head(s)} \cup Range(t)
  <2>1. \A i \in 1..Len(s) : i # 1 => i - 1 \in 1..Len(t) /\ t[i - 1] = s[i]
    BY <1>1
  <2>2. \A i \in 1..Len(s) : s[i] \in {Head(s)} \cup Range(t)
    BY <1>1, <1>2, <2>1
  <2>3. Head(s) \in Range(s)
    BY <1>1, <1>2
  <2>4. \A i \in 1..Len(t) : t[i] \in Range(s)
    BY <1>1, <1>2, SMTT(30)
  <2>. QED
    BY <1>2, <2>2, <2>3, <2>4
<1>4. ASSUME Rising(s)
      PROVE  Rising(t) /\ \A x \in Range(t) : Head(s) < x
  <2>1. \A i \in 1..Len(t) : i + 1 \in 1..Len(s) /\ t[i] = s[i + 1] /\ 1 < i + 1 /\ 1 \in 1..Len(s)
    BY <1>1
  <2>2. \A i \in 1..Len(t) : s[1] < s[i + 1]
    BY <1>4, <2>1 DEF Rising
  <2>3. ASSUME NEW i \in 1..Len(t), NEW j \in 1..Len(t), i < j
        PROVE  t[i] < t[j]
    <3>1. i + 1 < j + 1 /\ i + 1 \in 1..Len(s) /\ j + 1 \in 1..Len(s)
      BY <1>1, <2>3
    <3>2. s[i + 1] < s[j + 1]
      BY <1>4, <3>1 DEF Rising
    <3>. QED
      BY <2>1, <3>2
  <2>. QED
    BY <1>1, <1>2, <2>1, <2>2, <2>3 DEF Rising
<1>. QED
  BY <1>1, <1>3, <1>4 DEF t

LEMMA RisingConcat ==
    ASSUME NEW s \in Seq(Nat), NEW t \in Seq(Nat)
    PROVE  /\ s \o t \in Seq(Nat) /\ Range(s \o t) = Range(s) \cup Range(t)
           /\ Rising(s) /\ Rising(t) /\ Before(s, t) => Rising(s \o t)
<1>. DEFINE c == s \o t
<1>1. /\ c \in Seq(Nat) /\ Len(c) = Len(s) + Len(t)
      /\ \A i \in 1 .. Len(s) + Len(t) : c[i] = IF i <= Len(s) THEN s[i] ELSE t[i - Len(s)]
  BY ConcatProperties
<1>2. Range(c) = Range(s) \cup Range(t)
  BY RangeConcatenation
<1>. HIDE DEF c
<1>3. /\ \A i \in 1..Len(s) : s[i] \in Range(s)
      /\ \A i \in 1..Len(t) : t[i] \in Range(t)
      /\ Len(s) \in Nat /\ Len(t) \in Nat
  BY RangeIs
<1>4. ASSUME Rising(s), Rising(t), Before(s, t), NEW i \in 1..Len(c), NEW j \in 1..Len(c), i < j
      PROVE  c[i] < c[j]
  <2>1. CASE j <= Len(s)
    <3>1. i \in 1..Len(s) /\ j \in 1..Len(s)
      BY <1>1, <1>3, <1>4, <2>1
    <3>2. c[i] = s[i] /\ c[j] = s[j]
      BY <1>1, <1>3, <3>1
    <3>. QED
      BY <1>4, <3>1, <3>2 DEF Rising
  <2>2. CASE i > Len(s)
    <3>1. i - Len(s) \in 1..Len(t) /\ j - Len(s) \in 1..Len(t) /\ i - Len(s) < j - Len(s)
      BY <1>1, <1>3, <1>4, <2>2
    <3>2. c[i] = t[i - Len(s)] /\ c[j] = t[j - Len(s)]
      <4>1. i \in 1 .. Len(s) + Len(t) /\ j \in 1 .. Len(s) + Len(t) /\ ~(i <= Len(s)) /\ ~(j <= Len(s))
        BY <1>1, <1>3, <1>4, <2>2
      <4>. QED
        BY <1>1, <4>1
    <3>. QED
      BY <1>4, <3>1, <3>2 DEF Rising
  <2>3. CASE i <= Len(s) /\ j > Len(s)
    <3>1. i \in 1..Len(s) /\ j - Len(s) \in 1..Len(t)
      BY <1>1, <1>3, <1>4, <2>3
    <3>2. c[i] = s[i] /\ c[j] = t[j - Len(s)]
      <4>1. i \in 1 .. Len(s) + Len(t) /\ j \in 1 .. Len(s) + Len(t) /\ ~(j <= Len(s))
        BY <1>1, <1>3, <2>3
      <4>. QED
        BY <1>1, <2>3, <4>1
    <3>. QED
      BY <1>3, <1>4, <3>1, <3>2 DEF Before
  <2>. QED
    BY <1>1, <1>3, <2>1, <2>2, <2>3
<1>. QED
  BY <1>1, <1>2, <1>4 DEF Rising, c

LEMMA RisingNewest ==
    ASSUME NEW s \in Seq(Nat), NEW n \in Nat
    PROVE  /\ Newest(s, n) \in Seq(Nat) /\ Range(Newest(s, n)) \subseteq Range(s)
           /\ Rising(s) => Rising(Newest(s, n))
<1>1. CASE Len(s) <= n
  BY <1>1 DEF Newest
<1>2. CASE ~(Len(s) <= n)
  <2>. DEFINE m == Len(s) - n + 1
              w == SubSeq(s, m, Len(s))
  <2>1. Len(s) \in Nat /\ m \in 1..Len(s) + 1 /\ m \in Int /\ \A i \in m..Len(s) : s[i] \in Nat
    BY <1>2, RangeIs
  <2>2. /\ w \in Seq(Nat) /\ Len(w) = n /\ \A i \in 1..n : w[i] = s[m + i - 1]
    <3>1. /\ w \in Seq(Nat) /\ Len(w) = (IF m <= Len(s) THEN Len(s) - m + 1 ELSE 0)
          /\ \A i \in 1..Len(s) - m + 1 : w[i] = s[m + i - 1]
      BY <2>1, SubSeqProperties
    <3>. QED
      BY <1>2, <2>1, <3>1
  <2>. HIDE DEF w
  <2>3. \A i \in 1..n : m + i - 1 \in 1..Len(s)
    BY <1>2, <2>1
  <2>4. Range(w) = {w[i] : i \in 1..n} /\ Range(s) = {s[i] : i \in 1..Len(s)}
    BY <2>2, RangeIs
  <2>5. Range(w) \subseteq Range(s)
    BY <2>2, <2>3, <2>4
  <2>6. ASSUME Rising(s), NEW i \in 1..n, NEW j \in 1..n, i < j
        PROVE  w[i] < w[j]
    <3>1. m + i - 1 < m + j - 1
      BY <2>1, <2>6
    <3>. QED
      BY <2>2, <2>3, <2>6, <3>1 DEF Rising
  <2>. QED
    BY <1>2, <2>2, <2>5, <2>6 DEF Newest, Rising, w
<1>. QED
  BY <1>1, <1>2

PollerPlaces == [pc : {"unborn", "top", "get", "put", "full", "again", "dead"}, held : Nat]
MicTyped == /\ frame \in Nat /\ buffer \in Seq(Nat) /\ heard \in Seq(Nat)
            /\ taken \in [want : Nat, frames : Seq(Nat)]
            /\ poller \in [Pollers -> PollerPlaces]

\* All frames that are anywhere on their way.
Kept == Range(buffer) \cup Range(taken.frames) \cup Range(heard)

\* The frames that are on their way are in order: first those given, then those
\* collected, then those in the buffer.  A ring gives copies of what it keeps.
FramesInOrder ==
    /\ Rising(buffer) /\ Rising(taken.frames) /\ Rising(heard)
    /\ \A x \in Kept : x <= frame
    /\ mic \notin {"pi", "openglass"}
         => /\ Before(heard, taken.frames) /\ Before(heard, buffer)
            /\ Before(taken.frames, buffer)
    /\ mic \notin {"reachy", "g2"} => taken = NotReading
    /\ (mic \in {"pi", "openglass"} /\ buffer # << >>) => Last(buffer) = frame

\* One thread polls, and holds the newest frame until it has put it away; it is
\* never without room when it tries again.
OnePoller ==
    /\ \A p, q \in Pollers : p \in Awake /\ q \in Awake => p = q
    /\ mic # "reachy" => Awake = {}
    /\ mic = "reachy" => Len(buffer) <= Capacity
    /\ \A p \in Pollers : poller[p].pc \in {"put", "full", "again"} =>
         /\ poller[p].held = frame
         /\ \A x \in Kept : x < frame
    /\ \A p \in Pollers : poller[p].pc = "again" => Len(buffer) < Capacity
    /\ (mic = "reachy" /\ ~Waiting /\ frame > 0) => frame \in Kept

MicInv == ~twin => MicTyped /\ FramesInOrder /\ OnePoller

LEMMA NewestEndsAlike ==
    ASSUME NEW s \in Seq(Nat), Len(s) > 0, NEW n \in Nat \ {0}
    PROVE  Last(Newest(s, n)) = s[Len(s)]
<1>1. PICK l \in Nat : l = Len(s)
  BY RangeIs
<1>2. CASE l <= n
  BY <1>1, <1>2 DEF Newest, Last
<1>3. CASE ~(l <= n)
  <2>1. l - n + 1 \in 1..l /\ l - (l - n + 1) + 1 = n /\ l - n + 1 + n - 1 = l
    BY <1>3
  <2>2. /\ Len(SubSeq(s, l - n + 1, l)) = n
        /\ SubSeq(s, l - n + 1, l)[n] = s[l]
    BY <1>1, <2>1
  <2>. QED
    BY <1>1, <1>3, <2>2 DEF Newest, Last
<1>. QED
  BY <1>2, <1>3

LEMMA EmptyRising == << >> \in Seq(Nat) /\ Len(<< >>) = 0 /\ Rising(<< >>) /\ Range(<< >>) = {}
<1>1. << >> \in Seq(Nat) /\ Len(<< >>) = 0
  BY EmptySeq
<1>2. Range(<< >>) = {<< >>[i] : i \in 1..0}
  BY <1>1, RangeIs
<1>. QED
  BY <1>1, <1>2 DEF Rising

LEMMA MicInvInit == MicInit => MicInv
<1>. SUFFICES ASSUME MicInit PROVE MicTyped /\ FramesInOrder /\ OnePoller
  BY DEF MicInv
<1>. DEFINE none == << >>
<1>1. none \in Seq(Nat) /\ Len(none) = 0 /\ Rising(none) /\ Range(none) = {}
  BY EmptyRising
<1>2. /\ frame = 0 /\ buffer = none /\ heard = none
      /\ taken = NotReading /\ taken.frames = none /\ taken.want = 0
      /\ poller = [p \in Pollers |-> [pc |-> "unborn", held |-> 0]]
  BY DEF MicInit, NotReading
<1>3. taken \in [want : Nat, frames : Seq(Nat)]
  BY <1>1, <1>2 DEF NotReading
<1>. HIDE DEF none
<1>4. MicTyped
  BY <1>1, <1>2, <1>3 DEF MicTyped, PollerPlaces
<1>5. Kept = {}
  BY <1>1, <1>2 DEF Kept
<1>6. FramesInOrder
  BY <1>1, <1>2, <1>5 DEF FramesInOrder, Before
<1>7. OnePoller
  BY <1>1, <1>2, <1>5, MicAssumption DEF OnePoller, Awake, Waiting
<1>. QED
  BY <1>4, <1>6, <1>7

\* A step of one poller, or the start of one.
LEMMA PollerStepInv ==
    ASSUME ~twin, MicTyped, FramesInOrder, OnePoller, NEW p \in Pollers,
           PollTests(p) \/ Poll(p) \/ PollEnds(p) \/ Put(p) \/ PutRefused(p) \/ MakeRoom(p) \/ PutAgain(p)
    PROVE  MicTyped' /\ FramesInOrder' /\ OnePoller'
<1>1. /\ poller[p] \in PollerPlaces /\ poller[p].held \in Nat
      /\ taken.frames \in Seq(Nat)
  BY DEF MicTyped, PollerPlaces
<1>2. mic = "reachy" /\ \A q \in Pollers : q \in Awake => q = p
  <2>1. p \in Awake
    BY DEF PollTests, Poll, PollEnds, Put, PutRefused, MakeRoom, PutAgain, At, Awake
  <2>. QED
    BY <2>1 DEF OnePoller
<1>3. UNCHANGED <<mic, taken, heard>>
  BY DEF PollTests, Poll, PollEnds, Put, PutRefused, MakeRoom, PutAgain, OnlyBuffer
<1>4. Range(heard) \subseteq Nat /\ Range(taken.frames) \subseteq Nat /\ Range(buffer) \subseteq Nat
      /\ Len(buffer) \in Nat
  BY <1>1, RangeIs DEF MicTyped
<1>5. ASSUME NEW n \in PollerPlaces, poller' = [poller EXCEPT ![p] = n]
      PROVE  /\ poller' \in [Pollers -> PollerPlaces]
             /\ \A q \in Pollers : poller'[q] = IF q = p THEN n ELSE poller[q]
             /\ \A q \in Pollers : q # p => q \notin Awake /\ q \notin Awake'
                                            /\ poller'[q].pc \notin {"put", "full", "again"}
  <2>1. \A q \in Pollers : poller'[q] = IF q = p THEN n ELSE poller[q]
    BY <1>5 DEF MicTyped
  <2>. QED
    BY <1>2, <1>5, <2>1 DEF MicTyped, Awake
<1>6. CASE PollTests(p) \/ PollEnds(p)
  <2>1. PICK n \in PollerPlaces : /\ poller' = [poller EXCEPT ![p] = n]
                                  /\ n.pc \in {"get", "dead"}
    <3>1. PICK to \in {"get", "dead"} : poller' = [poller EXCEPT ![p].pc = to]
      BY <1>6 DEF PollTests, PollEnds, At
    <3>2. [poller[p] EXCEPT !.pc = to] \in PollerPlaces
      BY <1>1 DEF PollerPlaces
    <3>. QED
      BY <1>1, <3>1, <3>2 DEF PollerPlaces
  <2>2. UNCHANGED <<frame, buffer>> /\ poller[p].pc = "top"
    BY <1>6 DEF PollTests, PollEnds, At, OnlyBuffer
  <2>3. Kept' = Kept
    BY <1>3, <2>2 DEF Kept
  <2>4. ~Waiting /\ ~Waiting'
    BY <1>2, <1>5, <2>1, <2>2 DEF Waiting, Awake
  <2>5. MicTyped' /\ FramesInOrder'
    BY <1>3, <1>5, <2>1, <2>2, <2>3 DEF MicTyped, FramesInOrder, Before
  <2>6. OnePoller'
    BY <1>2, <1>3, <1>5, <2>1, <2>2, <2>3, <2>4 DEF OnePoller, Awake
  <2>. QED
    BY <2>5, <2>6
<1>7. CASE Poll(p)
  <2>1. /\ frame' = frame + 1 /\ UNCHANGED buffer /\ frame \in Nat
        /\ poller' = [poller EXCEPT ![p] = [pc |-> "put", held |-> frame']]
    BY <1>7 DEF Poll, MicTyped
  <2>2. [pc |-> "put", held |-> frame'] \in PollerPlaces
    BY <2>1 DEF PollerPlaces
  <2>3. Kept' = Kept /\ Kept \subseteq Nat
    BY <1>3, <1>4, <2>1 DEF Kept
  <2>4. poller'[p].pc = "put" /\ poller'[p].held = frame'
    BY <1>5, <2>1, <2>2
  <2>5. MicTyped'
    BY <1>3, <1>5, <2>1, <2>2 DEF MicTyped
  <2>6. \A x \in Kept : x < frame'
    <3>1. \A x \in Kept : x \in Nat /\ x <= frame
      BY <2>3 DEF FramesInOrder
    <3>. QED
      BY <2>1, <3>1
  <2>7. FramesInOrder'
    BY <1>2, <1>3, <2>1, <2>3, <2>6 DEF FramesInOrder, Before
  <2>8. Waiting'
    BY <2>4 DEF Waiting
  <2>9. OnePoller'
    BY <1>2, <1>3, <1>5, <2>1, <2>2, <2>3, <2>4, <2>6, <2>8 DEF OnePoller, Awake
  <2>. QED
    BY <2>5, <2>7, <2>9
\* The frame goes to the end of the buffer.
<1>8. CASE (Put(p) \/ PutAgain(p)) /\ Len(buffer) < Capacity
  <2>. DEFINE held1 == poller[p].held
  <2>1. /\ buffer' = Append(buffer, held1) /\ UNCHANGED frame
        /\ poller' = [poller EXCEPT ![p].pc = "top"] /\ poller[p].pc \in {"put", "again"}
    BY <1>8 DEF Put, PutAgain, At, OnlyBuffer
  <2>2. held1 = frame /\ \A x \in Kept : x < frame
    BY <2>1 DEF OnePoller
  <2>. DEFINE n == [poller[p] EXCEPT !.pc = "top"]
  <2>3. n \in PollerPlaces /\ n.pc = "top" /\ poller' = [poller EXCEPT ![p] = n]
    BY <1>1, <2>1 DEF PollerPlaces
  <2>. HIDE DEF n
  <2>4. /\ buffer' \in Seq(Nat) /\ Range(buffer') = Range(buffer) \cup {frame} /\ Rising(buffer')
        /\ Len(buffer') = Len(buffer) + 1
    <3>1. \A x \in Range(buffer) : x < held1
      BY <2>2 DEF Kept
    <3>. QED
      BY <1>1, <2>1, <2>2, <3>1, RisingAppend DEF MicTyped, FramesInOrder
  <2>. HIDE DEF held1
  <2>5. Kept' = Kept \cup {frame}
    BY <1>3, <2>4 DEF Kept
  <2>6. MicTyped'
    BY <1>3, <1>5, <2>1, <2>3, <2>4 DEF MicTyped
  <2>7. Before(heard, buffer)' /\ Before(taken.frames, buffer)'
    BY <1>2, <1>3, <2>2, <2>4 DEF FramesInOrder, Before, Kept
  <2>8. FramesInOrder'
    <3>1. \A x \in Kept' : x <= frame'
      BY <1>4, <2>1, <2>5 DEF FramesInOrder, MicTyped
    <3>. QED
      BY <1>2, <1>3, <2>4, <2>7, <3>1 DEF FramesInOrder, Before
  <2>9. Len(buffer') <= Capacity
    BY <1>4, <1>8, <2>4, MicAssumption
  <2>10. OnePoller'
    BY <1>2, <1>3, <1>5, <2>1, <2>3, <2>5, <2>9 DEF OnePoller, Awake
  <2>. QED
    BY <2>6, <2>8, <2>10
\* The frame has to wait: the queue is full, or its oldest frame goes.
<1>9. CASE PutRefused(p) \/ MakeRoom(p)
  <2>1. /\ UNCHANGED frame /\ poller[p].pc \in {"put", "full"}
        /\ \/ buffer' = buffer /\ poller' = [poller EXCEPT ![p].pc = "full"]
           \/ /\ buffer' = IF buffer = << >> THEN buffer ELSE Tail(buffer)
              /\ poller' = [poller EXCEPT ![p].pc = "again"]
    BY <1>9 DEF PutRefused, MakeRoom, At, OnlyBuffer
  <2>2. PICK to \in {"full", "again"} :
           /\ poller' = [poller EXCEPT ![p].pc = to]
           /\ to = "full" => buffer' = buffer
           /\ to = "again" => buffer' = IF buffer = << >> THEN buffer ELSE Tail(buffer)
    BY <2>1
  <2>. DEFINE n == [poller[p] EXCEPT !.pc = to]
  <2>3. /\ n \in PollerPlaces /\ n.pc = to /\ n.held = poller[p].held
        /\ poller' = [poller EXCEPT ![p] = n]
    BY <1>1, <2>2 DEF PollerPlaces
  <2>. HIDE DEF n
  <2>4. /\ buffer' \in Seq(Nat) /\ Range(buffer') \subseteq Range(buffer) /\ Rising(buffer')
        /\ Len(buffer') <= Len(buffer)
        /\ to = "again" => Len(buffer') < Capacity
    <3>1. CASE buffer' = buffer
      <4>1. to = "again" => Len(buffer) = 0
        <5>1. buffer # << >> => Len(Tail(buffer)) = Len(buffer) - 1
          BY RisingTail DEF MicTyped, FramesInOrder
        <5>. QED
          BY <1>4, <2>2, <3>1, <5>1, EmptyRising
      <4>. QED
        BY <1>4, <3>1, <4>1, MicAssumption DEF MicTyped, FramesInOrder
    <3>2. CASE buffer # << >> /\ buffer' = Tail(buffer)
      <4>1. /\ Tail(buffer) \in Seq(Nat) /\ Range(Tail(buffer)) \subseteq Range(buffer)
            /\ Rising(Tail(buffer)) /\ Len(Tail(buffer)) = Len(buffer) - 1
        BY <3>2, RisingTail DEF MicTyped, FramesInOrder
      <4>2. Len(buffer) <= Capacity
        BY <1>2 DEF OnePoller
      <4>. QED
        BY <1>4, <3>2, <4>1, <4>2, MicAssumption
    <3>. QED
      BY <2>2, <3>1, <3>2
  <2>5. Kept' \subseteq Kept
    BY <1>3, <2>4 DEF Kept
  <2>6. MicTyped'
    BY <1>3, <1>5, <2>1, <2>3, <2>4 DEF MicTyped
  <2>7. FramesInOrder'
    BY <1>2, <1>3, <2>1, <2>4, <2>5 DEF FramesInOrder, Before
  <2>8. Len(buffer') <= Capacity
    BY <1>2, <1>4, <2>4, MicAssumption DEF OnePoller
  <2>9. Waiting'
    BY <1>5, <2>3 DEF Waiting
  <2>10. poller[p].held = frame /\ \A x \in Kept' : x < frame'
    BY <2>1, <2>5 DEF OnePoller
  <2>11. OnePoller'
    BY <1>2, <1>3, <1>5, <2>1, <2>3, <2>4, <2>8, <2>9, <2>10 DEF OnePoller, Awake
  <2>. QED
    BY <2>6, <2>7, <2>11
<1>. QED
  <2>1. Put(p) => Len(buffer) < Capacity
    BY DEF Put
  <2>2. PutAgain(p) => Len(buffer) < Capacity
    BY DEF PutAgain, At, OnePoller
  <2>. QED
    BY <1>6, <1>7, <1>8, <1>9, <2>1, <2>2

\* Audio that arrives at one of the others.
LEMMA PushInv ==
    ASSUME ~twin, MicTyped, FramesInOrder, OnePoller, Push
    PROVE  MicTyped' /\ FramesInOrder' /\ OnePoller'
<1>1. /\ frame \in Nat /\ frame' = frame + 1 /\ mic # "reachy"
      /\ UNCHANGED <<mic, poller, taken, heard>> /\ taken.frames \in Seq(Nat)
      /\ buffer \in Seq(Nat) /\ heard \in Seq(Nat) /\ Capacity \in Nat
  BY MicAssumption DEF Push, MicTyped
<1>. DEFINE longer == Append(buffer, frame')
<1>2. /\ Kept \subseteq Nat /\ \A x \in Kept : x < frame'
      /\ Range(heard) \subseteq Kept /\ Range(taken.frames) \subseteq Kept /\ Range(buffer) \subseteq Kept
  <2>1. Kept \subseteq Nat /\ Range(heard) \subseteq Kept /\ Range(taken.frames) \subseteq Kept
        /\ Range(buffer) \subseteq Kept
    BY <1>1, RangeIs DEF Kept
  <2>2. \A x \in Kept : x \in Nat /\ x <= frame
    BY <2>1 DEF FramesInOrder
  <2>. QED
    BY <1>1, <2>1, <2>2
<1>3. /\ longer \in Seq(Nat) /\ Range(longer) = Range(buffer) \cup {frame'} /\ Rising(longer)
  <2>1. frame' \in Nat
    BY <1>1
  <2>2. Rising(buffer)
    BY DEF FramesInOrder
  <2>. QED
    BY <1>1, <1>2, <2>1, <2>2, RisingAppend
<1>4. /\ Newest(longer, Capacity) \in Seq(Nat) /\ Rising(Newest(longer, Capacity))
      /\ Range(Newest(longer, Capacity)) \subseteq Range(longer)
      /\ Last(Newest(longer, Capacity)) = frame'
  <2>1. Len(longer) \in Nat /\ Len(longer) > 0 /\ longer[Len(longer)] = frame'
    BY <1>1
  <2>. QED
    BY <1>1, <1>3, <2>1, RisingNewest, NewestEndsAlike, MicAssumption
<1>5. buffer' = Newest(longer, Capacity) \/ buffer' = longer \/ buffer' = buffer
  BY DEF Push
<1>11. mic \in {"pi", "openglass"} => buffer' = Newest(longer, Capacity)
  BY DEF Push
<1>. HIDE DEF longer
<1>6. /\ buffer' \in Seq(Nat) /\ Rising(buffer')
      /\ Range(buffer') \subseteq Range(buffer) \cup {frame'}
  BY <1>1, <1>3, <1>4, <1>5 DEF FramesInOrder
<1>7. Kept' \subseteq Kept \cup {frame'}
  BY <1>1, <1>6 DEF Kept
<1>8. MicTyped'
  <2>1. frame' \in Nat
    BY <1>1
  <2>. QED
    BY <1>1, <1>6, <2>1 DEF MicTyped
<1>9. FramesInOrder'
  <2>1. \A x \in Kept' : x <= frame'
    BY <1>1, <1>2, <1>7
  <2>2. Before(heard, buffer) => Before(heard', buffer')
    BY <1>1, <1>2, <1>6 DEF Before
  <2>3. Before(taken.frames, buffer) => Before(taken'.frames, buffer')
    BY <1>1, <1>2, <1>6 DEF Before
  <2>4. Before(heard, taken.frames) => Before(heard', taken'.frames)
    BY <1>1
  <2>5. Rising(taken'.frames) /\ Rising(heard')
    BY <1>1 DEF FramesInOrder
  <2>6. mic \in {"pi", "openglass"} => Last(buffer') = frame'
    BY <1>4, <1>11
  <2>. QED
    BY <1>1, <1>6, <2>1, <2>2, <2>3, <2>4, <2>5, <2>6 DEF FramesInOrder
<1>10. OnePoller'
  <2>1. \A p \in Pollers : p \notin Awake /\ p \notin Awake' /\ poller'[p].pc \notin {"put", "full", "again"}
    BY <1>1 DEF OnePoller, Awake
  <2>. QED
    BY <1>1, <2>1 DEF OnePoller, Awake
<1>. QED
  BY <1>8, <1>9, <1>10

\* Audio on its way from the buffer to the listener: what is kept stays kept, or
\* is a copy of it, and the order stays.
LEMMA ReadInv ==
    ASSUME ~twin, MicTyped, FramesInOrder, OnePoller, UNCHANGED <<mic, frame, poller>>,
           taken' \in [want : Nat, frames : Seq(Nat)], buffer' \in Seq(Nat), heard' \in Seq(Nat),
           Rising(buffer'), Rising(taken'.frames), Rising(heard'),
           Kept' \subseteq Kept, Len(buffer') <= Len(buffer),
           mic = "reachy" => Kept' = Kept,
           mic \notin {"pi", "openglass"} =>
              /\ Before(heard', taken'.frames) /\ Before(heard', buffer')
              /\ Before(taken'.frames, buffer'),
           mic \notin {"reachy", "g2"} => taken' = NotReading,
           mic \in {"pi", "openglass"} => buffer' = buffer \/ buffer' = << >>
    PROVE  MicTyped' /\ FramesInOrder' /\ OnePoller'
<1>1. MicTyped'
  BY DEF MicTyped
<1>2. FramesInOrder'
  BY DEF FramesInOrder
<1>3. Len(buffer) \in Nat /\ Len(buffer') \in Nat /\ Capacity \in Nat
  BY MicAssumption, RangeIs DEF MicTyped
<1>4. Awake' = Awake /\ Waiting' = Waiting
  BY DEF Awake, Waiting
<1>5. /\ \A p, q \in Pollers : p \in Awake' /\ q \in Awake' => p = q
      /\ mic' # "reachy" => Awake' = {}
  BY <1>4 DEF OnePoller
<1>6. mic' = "reachy" => Len(buffer') <= Capacity
  BY <1>3 DEF OnePoller
<1>7. \A p \in Pollers : poller'[p].pc \in {"put", "full", "again"} =>
         poller'[p].held = frame' /\ \A x \in Kept' : x < frame'
  BY DEF OnePoller
<1>8. \A p \in Pollers : poller'[p].pc = "again" => Len(buffer') < Capacity
  BY <1>3 DEF OnePoller
<1>9. (mic' = "reachy" /\ ~Waiting' /\ frame' > 0) => frame' \in Kept'
  BY <1>4 DEF OnePoller
<1>. QED
  BY <1>1, <1>2, <1>5, <1>6, <1>7, <1>8, <1>9 DEF OnePoller

LEMMA ReadStepInv ==
    ASSUME ~twin, MicTyped, FramesInOrder, OnePoller,
           \/ TakeOne \/ Collect \/ Deliver
           \/ \E n \in 1..Capacity : Look(n) \/ Ask(n)
    PROVE  MicTyped' /\ FramesInOrder' /\ OnePoller'
<1>1. /\ UNCHANGED <<mic, frame, poller>>
      /\ buffer \in Seq(Nat) /\ heard \in Seq(Nat) /\ taken.frames \in Seq(Nat) /\ taken.want \in Nat
      /\ taken \in [want : Nat, frames : Seq(Nat)] /\ Len(buffer) \in Nat
      /\ Rising(buffer) /\ Rising(heard) /\ Rising(taken.frames)
  BY RangeIs DEF TakeOne, Collect, Deliver, Look, Ask, NotBuffer, MicTyped, FramesInOrder
<1>. DEFINE none == << >>
<1>2. none \in Seq(Nat) /\ Len(none) = 0 /\ Rising(none) /\ Range(none) = {}
  BY EmptyRising
<1>3. /\ NotReading \in [want : Nat, frames : Seq(Nat)]
      /\ NotReading.frames = none /\ NotReading.want = 0
  BY <1>2 DEF NotReading
<1>4. mic \notin {"pi", "openglass"} =>
         Before(heard, taken.frames) /\ Before(heard, buffer) /\ Before(taken.frames, buffer)
  BY DEF FramesInOrder
<1>5. /\ \A x \in Range(buffer) : x \in Nat
      /\ \A x \in Range(heard) : x \in Nat
      /\ \A x \in Range(taken.frames) : x \in Nat
  BY <1>1, RangeIs
<1>6. CASE TakeOne
  <2>1. /\ buffer # << >> /\ buffer' = Tail(buffer) /\ heard' = Append(heard, Head(buffer))
        /\ taken' = taken /\ mic \in {"ios", "rayban"}
    BY <1>6 DEF TakeOne
  <2>2. /\ Head(buffer) \in Nat /\ Tail(buffer) \in Seq(Nat) /\ Len(Tail(buffer)) = Len(buffer) - 1
        /\ Range(buffer) = {Head(buffer)} \cup Range(Tail(buffer)) /\ Rising(Tail(buffer))
        /\ \A x \in Range(Tail(buffer)) : Head(buffer) < x
    BY <1>1, <2>1, RisingTail
  <2>. DEFINE first == Head(buffer)
              rest == Tail(buffer)
  <2>. HIDE DEF first, rest
  <2>3. taken = NotReading
    BY <2>1 DEF FramesInOrder
  <2>4. \A x \in Range(heard) : x < first
    BY <1>4, <2>1, <2>2 DEF Before, first
  <2>5. /\ heard' \in Seq(Nat) /\ Range(heard') = Range(heard) \cup {first} /\ Rising(heard')
    BY <1>1, <2>1, <2>2, <2>4, RisingAppend DEF first
  <2>6. Kept' = Kept
    BY <2>1, <2>2, <2>5 DEF Kept, first
  <2>7. Before(heard', buffer')
    BY <1>4, <2>1, <2>2, <2>5 DEF Before, first
  <2>8. Before(heard', taken'.frames) /\ Before(taken'.frames, buffer')
    BY <1>2, <1>3, <2>1, <2>3 DEF Before
  <2>9. Len(buffer') <= Len(buffer)
    BY <1>1, <2>1, <2>2
  <2>10. taken' \in [want : Nat, frames : Seq(Nat)] /\ Rising(taken'.frames) /\ buffer' \in Seq(Nat)
         /\ Rising(buffer') /\ taken' = NotReading
    BY <1>1, <2>1, <2>2, <2>3
  <2>. QED
    BY <1>1, <2>1, <2>5, <2>6, <2>7, <2>8, <2>9, <2>10, ReadInv
<1>7. CASE Collect
  <2>1. /\ buffer # << >> /\ buffer' = Tail(buffer) /\ heard' = heard
        /\ taken' = [taken EXCEPT !.frames = Append(taken.frames, Head(buffer))]
        /\ taken.want > Len(taken.frames)
    BY <1>7 DEF Collect
  <2>2. /\ Head(buffer) \in Nat /\ Tail(buffer) \in Seq(Nat) /\ Len(Tail(buffer)) = Len(buffer) - 1
        /\ Range(buffer) = {Head(buffer)} \cup Range(Tail(buffer)) /\ Rising(Tail(buffer))
        /\ \A x \in Range(Tail(buffer)) : Head(buffer) < x
    BY <1>1, <2>1, RisingTail
  <2>. DEFINE first == Head(buffer)
              more == Append(taken.frames, first)
  <2>. HIDE DEF first
  <2>3. mic \in {"reachy", "g2"}
    BY <1>1, <1>3, <2>1, RangeIs DEF FramesInOrder
  <2>4. \A x \in Range(taken.frames) : x < first
    BY <1>4, <2>2, <2>3 DEF Before, first
  <2>5. /\ more \in Seq(Nat) /\ Range(more) = Range(taken.frames) \cup {first} /\ Rising(more)
    BY <1>1, <2>2, <2>4, RisingAppend DEF first
  <2>. HIDE DEF more
  <2>6. taken' = [taken EXCEPT !.frames = more]
    BY <2>1 DEF more, first
  <2>7. taken' \in [want : Nat, frames : Seq(Nat)] /\ taken'.frames = more
    BY <1>1, <2>5, <2>6
  <2>8. Kept' = Kept
    BY <2>1, <2>2, <2>5, <2>7 DEF Kept, first
  <2>9. Before(heard', taken'.frames)
    BY <1>4, <2>1, <2>2, <2>3, <2>5, <2>7 DEF Before, first
  <2>10. Before(heard', buffer')
    BY <1>4, <2>1, <2>2, <2>3 DEF Before
  <2>11. Before(taken'.frames, buffer')
    BY <1>4, <2>1, <2>2, <2>3, <2>5, <2>7 DEF Before, first
  <2>12. Len(buffer') <= Len(buffer)
    BY <1>1, <2>1, <2>2
  <2>13. /\ heard' \in Seq(Nat) /\ Rising(heard') /\ buffer' \in Seq(Nat) /\ Rising(buffer')
         /\ Rising(taken'.frames)
    BY <1>1, <2>1, <2>2, <2>5, <2>7
  <2>. QED
    BY <1>1, <2>3, <2>7, <2>8, <2>9, <2>10, <2>11, <2>12, <2>13, ReadInv
<1>8. CASE Deliver
  <2>. DEFINE said == heard \o taken.frames
  <2>1. heard' = said /\ taken' = NotReading /\ buffer' = buffer /\ taken # NotReading
    BY <1>8 DEF Deliver
  <2>2. mic \in {"reachy", "g2"}
    BY <2>1 DEF FramesInOrder
  <2>3. /\ said \in Seq(Nat) /\ Range(said) = Range(heard) \cup Range(taken.frames)
        /\ Rising(said)
    BY <1>1, <1>4, <2>2, RisingConcat
  <2>. HIDE DEF said
  <2>4. Kept' = Kept
    BY <1>2, <1>3, <2>1, <2>3 DEF Kept
  <2>5. Before(heard', taken'.frames) /\ Before(taken'.frames, buffer')
    BY <1>2, <1>3, <2>1 DEF Before
  <2>6. Before(heard', buffer')
    BY <1>4, <2>1, <2>2, <2>3 DEF Before
  <2>7. taken' \in [want : Nat, frames : Seq(Nat)] /\ Rising(taken'.frames)
    BY <1>2, <1>3, <2>1
  <2>8. Len(buffer') <= Len(buffer)
    BY <1>1, <2>1
  <2>. QED
    BY <1>1, <2>1, <2>2, <2>3, <2>4, <2>5, <2>6, <2>7, <2>8, ReadInv
<1>9. ASSUME NEW n \in 1..Capacity, Look(n)
      PROVE  MicTyped' /\ FramesInOrder' /\ OnePoller'
  <2>1. /\ mic \in {"pi", "openglass"} /\ heard' = Newest(buffer, n)
        /\ taken' = taken /\ buffer' = buffer
    BY <1>9 DEF Look
  <2>2. /\ heard' \in Seq(Nat) /\ Range(heard') \subseteq Range(buffer) /\ Rising(heard')
    <3>1. n \in Nat
      BY MicAssumption
    <3>. QED
      BY <1>1, <2>1, <3>1, RisingNewest
  <2>3. Kept' \subseteq Kept
    BY <2>1, <2>2 DEF Kept
  <2>4. taken = NotReading
    BY <2>1 DEF FramesInOrder
  <2>5. Len(buffer') <= Len(buffer)
    BY <1>1, <2>1
  <2>. QED
    BY <1>1, <2>1, <2>2, <2>3, <2>4, <2>5, ReadInv
<1>10. ASSUME NEW n \in 1..Capacity, Ask(n)
       PROVE  MicTyped' /\ FramesInOrder' /\ OnePoller'
  <2>1. /\ mic \in {"reachy", "g2"} /\ taken = NotReading /\ heard' = heard /\ buffer' = buffer
        /\ taken' = [want |-> n, frames |-> none]
    BY <1>10 DEF Ask
  <2>2. n \in Nat
    BY MicAssumption
  <2>3. taken' \in [want : Nat, frames : Seq(Nat)] /\ taken'.frames = none /\ taken.frames = none
    BY <1>2, <1>3, <2>1, <2>2
  <2>4. Kept' = Kept
    BY <2>1, <2>3 DEF Kept
  <2>5. Before(heard', taken'.frames) /\ Before(heard', buffer') /\ Before(taken'.frames, buffer')
    BY <1>4, <2>1, <2>3
  <2>6. Rising(taken'.frames)
    BY <1>2, <2>3
  <2>7. Len(buffer') <= Len(buffer)
    BY <1>1, <2>1
  <2>. QED
    BY <1>1, <2>1, <2>3, <2>4, <2>5, <2>6, <2>7, ReadInv
<1>. QED
  BY <1>6, <1>7, <1>8, <1>9, <1>10

\* start_recording and stop_recording.  A thread that starts beside another one
\* ends the promise.
LEMMA RecordStepInv ==
    ASSUME ~twin, MicTyped, FramesInOrder, OnePoller, ~twin',
           StartRecording \/ StopPolling \/ StopReturns \/ StopRecording
    PROVE  MicTyped' /\ FramesInOrder' /\ OnePoller'
<1>1. UNCHANGED <<mic, frame, taken, heard>>
  BY DEF StartRecording, StopPolling, StopReturns, StopRecording
<1>2. CASE UNCHANGED <<poller, buffer>>
  BY <1>1, <1>2 DEF MicTyped, FramesInOrder, OnePoller, Kept, Awake, Waiting, Before, Rising
<1>3. CASE ~UNCHANGED poller
  <2>1. /\ StartRecording /\ mic = "reachy" /\ buffer' = buffer /\ Awake = {}
    BY <1>3 DEF StartRecording, StopPolling, StopReturns, StopRecording
  <2>2. PICK p \in Pollers : poller' = [poller EXCEPT ![p].pc = "top"]
    BY <2>1 DEF StartRecording
  <2>. DEFINE n == [poller[p] EXCEPT !.pc = "top"]
  <2>3. n \in PollerPlaces /\ n.pc = "top" /\ poller' = [poller EXCEPT ![p] = n]
    BY <2>2 DEF PollerPlaces, MicTyped
  <2>. HIDE DEF n
  <2>4. \A q \in Pollers : poller'[q] = IF q = p THEN n ELSE poller[q]
    BY <2>3 DEF MicTyped
  <2>5. Awake' = {p} /\ ~Waiting' /\ ~Waiting
    BY <2>1, <2>3, <2>4 DEF Awake, Waiting
  <2>6. Kept' = Kept
    BY <1>1, <2>1 DEF Kept
  <2>7. MicTyped' /\ FramesInOrder'
    BY <1>1, <2>1, <2>3, <2>6 DEF MicTyped, FramesInOrder, Before, Rising
  <2>8. \A q \in Pollers : poller'[q].pc \notin {"put", "full", "again"}
    BY <2>5 DEF Waiting
  <2>9. OnePoller'
    BY <1>1, <2>1, <2>5, <2>6, <2>8 DEF OnePoller
  <2>. QED
    BY <2>7, <2>9
<1>4. CASE ~UNCHANGED buffer
  <2>. DEFINE none == << >>
  <2>1. none \in Seq(Nat) /\ Len(none) = 0 /\ Rising(none) /\ Range(none) = {}
    BY EmptyRising
  <2>2. UNCHANGED poller /\ buffer' = none /\ mic = "openglass"
    BY <1>4 DEF StartRecording, StopPolling, StopReturns, StopRecording
  <2>. HIDE DEF none
  <2>3. Kept' \subseteq Kept
    BY <1>1, <2>1, <2>2 DEF Kept
  <2>4. Len(buffer') <= Len(buffer)
    BY <2>1, <2>2, RangeIs DEF MicTyped
  <2>5. /\ buffer' \in Seq(Nat) /\ heard' \in Seq(Nat) /\ taken' \in [want : Nat, frames : Seq(Nat)]
        /\ Rising(buffer') /\ Rising(taken'.frames) /\ Rising(heard') /\ taken' = NotReading
    BY <1>1, <2>1, <2>2 DEF MicTyped, FramesInOrder
  <2>6. buffer' = << >>
    BY <2>2 DEF none
  <2>. QED
    BY <1>1, <2>2, <2>3, <2>4, <2>5, <2>6, ReadInv
<1>. QED
  BY <1>2, <1>3, <1>4

\* The HALs' audio is in order, whatever the buffer's capacity: nothing that
\* get_buffer returns is out of order or returned twice (a ring: in one answer), the
\* Reachys' newest frame is never the one an overflow dropped, and a ring ends with
\* its newest, unless two polling threads run.
THEOREM AudioKeepsOrder == MicSpec => []AudioInOrder
<1>1. MicInit => MicInv
  BY MicInvInit
<1>2. MicInv /\ [MicNext]_micVars => MicInv'
  <2>. SUFFICES ASSUME MicInv, [MicNext]_micVars, ~twin' PROVE MicTyped' /\ FramesInOrder' /\ OnePoller'
    BY DEF MicInv
  <2>1. ~twin
    BY DEF micVars, MicNext, StartRecording, StopPolling, StopReturns, StopRecording, Push, TakeOne,
           Collect, Deliver, PollTests, Poll, PollEnds, Put, PutRefused, MakeRoom, PutAgain, Look, Ask,
           OnlyBuffer, NotBuffer
  <2>2. MicTyped /\ FramesInOrder /\ OnePoller
    BY <2>1 DEF MicInv
  <2>3. CASE StartRecording \/ StopPolling \/ StopReturns \/ StopRecording
    BY <2>1, <2>2, <2>3, RecordStepInv
  <2>4. CASE Push
    BY <2>1, <2>2, <2>4, PushInv
  <2>5. CASE \/ TakeOne \/ Collect \/ Deliver
             \/ \E n \in 1..Capacity : Look(n) \/ Ask(n)
    BY <2>1, <2>2, <2>5, ReadStepInv
  <2>6. ASSUME NEW p \in Pollers,
               PollTests(p) \/ Poll(p) \/ PollEnds(p) \/ Put(p) \/ PutRefused(p) \/ MakeRoom(p) \/ PutAgain(p)
        PROVE  MicTyped' /\ FramesInOrder' /\ OnePoller'
    BY <2>1, <2>2, <2>6, PollerStepInv
  <2>7. CASE UNCHANGED micVars
    BY <2>2, <2>7 DEF micVars, MicTyped, FramesInOrder, OnePoller, Kept, Awake, Waiting, Before, Rising
  <2>. QED
    BY <2>3, <2>4, <2>5, <2>6, <2>7 DEF MicNext
<1>3. MicInv => AudioInOrder
  <2>. SUFFICES ASSUME ~twin, MicTyped, FramesInOrder, OnePoller PROVE AudioInOrder
    BY DEF MicInv, AudioInOrder
  <2>1. \A i \in 1..(Len(heard) - 1) : heard[i] < heard[i + 1]
    <3>. SUFFICES ASSUME NEW i \in 1..(Len(heard) - 1) PROVE heard[i] < heard[i + 1]
      OBVIOUS
    <3>1. Len(heard) \in Nat /\ Rising(heard)
      BY RangeIs DEF MicTyped, FramesInOrder
    <3>2. i \in 1..Len(heard) /\ i + 1 \in 1..Len(heard) /\ i < i + 1
      BY <3>1
    <3>. QED
      BY <3>1, <3>2 DEF Rising
  <2>. QED
    BY <2>1 DEF AudioInOrder, OnePoller, FramesInOrder, Kept
<1>. QED
  BY <1>1, <1>2, <1>3, PTL DEF MicSpec

-----------------------------------------------------------------------------
(* HeadsetFeeds: no unread frame is slept over, no chunk goes missing.      *)

FramesTyped == /\ frames \in Nat /\ slot \in Nat /\ seen \in Nat
               /\ poster \in [Posters -> Nat]
               /\ reader \in [Readers -> {"out", "clear", "read"}]

LEMMA FrameStepInv ==
    ASSUME FramesTyped, FrameNoticed, [HeadsetNext]_headsetVars, headset = "avp" => frameQ \in Seq(Nat)
    PROVE  FramesTyped' /\ FrameNoticed' /\ (headset' = "avp" => frameQ' \in Seq(Nat))
<1>1. ASSUME NEW p \in Posters, PutFrame(p)
      PROVE  FramesTyped' /\ FrameNoticed' /\ UNCHANGED <<headset, frameQ>>
  BY <1>1 DEF PutFrame, FramesTyped, FrameNoticed, NotIn
<1>2. ASSUME NEW p \in Posters, SetFrameEvent(p)
      PROVE  FramesTyped' /\ FrameNoticed' /\ UNCHANGED <<headset, frameQ>>
  BY <1>2 DEF SetFrameEvent, FramesTyped, FrameNoticed, NotIn
<1>3. ASSUME NEW r \in Readers, Waited(r)
      PROVE  FramesTyped' /\ FrameNoticed' /\ UNCHANGED <<headset, frameQ>>
  BY <1>3 DEF Waited, FramesTyped, FrameNoticed, NotIn
<1>4. ASSUME NEW r \in Readers, Clear(r)
      PROVE  FramesTyped' /\ FrameNoticed' /\ UNCHANGED <<headset, frameQ>>
  BY <1>4 DEF Clear, FramesTyped, FrameNoticed, NotIn
<1>5. ASSUME NEW r \in Readers, ReadFrame(r)
      PROVE  FramesTyped' /\ FrameNoticed' /\ UNCHANGED <<headset, frameQ>>
  BY <1>5 DEF ReadFrame, FramesTyped, FrameNoticed, NotIn
<1>6. CASE Message
  <2>1. /\ headset = "avp" /\ headset' = headset /\ frames' = frames + 1
        /\ UNCHANGED <<slot, poster, reader, seen>> /\ frames' \in Nat
        /\ frameQ' = frameQ \/ frameQ' = Append(frameQ, frames')
    BY <1>6 DEF Message, NotIn, FramesTyped
  <2>2. frameQ' \in Seq(Nat)
    BY <2>1
  <2>. QED
    BY <2>1, <2>2 DEF FramesTyped, FrameNoticed
<1>7. CASE GetFrame
  <2>1. /\ headset = "avp" /\ headset' = headset /\ frameQ # << >>
        /\ UNCHANGED <<slot, poster, reader, frames>>
        /\ frameQ' = Tail(frameQ) /\ seen' = Head(frameQ)
    BY <1>7 DEF GetFrame, NotIn
  <2>2. frameQ' \in Seq(Nat) /\ seen' \in Nat
    BY <2>1, RisingTail
  <2>. QED
    BY <2>1, <2>2 DEF FramesTyped, FrameNoticed
<1>8. CASE \/ UNCHANGED headsetVars \/ Offer
           \/ \E w \in Sockets : ConnectSocket(w) \/ Take(w) \/ Sent(w) \/ SendFails(w) \/ SocketClosed(w)
  <2>1. UNCHANGED <<headset, frames, slot, event, poster, reader, seen, frameQ>>
    BY <1>8 DEF headsetVars, NotOut, Offer, ConnectSocket, Take, Sent, SendFails, SocketClosed
  <2>. QED
    BY <2>1 DEF FramesTyped, FrameNoticed
<1>. QED
  BY <1>1, <1>2, <1>3, <1>4, <1>5, <1>6, <1>7, <1>8 DEF HeadsetNext

SocketPlaces == [pc : {"unborn", "top", "send", "broken", "fail", "deaf", "closed"}, chunk : Nat]
InHand == {socket[w].chunk : w \in Open} \ {0}
Born == {w \in Sockets : socket[w].pc # "unborn"}

ChunksTyped ==
    /\ chunks \in Nat /\ outQ \in Seq(Nat) /\ chunksSent \in Seq(Nat)
    /\ socket \in [Sockets -> SocketPlaces]
    /\ \A w \in Sockets : socket[w].chunk # 0 <=> socket[w].pc \in {"send", "fail"}

\* Every chunk is in one place, and in one hand.
OnePlace ==
    /\ refused \cup Range(outQ) \cup InHand \cup wornOut \cup Range(chunksSent) = 1..chunks
    /\ Cardinality(refused) + Len(outQ) + Cardinality(InHand) + Cardinality(wornOut)
         + Len(chunksSent) = chunks
    /\ \A v, w \in Sockets : socket[v].chunk # 0 /\ socket[v].chunk = socket[w].chunk => v = w
    /\ InHand \cap Range(outQ) = {} /\ InHand \cap wornOut = {} /\ wornOut \cap Range(outQ) = {}
    /\ Rising(outQ)

\* With one connection: those sent, the one in its hand, those queued.
OneConnection ==
    (\A v, w \in Born : v = w)
      => /\ Rising(chunksSent) /\ Before(chunksSent, outQ)
         /\ \A x \in InHand : /\ \A y \in Range(chunksSent) : y < x
                              /\ \A y \in Range(outQ) : x < y

FeedsInv == ChunksTyped /\ OnePlace /\ OneConnection

LEMMA FeedsInvInit == HeadsetInit => FeedsInv
<1>. SUFFICES ASSUME HeadsetInit PROVE FeedsInv
  OBVIOUS
<1>. DEFINE none == << >>
<1>1. none \in Seq(Nat) /\ Len(none) = 0 /\ Rising(none) /\ Range(none) = {}
  BY EmptyRising
<1>2. /\ outQ = none /\ chunksSent = none /\ chunks = 0 /\ refused = {} /\ wornOut = {}
      /\ socket = [w \in Sockets |-> [pc |-> "unborn", chunk |-> 0]]
  BY DEF HeadsetInit
<1>. HIDE DEF none
<1>3. Open = {} /\ InHand = {}
  BY <1>2 DEF Open, InHand
<1>4. ChunksTyped
  BY <1>1, <1>2 DEF ChunksTyped, SocketPlaces
<1>5. Cardinality({}) = 0
  BY FS_EmptySet
<1>6. OnePlace
  BY <1>1, <1>2, <1>3, <1>5 DEF OnePlace
<1>7. OneConnection
  BY <1>1, <1>2, <1>3 DEF OneConnection, Before
<1>. QED
  BY <1>4, <1>6, <1>7 DEF FeedsInv

\* What all the numbers are, and how many.
LEMMA FeedsFacts ==
    ASSUME ChunksTyped, OnePlace
    PROVE  /\ IsFiniteSet(refused) /\ IsFiniteSet(InHand) /\ IsFiniteSet(wornOut)
           /\ Cardinality(refused) \in Nat /\ Cardinality(InHand) \in Nat /\ Cardinality(wornOut) \in Nat
           /\ Len(outQ) \in Nat /\ Len(chunksSent) \in Nat
           /\ InHand = {socket[w].chunk : w \in Sockets} \ {0}
           /\ \A x \in refused \cup Range(outQ) \cup InHand \cup wornOut \cup Range(chunksSent) :
                 x \in Nat /\ x >= 1 /\ x <= chunks
<1>1. chunks \in Nat /\ IsFiniteSet(1..chunks)
  BY FS_Interval DEF ChunksTyped
<1>2. refused \subseteq 1..chunks /\ InHand \subseteq 1..chunks /\ wornOut \subseteq 1..chunks
  BY DEF OnePlace
<1>3. IsFiniteSet(refused) /\ IsFiniteSet(InHand) /\ IsFiniteSet(wornOut)
  BY <1>1, <1>2, FS_Subset
<1>4. Cardinality(refused) \in Nat /\ Cardinality(InHand) \in Nat /\ Cardinality(wornOut) \in Nat
  BY <1>3, FS_CardinalityType
<1>5. Len(outQ) \in Nat /\ Len(chunksSent) \in Nat
  BY RangeIs DEF ChunksTyped
<1>6. InHand = {socket[w].chunk : w \in Sockets} \ {0}
  BY DEF InHand, Open, ChunksTyped
<1>7. \A x \in refused \cup Range(outQ) \cup InHand \cup wornOut \cup Range(chunksSent) :
         x \in Nat /\ x >= 1 /\ x <= chunks
  BY <1>1 DEF OnePlace
<1>. QED
  BY <1>3, <1>4, <1>5, <1>6, <1>7

\* One websocket takes or lets go of a chunk.
LEMMA HandChanges ==
    ASSUME ChunksTyped, OnePlace, NEW w \in Sockets, NEW n \in SocketPlaces,
           socket' = [socket EXCEPT ![w] = n],
           n.chunk # 0 <=> n.pc \in {"send", "fail"},
           n.chunk \notin InHand
    PROVE  /\ socket' \in [Sockets -> SocketPlaces]
           /\ \A v \in Sockets : socket'[v].chunk # 0 <=> socket'[v].pc \in {"send", "fail"}
           /\ \A u, v \in Sockets : socket'[u].chunk # 0 /\ socket'[u].chunk = socket'[v].chunk => u = v
           /\ InHand' = (InHand \ {socket[w].chunk}) \cup ({n.chunk} \ {0})
           /\ socket[w].chunk # 0 => socket[w].chunk \in InHand
           /\ n.pc # "unborn" => Born' = Born \cup {w}
<1>1. InHand = {socket[v].chunk : v \in Sockets} \ {0}
  BY FeedsFacts
<1>2. \A v \in Sockets : socket'[v] = IF v = w THEN n ELSE socket[v]
  BY DEF ChunksTyped
<1>3. socket' \in [Sockets -> SocketPlaces]
  BY DEF ChunksTyped
<1>4. \A v \in Sockets : socket'[v].chunk # 0 <=> socket'[v].pc \in {"send", "fail"}
  BY <1>2 DEF ChunksTyped
<1>5. \A v \in Sockets : socket[v].chunk # 0 => socket[v].chunk \in InHand
  BY <1>1
<1>6. ASSUME NEW u \in Sockets, NEW v \in Sockets, socket'[u].chunk # 0, socket'[u].chunk = socket'[v].chunk
      PROVE  u = v
  BY <1>2, <1>5, <1>6 DEF OnePlace
<1>7. InHand' = {socket'[v].chunk : v \in Sockets} \ {0}
  BY <1>4 DEF InHand, Open
<1>8. \A v \in Sockets : v # w /\ socket[v].chunk # 0 => socket[v].chunk # socket[w].chunk
  BY DEF OnePlace
<1>9. InHand' = (InHand \ {socket[w].chunk}) \cup ({n.chunk} \ {0})
  <2>1. InHand' \subseteq (InHand \ {socket[w].chunk}) \cup ({n.chunk} \ {0})
    BY <1>1, <1>2, <1>7, <1>8
  <2>2. (InHand \ {socket[w].chunk}) \subseteq InHand'
    BY <1>1, <1>2, <1>7
  <2>3. ({n.chunk} \ {0}) \subseteq InHand'
    BY <1>2, <1>7
  <2>. QED
    BY <2>1, <2>2, <2>3
<1>10. n.pc # "unborn" => Born' = Born \cup {w}
  BY <1>2 DEF Born
<1>. QED
  BY <1>3, <1>4, <1>5, <1>6, <1>9, <1>10

LEMMA OfferInv == ASSUME FeedsInv, Offer PROVE FeedsInv'
<1>. DEFINE n == chunks + 1
<1>1. /\ ChunksTyped /\ OnePlace /\ OneConnection /\ chunks \in Nat /\ outQ \in Seq(Nat)
      /\ n \in Nat /\ n >= 1
  BY DEF FeedsInv, ChunksTyped
<1>2. chunks' = n /\ UNCHANGED <<socket, wornOut, chunksSent>>
  BY DEF Offer
<1>3. InHand' = InHand /\ Born' = Born
  BY <1>2 DEF InHand, Open, Born
<1>. DEFINE all == refused \cup Range(outQ) \cup InHand \cup wornOut \cup Range(chunksSent)
<1>4. (\A x \in all : x \in Nat /\ x < n) /\ all = 1..chunks
  <2>1. \A x \in all : x \in Nat /\ x <= chunks
    BY <1>1, FeedsFacts
  <2>. QED
    BY <1>1, <2>1 DEF OnePlace
<1>5. 1..n = (1..chunks) \cup {n}
  BY <1>1
<1>6. CASE outQ' = Append(outQ, n) /\ refused' = refused
  <2>1. /\ outQ' \in Seq(Nat) /\ Len(outQ') = Len(outQ) + 1 /\ Range(outQ') = Range(outQ) \cup {n}
        /\ Rising(outQ')
    <3>1. \A x \in Range(outQ) : x < n
      BY <1>4
    <3>2. Rising(outQ)
      BY <1>1 DEF OnePlace
    <3>. QED
      BY <1>1, <1>6, <3>1, <3>2, RisingAppend
  <2>2. ChunksTyped'
    BY <1>1, <1>2, <2>1 DEF ChunksTyped
  <2>3. n \notin InHand /\ n \notin wornOut
    BY <1>1, <1>4
  <2>4. refused' \cup Range(outQ') \cup InHand' \cup wornOut' \cup Range(chunksSent') = 1..n
    BY <1>2, <1>3, <1>4, <1>5, <1>6, <2>1
  <2>5. Cardinality(refused') + Len(outQ') + Cardinality(InHand') + Cardinality(wornOut')
          + Len(chunksSent') = n
    <3>1. /\ Cardinality(refused) \in Nat /\ Cardinality(InHand) \in Nat /\ Cardinality(wornOut) \in Nat
          /\ Len(outQ) \in Nat /\ Len(chunksSent) \in Nat
      BY <1>1, FeedsFacts
    <3>2. Cardinality(refused) + Len(outQ) + Cardinality(InHand) + Cardinality(wornOut)
            + Len(chunksSent) = chunks
      BY <1>1 DEF OnePlace
    <3>3. /\ refused' = refused /\ InHand' = InHand /\ wornOut' = wornOut /\ chunksSent' = chunksSent
          /\ Len(outQ') = Len(outQ) + 1
      BY <1>2, <1>3, <1>6, <2>1
    <3>. QED
      BY <1>1, <3>1, <3>2, <3>3
  <2>6. OnePlace'
    BY <1>1, <1>2, <1>3, <2>1, <2>3, <2>4, <2>5 DEF OnePlace
  <2>7. (\A y \in Range(chunksSent) : y < n) /\ (\A y \in InHand : y < n)
    BY <1>4
  <2>8. OneConnection'
    BY <1>1, <1>2, <1>3, <2>1, <2>7 DEF OneConnection, Before
  <2>. QED
    BY <2>2, <2>6, <2>8 DEF FeedsInv
<1>7. CASE refused' = refused \cup {n} /\ outQ' = outQ
  <2>1. n \notin refused
    BY <1>1, <1>4
  <2>2. Cardinality(refused') = Cardinality(refused) + 1
    BY <1>1, <1>7, <2>1, FeedsFacts, FS_AddElement
  <2>3. refused' \cup Range(outQ') \cup InHand' \cup wornOut' \cup Range(chunksSent') = 1..n
    BY <1>2, <1>3, <1>4, <1>5, <1>7
  <2>4. Cardinality(refused') + Len(outQ') + Cardinality(InHand') + Cardinality(wornOut')
          + Len(chunksSent') = n
    BY <1>1, <1>2, <1>3, <1>7, <2>2, FeedsFacts, SMTT(30) DEF OnePlace
  <2>5. OnePlace'
    BY <1>1, <1>2, <1>3, <1>7, <2>3, <2>4 DEF OnePlace, Rising
  <2>6. ChunksTyped'
    BY <1>1, <1>2, <1>7 DEF ChunksTyped
  <2>7. OneConnection'
    BY <1>1, <1>2, <1>3, <1>7 DEF OneConnection, Before, Rising
  <2>. QED
    BY <2>5, <2>6, <2>7 DEF FeedsInv
<1>. QED
  BY <1>2, <1>6, <1>7 DEF Offer

LEMMA ConnectInv ==
    ASSUME FeedsInv, NEW w \in Sockets, ConnectSocket(w)
    PROVE  FeedsInv'
<1>. DEFINE n == [socket[w] EXCEPT !.pc = "top"]
<1>1. ChunksTyped /\ OnePlace /\ OneConnection
  BY DEF FeedsInv
<1>2. /\ UNCHANGED <<chunks, outQ, refused, wornOut, chunksSent>>
      /\ socket[w].pc = "unborn" /\ socket[w].chunk = 0
  BY <1>1 DEF ConnectSocket, ChunksTyped
<1>3. /\ n \in SocketPlaces /\ n.pc = "top" /\ n.chunk = 0
      /\ socket' = [socket EXCEPT ![w] = n]
  BY <1>1, <1>2 DEF ConnectSocket, ChunksTyped, SocketPlaces
<1>. HIDE DEF n
<1>4. 0 \notin InHand
  BY DEF InHand
<1>5. /\ socket' \in [Sockets -> SocketPlaces]
      /\ \A v \in Sockets : socket'[v].chunk # 0 <=> socket'[v].pc \in {"send", "fail"}
      /\ \A u, v \in Sockets : socket'[u].chunk # 0 /\ socket'[u].chunk = socket'[v].chunk => u = v
      /\ InHand' = (InHand \ {socket[w].chunk}) \cup ({n.chunk} \ {0})
      /\ Born' = Born \cup {w}
  <2>1. (n.chunk # 0 <=> n.pc \in {"send", "fail"}) /\ n.chunk \notin InHand /\ n.pc # "unborn"
    BY <1>3, <1>4
  <2>. QED
    BY <1>1, <1>3, <2>1, HandChanges
<1>6. InHand' = InHand
  BY <1>2, <1>3, <1>4, <1>5
<1>7. ChunksTyped'
  BY <1>1, <1>2, <1>5 DEF ChunksTyped
<1>8. OnePlace'
  BY <1>1, <1>2, <1>5, <1>6 DEF OnePlace, Rising
<1>9. OneConnection'
  BY <1>1, <1>2, <1>5, <1>6 DEF OneConnection, Before, Rising
<1>. QED
  BY <1>7, <1>8, <1>9 DEF FeedsInv

LEMMA TakeInv ==
    ASSUME FeedsInv, NEW w \in Sockets, Take(w)
    PROVE  FeedsInv'
<1>. DEFINE first == Head(outQ)
            rest == Tail(outQ)
            place1 == IF socket[w].pc = "top" THEN "send" ELSE "fail"
            n == [pc |-> place1, chunk |-> first]
<1>1. ChunksTyped /\ OnePlace /\ OneConnection /\ outQ \in Seq(Nat) /\ Rising(outQ)
  BY DEF FeedsInv, ChunksTyped, OnePlace
<1>2. /\ UNCHANGED <<chunks, refused, wornOut, chunksSent>> /\ outQ # << >>
      /\ socket[w].pc \in {"top", "broken"} /\ socket[w].chunk = 0
      /\ outQ' = rest /\ socket' = [socket EXCEPT ![w] = n]
  BY <1>1 DEF Take, ChunksTyped
<1>3. /\ first \in Nat /\ rest \in Seq(Nat) /\ Len(rest) = Len(outQ) - 1
      /\ Range(outQ) = {first} \cup Range(rest)
      /\ Rising(rest) /\ \A x \in Range(rest) : first < x
  BY <1>1, <1>2, RisingTail
<1>. HIDE DEF first, rest
<1>4. place1 \in {"send", "fail"}
  OBVIOUS
<1>5. n \in SocketPlaces /\ n.pc \in {"send", "fail"} /\ n.chunk = first
  BY <1>3, <1>4 DEF SocketPlaces
<1>. HIDE DEF n
<1>6. first # 0 /\ first \notin InHand /\ first \notin Range(rest) /\ 0 \notin InHand
  <2>1. first \in Range(outQ)
    BY <1>3
  <2>2. first # 0 /\ first \notin InHand
    BY <1>1, <2>1, FeedsFacts DEF OnePlace
  <2>3. ~(first < first)
    BY <1>3
  <2>. QED
    BY <1>3, <2>2, <2>3 DEF InHand
<1>7. /\ socket' \in [Sockets -> SocketPlaces]
      /\ \A v \in Sockets : socket'[v].chunk # 0 <=> socket'[v].pc \in {"send", "fail"}
      /\ \A u, v \in Sockets : socket'[u].chunk # 0 /\ socket'[u].chunk = socket'[v].chunk => u = v
      /\ InHand' = (InHand \ {0}) \cup ({first} \ {0})
      /\ Born' = Born \cup {w}
  BY <1>1, <1>2, <1>5, <1>6, HandChanges
<1>8. InHand' = InHand \cup {first}
  BY <1>6, <1>7
<1>9. Born' = Born
  BY <1>2, <1>7 DEF Born
<1>10. ChunksTyped'
  BY <1>1, <1>2, <1>3, <1>7 DEF ChunksTyped
<1>11. Cardinality(InHand') = Cardinality(InHand) + 1
  BY <1>1, <1>6, <1>8, FeedsFacts, FS_AddElement
<1>12. Cardinality(refused') + Len(outQ') + Cardinality(InHand') + Cardinality(wornOut')
         + Len(chunksSent') = chunks'
  <2>1. /\ Cardinality(refused) \in Nat /\ Cardinality(InHand) \in Nat /\ Cardinality(wornOut) \in Nat
        /\ Len(outQ) \in Nat /\ Len(chunksSent) \in Nat
    BY <1>1, FeedsFacts
  <2>2. Cardinality(refused) + Len(outQ) + Cardinality(InHand) + Cardinality(wornOut)
          + Len(chunksSent) = chunks
    BY <1>1 DEF OnePlace
  <2>3. Len(outQ') = Len(outQ) - 1 /\ UNCHANGED <<chunks, refused, wornOut, chunksSent>>
    BY <1>2, <1>3
  <2>. QED
    BY <1>11, <2>1, <2>2, <2>3
<1>13. refused' \cup Range(outQ') \cup InHand' \cup wornOut' \cup Range(chunksSent') = 1..chunks'
  BY <1>1, <1>2, <1>3, <1>8 DEF OnePlace
<1>14. OnePlace'
  BY <1>1, <1>2, <1>3, <1>6, <1>7, <1>8, <1>12, <1>13 DEF OnePlace
<1>15. OneConnection'
  <2>. SUFFICES ASSUME \A u, v \in Born : u = v
                PROVE  /\ Rising(chunksSent') /\ Before(chunksSent', outQ')
                       /\ \A x \in InHand' : /\ \A y \in Range(chunksSent') : y < x
                                             /\ \A y \in Range(outQ') : x < y
    BY <1>9 DEF OneConnection
  <2>1. Rising(chunksSent) /\ Before(chunksSent, outQ)
    BY <1>1 DEF OneConnection
  <2>2. \A x \in InHand : /\ \A y \in Range(chunksSent) : y < x
                          /\ \A y \in Range(outQ) : x < y
    BY <1>1 DEF OneConnection
  <2>3. \A y \in Range(chunksSent) : y < first
    BY <1>3, <2>1 DEF Before
  <2>. QED
    BY <1>2, <1>3, <1>8, <2>1, <2>2, <2>3 DEF Before
<1>. QED
  BY <1>10, <1>14, <1>15 DEF FeedsInv

\* The chunk arrives, or is lost with the websocket.
LEMMA LetGoInv ==
    ASSUME FeedsInv, NEW w \in Sockets, Sent(w) \/ SendFails(w) \/ SocketClosed(w)
    PROVE  FeedsInv'
<1>. DEFINE chunk == socket[w].chunk
<1>1. /\ ChunksTyped /\ OnePlace /\ OneConnection /\ chunk \in Nat
      /\ outQ \in Seq(Nat) /\ chunksSent \in Seq(Nat)
  BY DEF FeedsInv, ChunksTyped, SocketPlaces
<1>2. UNCHANGED <<chunks, refused, outQ>> /\ w \in Born
  BY DEF Sent, SendFails, SocketClosed, Open, Born
<1>3. PICK n \in SocketPlaces : /\ socket' = [socket EXCEPT ![w] = n]
                                /\ n.pc \notin {"unborn", "send", "fail"} /\ n.chunk = 0
  <2>1. PICK to \in {"top", "broken", "deaf", "closed"} :
           socket' = [socket EXCEPT ![w] = [pc |-> to, chunk |-> 0]]
    BY DEF Sent, SendFails, SocketClosed
  <2>2. [pc |-> to, chunk |-> 0] \in SocketPlaces
    BY DEF SocketPlaces
  <2>. QED
    BY <2>1, <2>2
<1>4. 0 \notin InHand
  BY DEF InHand
<1>5. /\ socket' \in [Sockets -> SocketPlaces]
      /\ \A v \in Sockets : socket'[v].chunk # 0 <=> socket'[v].pc \in {"send", "fail"}
      /\ \A u, v \in Sockets : socket'[u].chunk # 0 /\ socket'[u].chunk = socket'[v].chunk => u = v
      /\ InHand' = (InHand \ {chunk}) \cup ({n.chunk} \ {0})
      /\ chunk # 0 => chunk \in InHand
      /\ Born' = Born \cup {w}
  BY <1>1, <1>3, <1>4, HandChanges
<1>6. InHand' = InHand \ {chunk} /\ Born' = Born
  BY <1>2, <1>3, <1>5
<1>7. /\ Cardinality(refused) \in Nat /\ Cardinality(InHand) \in Nat /\ Cardinality(wornOut) \in Nat
      /\ Len(outQ) \in Nat /\ Len(chunksSent) \in Nat
      /\ IsFiniteSet(InHand) /\ IsFiniteSet(wornOut)
  BY <1>1, FeedsFacts
<1>8. Cardinality(refused) + Len(outQ) + Cardinality(InHand) + Cardinality(wornOut)
        + Len(chunksSent) = chunks
  BY <1>1 DEF OnePlace
<1>9. Cardinality(InHand') = IF chunk # 0 THEN Cardinality(InHand) - 1 ELSE Cardinality(InHand)
  <2>1. chunk \in InHand <=> chunk # 0
    BY <1>4, <1>5
  <2>. HIDE DEF chunk
  <2>. QED
    BY <1>6, <1>7, <2>1, FS_RemoveElement
<1>10. CASE Sent(w)
  <2>. DEFINE more == Append(chunksSent, chunk)
  <2>1. chunksSent' = more /\ UNCHANGED wornOut /\ chunk # 0
    BY <1>1, <1>10 DEF Sent, ChunksTyped
  <2>2. /\ more \in Seq(Nat) /\ Len(more) = Len(chunksSent) + 1
        /\ Range(more) = Range(chunksSent) \cup {chunk}
        /\ Rising(chunksSent) /\ (\A x \in Range(chunksSent) : x < chunk) => Rising(more)
    BY <1>1, RisingAppend
  <2>. HIDE DEF more, chunk
  <2>3. ChunksTyped'
    BY <1>1, <1>2, <1>5, <2>1, <2>2 DEF ChunksTyped
  <2>4. Cardinality(refused') + Len(outQ') + Cardinality(InHand') + Cardinality(wornOut')
          + Len(chunksSent') = chunks'
    <3>1. Cardinality(InHand') = Cardinality(InHand) - 1 /\ Len(chunksSent') = Len(chunksSent) + 1
      BY <1>9, <2>1, <2>2
    <3>. QED
      BY <1>2, <1>7, <1>8, <2>1, <3>1, SMTT(30)
  <2>5. refused' \cup Range(outQ') \cup InHand' \cup wornOut' \cup Range(chunksSent') = 1..chunks'
    BY <1>1, <1>2, <1>5, <1>6, <2>1, <2>2 DEF OnePlace
  <2>6. OnePlace'
    BY <1>1, <1>2, <1>5, <1>6, <2>1, <2>4, <2>5 DEF OnePlace, Rising
  <2>7. OneConnection'
    <3>. SUFFICES ASSUME \A u, v \in Born : u = v
                  PROVE  /\ Rising(chunksSent') /\ Before(chunksSent', outQ')
                         /\ \A x \in InHand' : /\ \A y \in Range(chunksSent') : y < x
                                               /\ \A y \in Range(outQ') : x < y
      BY <1>6 DEF OneConnection
    <3>1. Rising(chunksSent) /\ Before(chunksSent, outQ)
      BY <1>1 DEF OneConnection
    <3>2. \A x \in InHand : /\ \A y \in Range(chunksSent) : y < x
                            /\ \A y \in Range(outQ) : x < y
      BY <1>1 DEF OneConnection
    <3>3. InHand' = {}
      <4>1. \A v \in Sockets : v # w => socket[v].chunk = 0
        BY <1>1, <1>2 DEF Born, ChunksTyped
      <4>2. InHand = {socket[v].chunk : v \in Sockets} \ {0}
        BY <1>1, FeedsFacts
      <4>. QED
        BY <1>6, <4>1, <4>2 DEF chunk
    <3>4. chunk \in InHand
      BY <1>5, <2>1
    <3>5. Rising(more) /\ Before(more, outQ)
      BY <2>2, <3>1, <3>2, <3>4 DEF Before
    <3>. QED
      BY <1>2, <2>1, <3>3, <3>5
  <2>. QED
    BY <2>3, <2>6, <2>7 DEF FeedsInv
<1>11. CASE SendFails(w) \/ SocketClosed(w)
  <2>1. wornOut' = wornOut \cup ({chunk} \ {0}) /\ UNCHANGED chunksSent
    <3>1. SendFails(w) => chunk # 0
      BY <1>1 DEF SendFails, ChunksTyped
    <3>. QED
      BY <1>11, <3>1 DEF SendFails, SocketClosed
  <2>. HIDE DEF chunk
  <2>2. ChunksTyped'
    BY <1>1, <1>2, <1>5, <2>1 DEF ChunksTyped
  <2>3. chunk # 0 => chunk \notin wornOut /\ chunk \notin Range(outQ)
    BY <1>1, <1>5 DEF OnePlace
  <2>4. Cardinality(wornOut') = IF chunk # 0 THEN Cardinality(wornOut) + 1 ELSE Cardinality(wornOut)
    <3>1. CASE chunk # 0
      <4>1. wornOut' = wornOut \cup {chunk}
        BY <2>1, <3>1
      <4>. QED
        BY <1>7, <2>3, <3>1, <4>1, FS_AddElement
    <3>2. CASE chunk = 0
      <4>1. wornOut' = wornOut
        BY <2>1, <3>2
      <4>. QED
        BY <3>2, <4>1
    <3>. QED
      BY <3>1, <3>2
  <2>5. Cardinality(refused') + Len(outQ') + Cardinality(InHand') + Cardinality(wornOut')
          + Len(chunksSent') = chunks'
    BY <1>2, <1>7, <1>8, <1>9, <2>1, <2>4
  <2>6. refused' \cup Range(outQ') \cup InHand' \cup wornOut' \cup Range(chunksSent') = 1..chunks'
    BY <1>1, <1>2, <1>4, <1>5, <1>6, <2>1 DEF OnePlace
  <2>7. OnePlace'
    BY <1>1, <1>2, <1>5, <1>6, <2>1, <2>3, <2>5, <2>6 DEF OnePlace, Rising
  <2>8. OneConnection'
    BY <1>1, <1>2, <1>6, <2>1 DEF OneConnection, Before, Rising
  <2>. QED
    BY <2>2, <2>7, <2>8 DEF FeedsInv
<1>. QED
  BY <1>10, <1>11

\* No reader sleeps over an unread frame of the Ray-Bans, and every chunk for a
\* device is accounted for, for any number of threads, websockets, frames and chunks.
THEOREM FeedsAreAccounted == HeadsetSpec => []FeedsKept
<1>. DEFINE FrameInv == FramesTyped /\ FrameNoticed /\ (headset = "avp" => frameQ \in Seq(Nat))
<1>1. HeadsetInit => FrameInv
  BY DEF HeadsetInit, FramesTyped, FrameNoticed
<1>2. FrameInv /\ [HeadsetNext]_headsetVars => FrameInv'
  BY FrameStepInv
<1>3. FeedsInv /\ [HeadsetNext]_headsetVars => FeedsInv'
  <2>. SUFFICES ASSUME FeedsInv, [HeadsetNext]_headsetVars PROVE FeedsInv'
    OBVIOUS
  <2>1. CASE Offer
    BY <2>1, OfferInv
  <2>2. ASSUME NEW w \in Sockets,
               ConnectSocket(w) \/ Take(w) \/ Sent(w) \/ SendFails(w) \/ SocketClosed(w)
        PROVE  FeedsInv'
    BY <2>2, ConnectInv, TakeInv, LetGoInv
  <2>3. CASE UNCHANGED <<outQ, chunks, refused, socket, wornOut, chunksSent>>
    BY <2>3 DEF FeedsInv, ChunksTyped, OnePlace, OneConnection, InHand, Open, Born, Rising, Before
  <2>4. ASSUME NEW p \in Posters, PutFrame(p) \/ SetFrameEvent(p)
        PROVE  FeedsInv'
    BY <2>3, <2>4 DEF PutFrame, SetFrameEvent, NotIn
  <2>5. ASSUME NEW r \in Readers, Waited(r) \/ Clear(r) \/ ReadFrame(r)
        PROVE  FeedsInv'
    BY <2>3, <2>5 DEF Waited, Clear, ReadFrame, NotIn
  <2>6. CASE Message \/ GetFrame \/ UNCHANGED headsetVars
    BY <2>3, <2>6 DEF Message, GetFrame, NotIn, headsetVars
  <2>. QED
    BY <2>1, <2>2, <2>4, <2>5, <2>6 DEF HeadsetNext
<1>4. FeedsInv => ChunksAccounted
  <2>. SUFFICES ASSUME FeedsInv PROVE ChunksAccounted
    OBVIOUS
  <2>1. /\ refused \cup Range(outQ) \cup InHand \cup wornOut \cup Range(chunksSent) = 1..chunks
        /\ Cardinality(refused) + Len(outQ) + Cardinality(InHand) + Cardinality(wornOut)
             + Len(chunksSent) = chunks
    BY DEF FeedsInv, OnePlace
  <2>2. ASSUME Cardinality(Born) <= 1
        PROVE  \A i \in 1..(Len(chunksSent) - 1) : chunksSent[i] < chunksSent[i + 1]
    <3>1. IsFiniteSet(Born)
      BY HeadsetAssumption, FS_Subset DEF Born
    <3>2. Born = {} \/ \E x : Born = {x}
      <4>1. Cardinality(Born) \in Nat
        BY <3>1, FS_CardinalityType
      <4>2. Cardinality(Born) = 0 \/ Cardinality(Born) = 1
        BY <2>2, <4>1
      <4>. QED
        BY <3>1, <4>2, FS_EmptySet, FS_Singleton
    <3>3. Rising(chunksSent) /\ Len(chunksSent) \in Nat
      BY <3>2, RangeIs DEF FeedsInv, OneConnection, ChunksTyped
    <3>. TAKE i \in 1..(Len(chunksSent) - 1)
    <3>4. i \in 1..Len(chunksSent) /\ i + 1 \in 1..Len(chunksSent) /\ i < i + 1
      BY <3>3
    <3>. QED
      BY <3>3, <3>4 DEF Rising
  <2>. QED
    BY <2>1, <2>2 DEF ChunksAccounted, InHand, Born
<1>. QED
  BY <1>1, <1>2, <1>3, <1>4, FeedsInvInit, PTL DEF HeadsetSpec, FeedsKept

-----------------------------------------------------------------------------
(* PhotoChunks: the frame is what the glasses sent.                        *)

PhotoMarks == [start : {"head", "inside", "none"}, end : BOOLEAN]
PhotoChunk == [photo : Nat, place : 1..Pieces, mark : PhotoMarks]
Piece == [photo : Nat, place : 1..Pieces]
PieceOf(c) == [photo |-> c.photo, place |-> c.place]

PhotoTyped == /\ photo \in Nat /\ place \in 1..Pieces /\ thumb \in Thumbs
              /\ photo = 0 => place = Pieces
              /\ chunkBuffer \in Seq(PhotoChunk) /\ latestFrame \in Seq(Piece)

\* What is kept was sent in this order, up to piece n of photo p, and a chunk that
\* begins with a start is the first of it.
KeptInOrder(kept, p, n) ==
    /\ \A i \in 1..Len(kept) :
          /\ kept[i].mark.start = "head" => i = 1
          /\ kept[i].place = 1 => kept[i].mark.start = "head"
          /\ kept[i].photo < p \/ (kept[i].photo = p /\ kept[i].place <= n)
    /\ \A i \in 1..(Len(kept) - 1) :
          \/ kept[i].photo < kept[i + 1].photo
          \/ kept[i].photo = kept[i + 1].photo /\ kept[i].place < kept[i + 1].place

\* A photo that is not spoilt has its own markers and no others.
KeptPlain(kept, spoilt) ==
    \A i \in 1..Len(kept) : kept[i].photo \notin spoilt
       => /\ kept[i].mark.start # "none" <=> kept[i].place = 1
          /\ kept[i].mark.end <=> kept[i].place = Pieces

Begun(kept) == kept # << >> /\ kept[1].mark.start = "head"
Complete(kept, p, n) == Len(kept) = n /\ \A i \in 1..n : kept[i].photo = p /\ kept[i].place = i

\* No end is behind a start, but perhaps in the last of the chunks.
EndsLast(kept) == \A i, j \in 1..Len(kept) : i <= j /\ j # Len(kept) /\ kept[i].mark.start # "none"
                                                => ~kept[j].mark.end
EndsNowhere(kept) == \A i, j \in 1..Len(kept) : i <= j /\ kept[i].mark.start # "none"
                                                   => ~kept[j].mark.end

\* A photo of which nothing is missing and that has not ended is what is kept.
BufferInv ==
    /\ KeptInOrder(chunkBuffer, photo, place) /\ KeptPlain(chunkBuffer, lossy)
    /\ EndsNowhere(chunkBuffer)
    /\ Begun(chunkBuffer) /\ chunkBuffer[1].photo \notin lossy
         => place < Pieces /\ Complete(chunkBuffer, photo, place)
    /\ photo > 0 /\ place < Pieces /\ photo \notin lossy
         => Begun(chunkBuffer) /\ chunkBuffer[1].photo = photo

PhotoInv == PhotoTyped /\ BufferInv /\ PhotoWhole

LEMMA MarkIs ==
    ASSUME NEW n \in 1..Pieces, NEW t \in Thumbs
    PROVE  /\ Mark(n, t) \in PhotoMarks
           /\ n = 1 => Mark(n, t).start = "head"
           /\ t = NoThumb => /\ Mark(n, t).start # "none" <=> n = 1
                             /\ Mark(n, t).end <=> n = Pieces
<1>1. Pieces \in Nat /\ Pieces > 1 /\ n \in Nat /\ n >= 1
  BY PhotoAssumption
<1>2. t.first \in Nat /\ t.last \in Nat /\ t.leads \in BOOLEAN
  <2>1. CASE t = NoThumb
    BY <2>1 DEF NoThumb
  <2>2. CASE t \in [first : 1..(Pieces - 1), last : 1..(Pieces - 1), leads : BOOLEAN]
    <3>1. t.first \in 1..(Pieces - 1) /\ t.last \in 1..(Pieces - 1) /\ t.leads \in BOOLEAN
      BY <2>2
    <3>. QED
      BY <1>1, <3>1
  <2>. QED
    BY <2>1, <2>2 DEF Thumbs
<1>3. Mark(n, t) \in PhotoMarks
  BY <1>1, <1>2 DEF Mark, PhotoMarks
<1>4. n = 1 => Mark(n, t).start = "head"
  BY <1>1, <1>2 DEF Mark
<1>5. ASSUME t = NoThumb
      PROVE  /\ Mark(n, t).start # "none" <=> n = 1
             /\ Mark(n, t).end <=> n = Pieces
  <2>1. t.first = 0 /\ t.last = 0 /\ t.leads = FALSE
    BY <1>5 DEF NoThumb
  <2>2. n # 0 /\ Pieces # 0
    BY <1>1
  <2>3. Mark(n, t).end <=> n = Pieces
    BY <2>1, <2>2 DEF Mark
  <2>4. n # 1 => Mark(n, t).start = "none"
    BY <2>1, <2>2 DEF Mark
  <2>. QED
    BY <1>4, <2>3, <2>4
<1>. QED
  BY <1>3, <1>4, <1>5

\* The first start and the first end behind it, when no end is before the last
\* chunk: no frame, or all from the first start on.
LEMMA Reassembled ==
    ASSUME NEW kept \in Seq(PhotoChunk), kept # << >>, EndsLast(kept)
    PROVE  /\ ReassembleJpeg(kept) = << >> => EndsNowhere(kept)
           /\ ReassembleJpeg(kept) # << >> =>
                \E from \in 1..Len(kept) :
                   /\ kept[from].mark.start # "none" /\ kept[Len(kept)].mark.end
                   /\ Begun(kept) => from = 1
                   /\ ReassembleJpeg(kept) \in Seq(Piece)
                   /\ Len(ReassembleJpeg(kept)) = Len(kept) - from + 1
                   /\ \A i \in 1..(Len(kept) - from + 1) :
                         ReassembleJpeg(kept)[i] = PieceOf(kept[from + i - 1])
<1>. DEFINE n == Len(kept)
            starts == {i \in DOMAIN kept : kept[i].mark.start # "none"}
            ends == {i \in DOMAIN kept : kept[i].mark.end /\ \E s \in starts : s <= i}
            from == CHOOSE i \in starts : \A k \in starts : i <= k
            to == CHOOSE i \in ends : \A k \in ends : i <= k
            jpeg == [i \in 1..(to - from + 1) |-> PieceOf(kept[from + i - 1])]
<1>1. n \in Nat /\ n >= 1 /\ DOMAIN kept = 1..n /\ \A i \in 1..n : kept[i] \in PhotoChunk
  <2>1. n \in Nat /\ DOMAIN kept = 1..n /\ \A i \in 1..n : kept[i] \in PhotoChunk
    OBVIOUS
  <2>2. n # 0
    BY EmptySeq
  <2>. QED
    BY <2>1, <2>2
<1>2. ReassembleJpeg(kept) = IF ends = {} THEN << >> ELSE jpeg
  BY DEF ReassembleJpeg, PieceOf
<1>3. ends \subseteq {n}
  BY <1>1 DEF EndsLast
<1>4. ends = {} => EndsNowhere(kept)
  BY <1>1 DEF EndsNowhere
<1>5. ASSUME ends # {}
      PROVE  /\ from \in 1..n /\ to = n /\ kept[from].mark.start # "none" /\ kept[n].mark.end
             /\ Begun(kept) => from = 1
  <2>1. ends = {n} /\ n \in ends
    BY <1>3, <1>5
  <2>2. to = n
    BY <1>1, <2>1
  <2>3. kept[n].mark.end /\ starts # {} /\ starts \in SUBSET Nat
    BY <1>1, <2>1
  <2>4. from \in starts /\ \A k \in starts : from <= k
    <3>. HIDE DEF starts
    <3>1. Min(starts) \in starts /\ \A k \in starts : Min(starts) <= k
      BY <2>3, Least
    <3>. QED
      BY <3>1
  <2>5. Begun(kept) => from = 1
    <3>1. Begun(kept) => 1 \in starts
      BY <1>1 DEF Begun
    <3>2. from \in 1..n
      BY <1>1, <2>4
    <3>. HIDE DEF from, starts
    <3>. QED
      BY <1>1, <2>4, <3>1, <3>2
  <2>. QED
    BY <1>1, <2>2, <2>3, <2>4, <2>5
<1>. HIDE DEF n, starts, ends, from, to
<1>6. ASSUME ends # {}
      PROVE  /\ jpeg \in Seq(Piece) /\ Len(jpeg) = n - from + 1 /\ jpeg # << >>
             /\ \A i \in 1..(n - from + 1) : jpeg[i] = PieceOf(kept[from + i - 1])
  <2>1. from \in 1..n /\ to = n
    BY <1>5, <1>6
  <2>2. /\ n - from + 1 \in Nat /\ n - from + 1 >= 1 /\ to - from + 1 = n - from + 1
        /\ \A i \in 1..(n - from + 1) : from + i - 1 \in 1..n
    BY <1>1, <2>1
  <2>3. \A i \in 1..(n - from + 1) : PieceOf(kept[from + i - 1]) \in Piece
    BY <1>1, <2>2 DEF PhotoChunk, Piece, PieceOf
  <2>4. jpeg \in Seq(Piece) /\ Len(jpeg) = n - from + 1
    BY <2>2, <2>3
  <2>5. \A i \in 1..(n - from + 1) : jpeg[i] = PieceOf(kept[from + i - 1])
    BY <2>2
  <2>. QED
    BY <2>2, <2>4, <2>5, EmptySeq
<1>. HIDE DEF jpeg
<1>. QED
  <2>1. CASE ends = {}
    BY <1>2, <1>4, <2>1
  <2>2. CASE ends # {}
    BY <1>2, <1>5, <1>6, <2>2 DEF n
  <2>. QED
    BY <2>1, <2>2

\* The next piece, whether or not it gets through.
LEMMA SendsAdvances ==
    ASSUME PhotoTyped, NEW lost \in BOOLEAN, Sends(lost)
    PROVE  /\ photo' \in Nat /\ place' \in 1..Pieces /\ thumb' \in Thumbs /\ photo' > 0
           /\ lossy \subseteq lossy' /\ (lost => photo' \in lossy')
           /\ photo' \notin lossy' => thumb' = NoThumb
           /\ \/ photo' = photo /\ place < Pieces /\ place' = place + 1
              \/ photo' = photo + 1 /\ place = Pieces /\ place' = 1
<1>1. photo \in Nat /\ place \in Nat /\ Pieces \in Nat /\ Pieces > 1 /\ place >= 1 /\ place <= Pieces
  BY PhotoAssumption DEF PhotoTyped
<1>2. \/ photo' = photo /\ place < Pieces /\ place' = place + 1 /\ thumb' = thumb
      \/ photo' = photo + 1 /\ place = Pieces /\ place' = 1 /\ thumb' \in Thumbs
  BY DEF Sends
<1>3. photo' \in Nat /\ place' \in 1..Pieces /\ thumb' \in Thumbs /\ photo' > 0
  BY <1>1, <1>2 DEF PhotoTyped
<1>4. lossy' = IF lost \/ thumb' # NoThumb THEN lossy \cup {photo'} ELSE lossy
  BY DEF Sends
<1>. QED
  BY <1>2, <1>3, <1>4

\* What is kept is as much in order after the next piece, if that is not kept.
LEMMA KeptLater ==
    ASSUME PhotoTyped, KeptInOrder(chunkBuffer, photo, place),
           NEW p \in Nat, NEW n \in 1..Pieces,
           (p = photo /\ n > place) \/ p > photo
    PROVE  /\ KeptInOrder(chunkBuffer, p, n)
           /\ \A i \in 1..Len(chunkBuffer) :
                 chunkBuffer[i].photo < p \/ (chunkBuffer[i].photo = p /\ chunkBuffer[i].place < n)
<1>1. /\ \A i \in 1..Len(chunkBuffer) : chunkBuffer[i].photo \in Nat /\ chunkBuffer[i].place \in Nat
      /\ photo \in Nat /\ place \in Nat /\ n \in Nat
  <2>1. photo \in Nat /\ place \in Nat /\ n \in Nat /\ Pieces \in Nat
    BY PhotoAssumption DEF PhotoTyped
  <2>2. \A i \in 1..Len(chunkBuffer) : chunkBuffer[i] \in PhotoChunk
    BY DEF PhotoTyped
  <2>. QED
    BY <2>1, <2>2 DEF PhotoChunk
<1>2. \A i \in 1..Len(chunkBuffer) :
         chunkBuffer[i].photo < p \/ (chunkBuffer[i].photo = p /\ chunkBuffer[i].place < n)
  BY <1>1 DEF KeptInOrder
<1>3. \A i \in 1..Len(chunkBuffer) :
         chunkBuffer[i].photo < p \/ (chunkBuffer[i].photo = p /\ chunkBuffer[i].place <= n)
  BY <1>1, <1>2
<1>. QED
  BY <1>2, <1>3 DEF KeptInOrder

LEMMA LostInv == ASSUME PhotoInv, Lost PROVE PhotoInv'
<1>1. PhotoTyped /\ BufferInv /\ PhotoWhole /\ UNCHANGED <<chunkBuffer, latestFrame>> /\ Sends(TRUE)
  BY DEF PhotoInv, Lost
<1>2. /\ photo' \in Nat /\ place' \in 1..Pieces /\ thumb' \in Thumbs /\ photo' > 0
      /\ lossy \subseteq lossy' /\ photo' \in lossy'
      /\ \/ photo' = photo /\ place < Pieces /\ place' = place + 1
         \/ photo' = photo + 1 /\ place = Pieces /\ place' = 1
  BY <1>1, SendsAdvances
<1>3. photo \in Nat /\ place \in Nat /\ place >= 1 /\ Pieces \in Nat
  BY <1>1, PhotoAssumption DEF PhotoTyped
<1>4. KeptInOrder(chunkBuffer, photo', place')
  BY <1>1, <1>2, <1>3, KeptLater DEF BufferInv
<1>5. KeptPlain(chunkBuffer, lossy')
  BY <1>1, <1>2 DEF BufferInv, KeptPlain
<1>6. Begun(chunkBuffer) => chunkBuffer[1].photo \in lossy'
  <2>1. Begun(chunkBuffer) => \/ chunkBuffer[1].photo \in lossy
                              \/ chunkBuffer[1].photo = photo /\ place < Pieces
    BY <1>1, <1>3 DEF BufferInv, Complete
  <2>2. place < Pieces => photo' = photo
    BY <1>2, <1>3
  <2>. QED
    BY <1>2, <2>1, <2>2
<1>7. BufferInv'
  <2>1. chunkBuffer' = chunkBuffer /\ EndsNowhere(chunkBuffer)
    BY <1>1 DEF BufferInv
  <2>. QED
    BY <1>2, <1>4, <1>5, <1>6, <2>1 DEF BufferInv
<1>8. PhotoWhole'
  BY <1>1, <1>2 DEF PhotoWhole
<1>9. PhotoTyped'
  BY <1>1, <1>2 DEF PhotoTyped
<1>. QED
  BY <1>7, <1>8, <1>9 DEF PhotoInv

\* An empty buffer has every order.
LEMMA NothingKept ==
    ASSUME NEW p, NEW n, NEW spoilt
    PROVE  /\ << >> \in Seq(PhotoChunk) /\ << >> \in Seq(Piece) /\ Len(<< >>) = 0 /\ ~Begun(<< >>)
           /\ KeptInOrder(<< >>, p, n) /\ KeptPlain(<< >>, spoilt) /\ EndsNowhere(<< >>)
<1>. DEFINE none == << >>
<1>1. none \in Seq(PhotoChunk) /\ none \in Seq(Piece) /\ Len(none) = 0 /\ ~Begun(none)
  BY EmptySeq DEF Begun
<1>. HIDE DEF none
<1>2. KeptInOrder(none, p, n) /\ KeptPlain(none, spoilt) /\ EndsNowhere(none)
  BY <1>1 DEF KeptInOrder, KeptPlain, EndsNowhere
<1>. QED
  BY <1>1, <1>2 DEF none

LEMMA PhotoShutdownInv == ASSUME PhotoInv, PhotoShutdown PROVE PhotoInv'
<1>1. /\ PhotoTyped /\ chunkBuffer' = << >> /\ latestFrame' = << >> /\ UNCHANGED <<photo, place, thumb>>
      /\ photo' \in lossy'
  BY DEF PhotoInv, PhotoShutdown
<1>2. PhotoTyped'
  BY <1>1, NothingKept DEF PhotoTyped
<1>3. BufferInv'
  BY <1>1, NothingKept DEF BufferInv
<1>4. PhotoWhole'
  BY <1>1 DEF PhotoWhole
<1>. QED
  BY <1>2, <1>3, <1>4 DEF PhotoInv

\* Places of a part of a sequence that goes from one place to its end.
LEMMA PartOf ==
    ASSUME NEW n \in Int, NEW from \in Int, NEW i \in Int,
           from >= 1, i >= 1, i <= (n - from + 1) - 1
    PROVE  /\ i \in 1..(n - from + 1) /\ i + 1 \in 1..(n - from + 1)
           /\ from + i - 1 \in 1..(n - 1) /\ from + (i + 1) - 1 = (from + i - 1) + 1
<1>1. n - from \in Int /\ i <= n - from
  OBVIOUS
<1>. QED
  BY <1>1

\* The chunks kept when one has come, of which it is the last: what follows from
\* their order for the frame and for those kept on.
LEMMA KeepsInv ==
    ASSUME PhotoWhole, lossy \subseteq lossy', NEW kept \in Seq(PhotoChunk), kept # << >>, Keeps(kept),
           /\ photo' \in Nat /\ place' \in 1..Pieces /\ thumb' \in Thumbs /\ photo' > 0
           /\ latestFrame \in Seq(Piece),
           KeptInOrder(kept, photo', place'), KeptPlain(kept, lossy'), EndsLast(kept),
           Begun(kept) /\ kept[1].photo \notin lossy' => Complete(kept, photo', place'),
           photo' \notin lossy' => Begun(kept) /\ kept[1].photo = photo'
    PROVE  PhotoInv'
<1>. DEFINE jpeg == ReassembleJpeg(kept)
            n == Len(kept)
<1>1. n \in Nat /\ n >= 1 /\ Pieces \in Nat /\ Pieces > 1 /\ \A i \in 1..n : kept[i] \in PhotoChunk
  <2>1. n \in Nat /\ \A i \in 1..n : kept[i] \in PhotoChunk
    OBVIOUS
  <2>2. n # 0
    BY EmptySeq
  <2>. QED
    BY <2>1, <2>2, PhotoAssumption
<1>2. IF jpeg = << >> THEN chunkBuffer' = kept /\ latestFrame' = latestFrame
      ELSE chunkBuffer' = << >> /\ latestFrame' = jpeg
  BY DEF Keeps
<1>. HIDE DEF jpeg
<1>3. CASE jpeg = << >>
  <2>1. chunkBuffer' = kept /\ latestFrame' = latestFrame /\ EndsNowhere(kept)
    BY <1>2, <1>3, Reassembled DEF jpeg
  <2>2. PhotoTyped'
    BY <2>1 DEF PhotoTyped
\* One of which nothing is missing has a start in front, and at its end an end.
  <2>3. Begun(kept) /\ kept[1].photo \notin lossy' => place' # Pieces
    <3>. SUFFICES ASSUME Begun(kept), kept[1].photo \notin lossy', place' = Pieces PROVE FALSE
      OBVIOUS
    <3>1. n = Pieces /\ kept[n].photo = kept[1].photo /\ kept[n].place = Pieces /\ 1 \in 1..n /\ n \in 1..n
      BY <1>1 DEF Complete
    <3>2. kept[n].mark.end /\ kept[1].mark.start # "none"
      BY <3>1 DEF KeptPlain, Begun
    <3>. QED
      BY <1>1, <2>1, <3>1, <3>2 DEF EndsNowhere
  <2>4. BufferInv'
    <3>1. place' # Pieces => place' < Pieces
      BY <1>1
    <3>2. KeptInOrder(chunkBuffer', photo', place') /\ KeptPlain(chunkBuffer', lossy') /\ EndsNowhere(chunkBuffer')
      BY <2>1
    <3>3. Begun(chunkBuffer') /\ chunkBuffer'[1].photo \notin lossy'
            => place' < Pieces /\ Complete(chunkBuffer', photo', place')
      BY <2>1, <2>3, <3>1
    <3>4. photo' \notin lossy' => Begun(chunkBuffer') /\ chunkBuffer'[1].photo = photo'
      BY <2>1
    <3>. QED
      BY <3>2, <3>3, <3>4 DEF BufferInv
  <2>5. PhotoWhole'
    BY <2>1, <2>3 DEF PhotoWhole
  <2>. QED
    BY <2>2, <2>4, <2>5 DEF PhotoInv
<1>4. CASE jpeg # << >>
  <2>1. chunkBuffer' = << >> /\ latestFrame' = jpeg
    BY <1>2, <1>4
  <2>2. PICK from \in 1..n :
           /\ kept[from].mark.start # "none" /\ kept[n].mark.end
           /\ Begun(kept) => from = 1
           /\ jpeg \in Seq(Piece) /\ Len(jpeg) = n - from + 1
           /\ \A i \in 1..(n - from + 1) : jpeg[i] = PieceOf(kept[from + i - 1])
    BY <1>4, Reassembled DEF jpeg
  <2>. DEFINE len == n - from + 1
  <2>3. /\ len \in Nat /\ len >= 1 /\ from \in Nat /\ from >= 1 /\ from <= n /\ Len(jpeg) = len
        /\ \A i \in 1..len : /\ jpeg[i].photo = kept[from + i - 1].photo
                             /\ jpeg[i].place = kept[from + i - 1].place
    <3>. HIDE DEF n
    <3>1. len \in Nat /\ len >= 1 /\ from \in Nat /\ from >= 1 /\ from <= n /\ Len(jpeg) = len
      BY <1>1, <2>2
    <3>2. \A i \in 1..len : jpeg[i] = PieceOf(kept[from + i - 1])
      BY <2>2
    <3>. QED
      BY <3>1, <3>2 DEF PieceOf
  <2>4. PhotoTyped'
    BY <2>1, <2>2, NothingKept DEF PhotoTyped
  <2>5. jpeg[1].photo = kept[from].photo
    BY <2>3
\* It begins with its own start, and is over.
  <2>6. ASSUME kept[from].photo \notin lossy'
        PROVE  /\ Begun(kept) /\ from = 1 /\ n = Pieces /\ place' = Pieces /\ kept[from].photo = photo'
               /\ \A i \in 1..Pieces : kept[i].photo = photo' /\ kept[i].place = i
    <3>1. kept[from].mark.start = "head"
      BY <2>2, <2>6 DEF KeptPlain, KeptInOrder
    <3>2. from = 1 /\ Begun(kept)
      BY <2>2, <3>1 DEF KeptInOrder, Begun
    <3>3. Complete(kept, photo', place')
      BY <2>6, <3>2
    <3>4. n \in 1..n /\ kept[n].photo = photo' /\ kept[n].place = n /\ n = place' /\ kept[1].photo = photo'
      BY <1>1, <3>3 DEF Complete
    <3>5. n = Pieces
      BY <2>2, <2>6, <3>2, <3>4 DEF KeptPlain
    <3>. QED
      BY <3>2, <3>3, <3>4, <3>5 DEF Complete
  <2>7. kept[from].photo \notin lossy' => jpeg = Whole(photo') /\ jpeg[1].photo = photo'
    <3>. SUFFICES ASSUME kept[from].photo \notin lossy' PROVE jpeg = Whole(photo') /\ jpeg[1].photo = photo'
      OBVIOUS
    <3>1. len = Pieces /\ from = 1 /\ \A i \in 1..Pieces : jpeg[i] = [photo |-> photo', place |-> i]
      <4>1. len = Pieces /\ from = 1
        BY <1>1, <2>6
      <4>2. \A i \in 1..Pieces : from + i - 1 = i
        BY <1>1, <4>1
      <4>. QED
        BY <2>2, <2>6, <4>1, <4>2 DEF PieceOf
    <3>2. jpeg \in Seq(Piece) /\ Len(jpeg) = Pieces
      BY <2>2, <3>1
    <3>. QED
      BY <1>1, <3>1, <3>2 DEF Whole
  <2>8. photo' \notin lossy' => kept[from].photo = photo'
    BY <2>2
  <2>9. BufferInv'
    <3>1. photo' \notin lossy' => place' = Pieces
      BY <2>6, <2>8
    <3>. QED
      BY <1>1, <2>1, <3>1, NothingKept DEF BufferInv
  <2>10. ASSUME NEW i \in 1..(Len(jpeg) - 1)
         PROVE  \/ jpeg[i].photo < jpeg[i + 1].photo
                \/ jpeg[i].photo = jpeg[i + 1].photo /\ jpeg[i].place < jpeg[i + 1].place
    <3>. DEFINE j == from + i - 1
    <3>1. i \in 1..len /\ i + 1 \in 1..len /\ j \in 1..(n - 1) /\ from + (i + 1) - 1 = j + 1
      <4>. HIDE DEF n
      <4>1. n \in Int /\ from \in Int /\ i \in Int /\ from >= 1 /\ i >= 1 /\ i <= (n - from + 1) - 1
        BY <1>1, <2>3
      <4>. QED
        BY <4>1, PartOf
    <3>2. \/ kept[j].photo < kept[j + 1].photo
          \/ kept[j].photo = kept[j + 1].photo /\ kept[j].place < kept[j + 1].place
      BY <3>1 DEF KeptInOrder
    <3>3. /\ jpeg[i].photo = kept[j].photo /\ jpeg[i].place = kept[j].place
          /\ jpeg[i + 1].photo = kept[j + 1].photo /\ jpeg[i + 1].place = kept[j + 1].place
      BY <2>3, <3>1
    <3>. QED
      BY <3>2, <3>3
  <2>11. PhotoWhole'
    BY <2>1, <2>5, <2>7, <2>8, <2>10 DEF PhotoWhole
  <2>. QED
    BY <2>4, <2>9, <2>11 DEF PhotoInv
<1>. QED
  BY <1>3, <1>4

LEMMA NotificationInv == ASSUME PhotoInv, OnBleNotification PROVE PhotoInv'
<1>. DEFINE m == Mark(place', thumb')
            chunk == [photo |-> photo', place |-> place', mark |-> m]
            len == Len(chunkBuffer)
            alone == <<chunk>>
            more == Append(chunkBuffer, chunk)
<1>1. /\ PhotoTyped /\ BufferInv /\ PhotoWhole /\ Sends(FALSE) /\ photo \in Nat /\ place \in Nat /\ place >= 1
      /\ Pieces \in Nat /\ Pieces > 1 /\ chunkBuffer \in Seq(PhotoChunk) /\ len \in Nat
      /\ latestFrame \in Seq(Piece)
  <2>1. PhotoTyped /\ BufferInv /\ PhotoWhole /\ Sends(FALSE)
    BY DEF PhotoInv, OnBleNotification
  <2>. HIDE DEF len
  <2>2. photo \in Nat /\ place \in 1..Pieces /\ chunkBuffer \in Seq(PhotoChunk) /\ latestFrame \in Seq(Piece)
    BY <2>1 DEF PhotoTyped
  <2>3. Pieces \in Nat /\ Pieces > 1 /\ place \in Nat /\ place >= 1
    BY <2>2, PhotoAssumption
  <2>4. len \in Nat
    BY <2>2 DEF len
  <2>. QED
    BY <2>1, <2>2, <2>3, <2>4
<1>2. /\ photo' \in Nat /\ place' \in 1..Pieces /\ thumb' \in Thumbs /\ photo' > 0
      /\ lossy \subseteq lossy' /\ (photo' \notin lossy' => thumb' = NoThumb)
      /\ \/ photo' = photo /\ place < Pieces /\ place' = place + 1
         \/ photo' = photo + 1 /\ place = Pieces /\ place' = 1
  BY <1>1, SendsAdvances
<1>3. /\ m \in PhotoMarks /\ (place' = 1 => m.start = "head")
      /\ photo' \notin lossy' => /\ m.start # "none" <=> place' = 1
                                 /\ m.end <=> place' = Pieces
  BY <1>2, MarkIs
<1>4. IF m.start = "head" THEN Keeps(alone) ELSE Keeps(more)
  BY DEF OnBleNotification, Notified
<1>. HIDE DEF m
<1>5. chunk \in PhotoChunk /\ chunk.photo = photo' /\ chunk.place = place' /\ chunk.mark = m
  BY <1>2, <1>3 DEF PhotoChunk
<1>. HIDE DEF chunk
<1>6. CASE m.start = "head"
  <2>1. alone \in Seq(PhotoChunk) /\ alone # << >> /\ Len(alone) = 1 /\ alone[1] = chunk
    BY <1>5
  <2>. HIDE DEF alone
  <2>2. KeptInOrder(alone, photo', place') /\ KeptPlain(alone, lossy') /\ EndsLast(alone)
    <3>1. \A i \in 1..Len(alone) : i = 1
      BY <2>1
    <3>2. KeptInOrder(alone, photo', place')
      BY <1>2, <1>3, <1>5, <1>6, <2>1, <3>1 DEF KeptInOrder
    <3>. QED
      BY <1>3, <1>5, <2>1, <3>1, <3>2 DEF KeptPlain, EndsLast
  <2>3. Begun(alone) /\ alone[1].photo = photo'
    BY <1>5, <1>6, <2>1 DEF Begun
  <2>4. photo' \notin lossy' => Complete(alone, photo', place')
    <3>1. photo' \notin lossy' => place' = 1
      BY <1>3, <1>6
    <3>. QED
      BY <1>5, <2>1, <3>1 DEF Complete
  <2>. QED
    BY <1>1, <1>2, <1>4, <1>6, <2>1, <2>2, <2>3, <2>4, KeepsInv
<1>7. CASE m.start # "head"
  <2>1. photo' = photo /\ place < Pieces /\ place' = place + 1
    BY <1>2, <1>3, <1>7
  <2>2. /\ more \in Seq(PhotoChunk) /\ Len(more) = len + 1 /\ more[len + 1] = chunk
        /\ \A i \in 1..len : more[i] = chunkBuffer[i]
    BY <1>1, <1>5, AppendProperties
  <2>3. more # << >>
    BY <1>1, <2>2, EmptySeq
  <2>. HIDE DEF more, len
  <2>4. /\ \A i \in 1..(len + 1) : i \in 1..len \/ i = len + 1
        /\ 1..(Len(more) - 1) = 1..len /\ Len(more) = len + 1
    BY <1>1, <2>2
  <2>5. /\ KeptInOrder(chunkBuffer, photo', place')
        /\ \A i \in 1..len : chunkBuffer[i].photo < photo'
                             \/ (chunkBuffer[i].photo = photo' /\ chunkBuffer[i].place < place')
    BY <1>1, <1>2, <2>1, KeptLater DEF BufferInv, len
  <2>6. KeptInOrder(more, photo', place')
    <3>1. ASSUME NEW i \in 1..(len + 1)
          PROVE  /\ more[i].mark.start = "head" => i = 1
                 /\ more[i].place = 1 => more[i].mark.start = "head"
                 /\ more[i].photo < photo' \/ (more[i].photo = photo' /\ more[i].place <= place')
      <4>1. CASE i \in 1..len
        BY <2>2, <2>5, <4>1 DEF KeptInOrder, len
      <4>2. CASE i = len + 1
        BY <1>2, <1>3, <1>5, <1>7, <2>2, <4>2
      <4>. QED
        BY <2>4, <4>1, <4>2
    <3>2. ASSUME NEW i \in 1..len
          PROVE  \/ more[i].photo < more[i + 1].photo
                 \/ more[i].photo = more[i + 1].photo /\ more[i].place < more[i + 1].place
      <4>1. CASE i = len
        BY <1>5, <2>2, <2>5, <4>1
      <4>2. CASE i # len
        <5>1. i \in 1..(len - 1) /\ i \in 1..len /\ i + 1 \in 1..len
          BY <1>1, <4>2
        <5>2. \/ chunkBuffer[i].photo < chunkBuffer[i + 1].photo
              \/ chunkBuffer[i].photo = chunkBuffer[i + 1].photo /\ chunkBuffer[i].place < chunkBuffer[i + 1].place
          BY <2>5, <5>1 DEF KeptInOrder, len
        <5>. QED
          BY <2>2, <5>1, <5>2
      <4>. QED
        BY <4>1, <4>2
    <3>. QED
      BY <2>4, <3>1, <3>2 DEF KeptInOrder
  <2>7. KeptPlain(more, lossy')
    <3>. SUFFICES ASSUME NEW i \in 1..(len + 1), more[i].photo \notin lossy'
                  PROVE  /\ more[i].mark.start # "none" <=> more[i].place = 1
                         /\ more[i].mark.end <=> more[i].place = Pieces
      BY <2>4 DEF KeptPlain
    <3>1. CASE i \in 1..len
      BY <1>1, <1>2, <2>2, <3>1 DEF BufferInv, KeptPlain, len
    <3>2. CASE i = len + 1
      BY <1>3, <1>5, <2>2, <3>2
    <3>. QED
      BY <2>4, <3>1, <3>2
  <2>8. EndsLast(more)
    <3>. SUFFICES ASSUME NEW i \in 1..(len + 1), NEW j \in 1..(len + 1), i <= j, j # len + 1,
                         more[i].mark.start # "none"
                  PROVE  ~more[j].mark.end
      BY <2>4 DEF EndsLast
    <3>1. i \in 1..len /\ j \in 1..len
      BY <1>1, <2>4
    <3>. QED
      BY <1>1, <2>2, <3>1 DEF BufferInv, EndsNowhere, len
\* What had begun goes on; nothing else begins.
  <2>9. Begun(more) <=> Begun(chunkBuffer)
    <3>1. chunkBuffer # << >> => 1 \in 1..len
      BY <1>1, EmptySeq DEF len
    <3>2. chunkBuffer = << >> => len = 0
      BY EmptySeq DEF len
    <3>3. CASE chunkBuffer # << >>
      BY <2>2, <2>3, <3>1, <3>3 DEF Begun
    <3>4. CASE chunkBuffer = << >>
      BY <1>5, <1>7, <2>2, <3>2, <3>4 DEF Begun
    <3>. QED
      BY <3>3, <3>4
  <2>10. Begun(more) => 1 \in 1..len /\ more[1] = chunkBuffer[1]
    <3>1. chunkBuffer # << >> => 1 \in 1..len
      BY <1>1, EmptySeq DEF len
    <3>. QED
      BY <2>2, <2>9, <3>1 DEF Begun
  <2>11. Begun(more) /\ more[1].photo \notin lossy' => Complete(more, photo', place')
    <3>. SUFFICES ASSUME Begun(more), more[1].photo \notin lossy' PROVE Complete(more, photo', place')
      OBVIOUS
    <3>1. len = place /\ \A i \in 1..len : chunkBuffer[i].photo = photo /\ chunkBuffer[i].place = i
      BY <1>1, <1>2, <2>9, <2>10 DEF BufferInv, Complete, len
    <3>2. \A i \in 1..place' : i \in 1..len \/ i = len + 1
      BY <1>1, <2>1, <3>1
    <3>. QED
      BY <1>5, <2>1, <2>2, <3>1, <3>2 DEF Complete
  <2>12. photo' \notin lossy' => Begun(more) /\ more[1].photo = photo'
    <3>1. photo' \notin lossy' => Begun(chunkBuffer) /\ chunkBuffer[1].photo = photo
      BY <1>1, <1>2, <2>1 DEF BufferInv
    <3>. QED
      BY <2>1, <2>9, <2>10, <3>1
  <2>. QED
    BY <1>1, <1>2, <1>4, <1>7, <2>2, <2>3, <2>6, <2>7, <2>8, <2>11, <2>12, KeepsInv
<1>. QED
  BY <1>6, <1>7

\* A photo that came through whole and brings no thumbnail is the frame, from end
\* to end, and every frame is in the order the glasses sent it, however many pieces
\* a photo has, and whatever happened to the photos before and after.
THEOREM PhotosAreWhole == PhotoSpec => []PhotoWhole
<1>1. PhotoInit => PhotoInv
  <2>. SUFFICES ASSUME PhotoInit PROVE PhotoInv
    OBVIOUS
  <2>1. /\ photo = 0 /\ place = Pieces /\ thumb = NoThumb /\ lossy = {}
        /\ chunkBuffer = << >> /\ latestFrame = << >>
    BY DEF PhotoInit
  <2>2. PhotoTyped
    BY <2>1, NothingKept, PhotoAssumption DEF PhotoTyped, Thumbs
  <2>3. BufferInv
    BY <2>1, NothingKept DEF BufferInv
  <2>4. PhotoWhole
    BY <2>1 DEF PhotoWhole
  <2>. QED
    BY <2>2, <2>3, <2>4 DEF PhotoInv
<1>2. PhotoInv /\ [PhotoNext]_photoVars => PhotoInv'
  <2>1. PhotoInv /\ UNCHANGED photoVars => PhotoInv'
    BY DEF photoVars, PhotoInv, PhotoTyped, BufferInv, PhotoWhole
  <2>. QED
    BY <2>1, NotificationInv, LostInv, PhotoShutdownInv DEF PhotoNext
<1>3. PhotoInv => PhotoWhole
  BY DEF PhotoInv
<1>. QED
  BY <1>1, <1>2, <1>3, PTL DEF PhotoSpec

-----------------------------------------------------------------------------
(* IosReceiver: the receiver says what it did, and does what it was told.  *)

Fresh(s) == server[s].pc \in {"post", "handle"}
Answering(s) == server[s].pc = "answer"
Working(s) == Fresh(s) \/ Answering(s)
ServerRecord == [pc : {"unborn", "start", "top", "post", "handle", "answer", "ended"}, post : Nat]

IosTyped == /\ post \in Seq(PostKinds) /\ answer \in Seq(Nat) /\ Len(answer) = Len(post)
            /\ backlog \in Seq(Nat) /\ applied \in Seq(Nat)
            /\ server \in [Servers -> ServerRecord]
            /\ held \in [Hals -> Seq(Nat)] /\ asked \in BOOLEAN

\* What the answer to a post says of its payload; without one, nothing.
Told(n) == answer[n] \notin {0, Unanswered} => (answer[n] = 200 <=> n \in Range(applied))

\* A post is in one place until it is answered, and is applied once, before the
\* thread that works on it answers.
PostsInv ==
    /\ Rising(backlog)
    /\ \A n \in Range(backlog) : /\ n \in 1..Len(post) /\ answer[n] = Unanswered
                                 /\ n \notin Range(applied)
    /\ \A s \in Servers : Working(s) => /\ server[s].post \in 1..Len(post)
                                        /\ answer[server[s].post] = Unanswered
                                        /\ server[s].post \notin Range(backlog)
                                        /\ Fresh(s) => server[s].post \notin Range(applied)
                                        /\ Answering(s) => server[s].post \in Range(applied)
    /\ \A s, t \in Servers : Working(s) /\ Working(t) /\ server[s].post = server[t].post => s = t
    /\ \A n \in 1..Len(post) : Told(n)
    /\ Range(applied) \subseteq 1..Len(post)
    /\ IsInjective(applied)

\* What was applied came before the one a thread works on, and that before those
\* that wait.
PostsInOrder ==
    /\ Rising(applied) /\ Before(applied, backlog)
    /\ \A s \in Servers : Working(s) => /\ \A n \in Range(applied) :
                                             \/ n < server[s].post
                                             \/ Answering(s) /\ n = server[s].post
                                        /\ \A n \in Range(backlog) : server[s].post < n

\* As long as the calls take turns: only the thread in _thread lives; between the
\* calls it serves, and the request that ends it is not older than it is; the
\* wait in stop() may end on an old event only before the thread begins, and then
\* the thread sees the request before a post; and once joined, nothing lives.
NoneLives == \A s \in Servers : server[s].pc \in {"unborn", "ended"}
Serving == /\ iosThread \in Servers /\ server[iosThread].pc \in {"start", "top", "post", "handle", "answer"}
           /\ server[iosThread].pc # "start" => ~isShutDown
ProfileInv ==
    /\ \A s \in Servers : s # iosThread => server[s].pc \in {"unborn", "ended"}
    /\ \/ profile = "idle" /\ iosUp /\ Serving /\ ~asked
       \/ profile = "wait" /\ ~iosUp /\ Serving /\ asked
       \/ profile = "join" /\ ~iosUp /\ asked /\ iosThread \in Servers
                           /\ server[iosThread].pc \in {"start", "top"}
       \/ /\ ~iosUp /\ ~asked /\ NoneLives
          /\ profile \in {"camera", "audio", "idle"} => held["imu"] = << >>
          /\ profile \in {"audio", "idle"} => held["camera"] = << >>
          /\ profile = "idle" => held["audio"] = << >>

TurnsInv == ~misused => PostsInOrder /\ ProfileInv
IosInv == IosTyped /\ PostsInv /\ TurnsInv

LEMMA InjectiveAppend ==
    ASSUME NEW s \in Seq(Nat), NEW n \in Nat, IsInjective(s), n \notin Range(s)
    PROVE  IsInjective(Append(s, n))
<1>. DEFINE a == Append(s, n)
<1>1. /\ DOMAIN a = 1 .. Len(s) + 1 /\ a[Len(s) + 1] = n /\ Len(s) \in Nat /\ DOMAIN s = 1..Len(s)
      /\ \A i \in 1..Len(s) : a[i] = s[i] /\ s[i] \in Range(s)
  BY AppendProperties, RangeIs
<1>. HIDE DEF a
<1>2. ASSUME NEW i \in DOMAIN a, NEW j \in DOMAIN a, a[i] = a[j]
      PROVE  i = j
  <2>1. CASE i \in 1..Len(s) /\ j \in 1..Len(s)
    BY <1>1, <1>2, <2>1 DEF IsInjective
  <2>2. CASE i = Len(s) + 1
    BY <1>1, <1>2, <2>2
  <2>3. CASE j = Len(s) + 1
    BY <1>1, <1>2, <2>3
  <2>. QED
    BY <1>1, <2>1, <2>2, <2>3
<1>. QED
  BY <1>2 DEF IsInjective, a

LEMMA ServerGoes ==
    ASSUME IosTyped, NEW s \in Servers, NEW n \in ServerRecord, Goes(s, n.pc, n.post)
    PROVE  /\ server' \in [Servers -> ServerRecord]
           /\ server'[s].pc = n.pc /\ server'[s].post = n.post
           /\ \A t \in Servers : t # s => server'[t] = server[t]
BY DEF Goes, IosTyped, ServerRecord

LEMMA IosInvInit == IosInit => IosInv
<1>. SUFFICES ASSUME IosInit PROVE IosInv
  OBVIOUS
<1>. DEFINE none == << >>
<1>1. /\ none \in Seq(Nat) /\ none \in Seq(PostKinds) /\ Len(none) = 0 /\ Rising(none)
      /\ Range(none) = {} /\ IsInjective(none)
  <2>1. DOMAIN << >> = {}
    OBVIOUS
  <2>. QED
    BY <2>1, EmptyRising, EmptySeq DEF IsInjective
<1>2. /\ post = none /\ answer = none /\ backlog = none /\ applied = none
      /\ server = [s \in Servers |-> [pc |-> "unborn", post |-> 0]] /\ asked = FALSE
      /\ profile = "idle" /\ held = [h \in Hals |-> none] /\ iosUp = FALSE
  BY DEF IosInit
<1>3. held["imu"] = << >> /\ held["camera"] = << >> /\ held["audio"] = << >>
  BY <1>2 DEF Hals
<1>. HIDE DEF none
<1>4. IosTyped
  BY <1>1, <1>2 DEF IosTyped, ServerRecord
<1>5. \A s \in Servers : server[s].pc = "unborn" /\ ~Working(s)
  BY <1>2 DEF Working, Fresh, Answering
<1>6. PostsInv
  BY <1>1, <1>2, <1>5 DEF PostsInv
<1>7. PostsInOrder
  BY <1>1, <1>2, <1>5 DEF PostsInOrder, Before
<1>8. ProfileInv
  BY <1>2, <1>3, <1>5 DEF ProfileInv, NoneLives
<1>. QED
  BY <1>4, <1>6, <1>7, <1>8 DEF IosInv, TurnsInv

LEMMA SendPostInv == ASSUME IosInv, NEW kind \in PostKinds, SendPost(kind) PROVE IosInv'
<1>. DEFINE n == Len(post) + 1
<1>1. /\ IosTyped /\ PostsInv /\ TurnsInv /\ Len(post) \in Nat /\ n \in Nat /\ post \in Seq(PostKinds)
      /\ answer \in Seq(Nat) /\ Len(answer) = Len(post) /\ backlog \in Seq(Nat)
      /\ applied \in Seq(Nat) /\ Unanswered \in Nat
  BY DEF IosInv, IosTyped, Unanswered
<1>2. /\ UNCHANGED <<server, asked, isShutDown, iosThread, profile, held, applied, iosUp, misused>>
      /\ post' = Append(post, kind) /\ answer' = Append(answer, Unanswered)
  BY DEF SendPost, NotApp
<1>3. /\ post' \in Seq(PostKinds) /\ Len(post') = n
  BY <1>1, <1>2, AppendProperties
<1>4. /\ answer' \in Seq(Nat) /\ Len(answer') = n
      /\ answer'[n] = Unanswered /\ \A i \in 1..Len(post) : answer'[i] = answer[i]
  BY <1>1, <1>2, AppendProperties
<1>5. backlog' = Append(backlog, n)
  BY <1>3 DEF SendPost
<1>6. (\A x \in Range(backlog) : x \in 1..Len(post) /\ x < n) /\ Rising(backlog)
      /\ Range(applied) \subseteq 1..Len(post)
  BY <1>1 DEF PostsInv
<1>7. /\ backlog' \in Seq(Nat) /\ Range(backlog') = Range(backlog) \cup {n} /\ Rising(backlog')
  BY <1>1, <1>5, <1>6, RisingAppend
<1>8. 1..n = (1..Len(post)) \cup {n} /\ n \notin 1..Len(post)
  BY <1>1
<1>. HIDE DEF n
<1>9. \A s \in Servers : /\ Working(s)' <=> Working(s)
                         /\ Fresh(s)' <=> Fresh(s)
                         /\ Answering(s)' <=> Answering(s)
  BY <1>2 DEF Working, Fresh, Answering
<1>10. IosTyped'
  BY <1>1, <1>2, <1>3, <1>4, <1>7 DEF IosTyped
<1>11. PostsInv'
  <2>1. ASSUME NEW x \in Range(backlog')
        PROVE  x \in 1..n /\ answer'[x] = Unanswered /\ x \notin Range(applied)
    <3>1. CASE x = n
      BY <1>4, <1>6, <1>8, <3>1
    <3>2. CASE x \in Range(backlog)
      BY <1>1, <1>4, <1>8, <3>2 DEF PostsInv
    <3>. QED
      BY <1>7, <3>1, <3>2
  <2>2. \A s \in Servers : Working(s) => /\ server[s].post \in 1..n
                                         /\ answer'[server[s].post] = Unanswered
                                         /\ server[s].post \notin Range(backlog')
                                         /\ Fresh(s) => server[s].post \notin Range(applied)
                                         /\ Answering(s) => server[s].post \in Range(applied)
    <3>. SUFFICES ASSUME NEW s \in Servers, Working(s)
                  PROVE  /\ server[s].post \in 1..n
                         /\ answer'[server[s].post] = Unanswered
                         /\ server[s].post \notin Range(backlog')
                         /\ Fresh(s) => server[s].post \notin Range(applied)
                         /\ Answering(s) => server[s].post \in Range(applied)
      OBVIOUS
    <3>1. /\ server[s].post \in 1..Len(post) /\ answer[server[s].post] = Unanswered
          /\ server[s].post \notin Range(backlog)
          /\ Fresh(s) => server[s].post \notin Range(applied)
          /\ Answering(s) => server[s].post \in Range(applied)
      BY <1>1 DEF PostsInv
    <3>. QED
      BY <1>4, <1>7, <1>8, <3>1
  <2>3. ASSUME NEW x \in 1..n, answer'[x] \notin {0, Unanswered}
        PROVE  answer'[x] = 200 <=> x \in Range(applied)
    <3>1. x \in 1..Len(post) /\ answer'[x] = answer[x]
      BY <1>4, <1>8, <2>3
    <3>. QED
      BY <1>1, <2>3, <3>1 DEF PostsInv, Told
  <2>4. \A s, t \in Servers : Working(s) /\ Working(t) /\ server[s].post = server[t].post => s = t
    BY <1>1 DEF PostsInv
  <2>5. Range(applied) \subseteq 1..n /\ IsInjective(applied)
    BY <1>1, <1>6, <1>8 DEF PostsInv
  <2>. QED
    BY <1>2, <1>3, <1>7, <1>9, <2>1, <2>2, <2>3, <2>4, <2>5, ZenonT(40) DEF PostsInv, Told
<1>12. ASSUME ~misused' PROVE PostsInOrder' /\ ProfileInv'
  <2>1. PostsInOrder /\ ProfileInv
    BY <1>1, <1>2, <1>12 DEF TurnsInv
  <2>2. ProfileInv'
    BY <1>2, <2>1 DEF ProfileInv, Serving, NoneLives
  <2>3. \A x \in 1..Len(post) : x < n
    BY <1>1 DEF n
  <2>4. Before(applied', backlog')
    BY <1>2, <1>6, <1>7, <2>1, <2>3 DEF PostsInOrder, Before
  <2>5. \A s \in Servers : Working(s) => server[s].post \in 1..Len(post)
    BY <1>1 DEF PostsInv
  <2>. QED
    BY <1>2, <1>7, <1>9, <2>1, <2>2, <2>3, <2>4, <2>5 DEF PostsInOrder
<1>. QED
  BY <1>10, <1>11, <1>12 DEF IosInv, TurnsInv

\* What touches no post: the places of the threads without one, and the caller.
LEMMA NoPostMoves ==
    ASSUME IosTyped, PostsInv, server' \in [Servers -> ServerRecord],
           \A s \in Servers : Working(s)' => /\ Working(s) /\ server'[s].post = server[s].post
                                             /\ Answering(s)' <=> Answering(s),
           UNCHANGED <<post, answer, backlog, applied>>,
           held' \in [Hals -> Seq(Nat)], asked' \in BOOLEAN
    PROVE  IosTyped' /\ PostsInv' /\ (PostsInOrder => PostsInOrder')
<1>1. IosTyped'
  BY DEF IosTyped
<1>2. \A s \in Servers : Working(s)' => (Fresh(s)' <=> Fresh(s))
  BY DEF Working, Fresh, Answering
<1>3. PostsInv'
  BY <1>2 DEF PostsInv, Told
<1>4. PostsInOrder => PostsInOrder'
  BY DEF PostsInOrder
<1>. QED
  BY <1>1, <1>3, <1>4

\* The caller, the pipeline, and the thread while it has no post.
LEMMA QuietStepInv ==
    ASSUME IosInv,
           \/ \E h \in Hals : ReadHal(h)
           \/ \E s \in Servers : ServeForever(s) \/ ServerEnds(s) \/ InitializeIos(s)
           \/ Shutdown \/ StopWaited \/ StopJoined
           \/ HalsShutdown("imu", "camera") \/ HalsShutdown("camera", "audio")
           \/ HalsShutdown("audio", "idle")
    PROVE  IosInv'
<1>1. /\ IosTyped /\ PostsInv /\ TurnsInv /\ held \in [Hals -> Seq(Nat)] /\ asked \in BOOLEAN
      /\ server \in [Servers -> ServerRecord]
  BY DEF IosInv, IosTyped
<1>2. UNCHANGED <<post, answer, backlog, applied>>
  BY DEF ReadHal, ServeForever, ServerEnds, OnlyServer, InitializeIos, Shutdown, StopWaited,
         StopJoined, HalsShutdown, OnlyProfile
<1>3. ASSUME NEW h \in Hals, ReadHal(h)
      PROVE  IosInv'
  <2>1. /\ UNCHANGED <<server, asked, isShutDown, iosThread, profile, iosUp, misused>>
        /\ held' = [held EXCEPT ![h] = Tail(held[h])] /\ held[h] # << >>
    BY <1>3 DEF ReadHal
  <2>2. held' \in [Hals -> Seq(Nat)]
    BY <1>1, <2>1, RisingTail
  <2>3. \A g \in Hals : held[g] = << >> => held'[g] = << >>
    BY <1>1, <2>1
  <2>4. IosTyped' /\ PostsInv' /\ (PostsInOrder => PostsInOrder')
    <3>1. \A s \in Servers : Working(s)' => /\ Working(s) /\ server'[s].post = server[s].post
                                            /\ Answering(s)' <=> Answering(s)
      BY <2>1 DEF Working, Fresh, Answering
    <3>. QED
      BY <1>1, <1>2, <2>1, <2>2, <3>1, NoPostMoves
  <2>5. ProfileInv => ProfileInv'
    BY <2>1, <2>3 DEF ProfileInv, Serving, NoneLives, Hals
  <2>. QED
    BY <1>1, <2>1, <2>4, <2>5 DEF IosInv, TurnsInv
<1>4. ASSUME NEW s \in Servers, NEW n \in ServerRecord,
             Goes(s, n.pc, n.post), n.pc \notin {"post", "handle", "answer"},
             UNCHANGED held, asked' \in BOOLEAN
      PROVE  IosTyped' /\ PostsInv' /\ (PostsInOrder => PostsInOrder')
  <2>1. /\ server' \in [Servers -> ServerRecord]
        /\ server'[s].pc = n.pc /\ \A t \in Servers : t # s => server'[t] = server[t]
    BY <1>1, <1>4, ServerGoes
  <2>2. \A t \in Servers : Working(t)' => /\ Working(t) /\ server'[t].post = server[t].post
                                          /\ Answering(t)' <=> Answering(t)
    BY <1>4, <2>1 DEF Working, Fresh, Answering
  <2>. QED
    BY <1>1, <1>2, <1>4, <2>1, <2>2, NoPostMoves
<1>5. ASSUME NEW s \in Servers, ServeForever(s)
      PROVE  IosInv'
  <2>. DEFINE n == [pc |-> "top", post |-> 0]
  <2>1. n \in ServerRecord /\ n.pc = "top" /\ n.post = 0
    BY DEF ServerRecord
  <2>2. /\ server[s].pc = "start" /\ Goes(s, n.pc, n.post) /\ isShutDown' = FALSE
        /\ UNCHANGED <<iosThread, profile, iosUp, misused, asked, held>>
    BY <1>5, <2>1 DEF ServeForever, ServerAt, OnlyServer
  <2>. HIDE DEF n
  <2>3. server'[s].pc = "top" /\ \A t \in Servers : t # s => server'[t] = server[t]
    BY <1>1, <2>1, <2>2, ServerGoes
  <2>4. IosTyped' /\ PostsInv' /\ (PostsInOrder => PostsInOrder')
    BY <1>1, <1>4, <2>1, <2>2
  <2>5. ProfileInv => ProfileInv'
    <3>. SUFFICES ASSUME ProfileInv PROVE ProfileInv'
      OBVIOUS
    <3>1. s = iosThread
      BY <2>2 DEF ProfileInv
    <3>. QED
      BY <2>2, <2>3, <3>1 DEF ProfileInv, Serving, NoneLives
  <2>. QED
    BY <1>1, <2>2, <2>4, <2>5 DEF IosInv, TurnsInv
<1>6. ASSUME NEW s \in Servers, ServerEnds(s)
      PROVE  IosInv'
  <2>. DEFINE n == [pc |-> "ended", post |-> 0]
  <2>1. n \in ServerRecord /\ n.pc = "ended" /\ n.post = 0
    BY DEF ServerRecord
  <2>2. /\ server[s].pc = "top" /\ Goes(s, n.pc, n.post) /\ isShutDown' = TRUE /\ asked /\ asked' = FALSE
        /\ UNCHANGED <<iosThread, profile, iosUp, misused, held>>
    BY <1>6, <2>1 DEF ServerEnds, ServerAt, OnlyServer
  <2>. HIDE DEF n
  <2>3. server'[s].pc = "ended" /\ \A t \in Servers : t # s => server'[t] = server[t]
    BY <1>1, <2>1, <2>2, ServerGoes
  <2>4. IosTyped' /\ PostsInv' /\ (PostsInOrder => PostsInOrder')
    BY <1>1, <1>4, <2>1, <2>2
  <2>5. ProfileInv => ProfileInv'
    <3>. SUFFICES ASSUME ProfileInv PROVE ProfileInv'
      OBVIOUS
    <3>1. s = iosThread
      BY <2>2 DEF ProfileInv
    <3>2. NoneLives' /\ ~iosUp' /\ profile' \in {"wait", "join"}
      BY <2>2, <2>3, <3>1 DEF ProfileInv, NoneLives
    <3>. QED
      BY <2>2, <3>2 DEF ProfileInv, NoneLives
  <2>. QED
    BY <1>1, <2>2, <2>4, <2>5 DEF IosInv, TurnsInv
<1>7. ASSUME NEW s \in Servers, InitializeIos(s)
      PROVE  IosInv'
  <2>. DEFINE n == [pc |-> "start", post |-> 0]
  <2>1. n \in ServerRecord /\ n.pc = "start" /\ n.post = 0
    BY DEF ServerRecord
  <2>2. /\ server[s].pc = "unborn" /\ Goes(s, n.pc, n.post) /\ iosThread' = s /\ profile = "idle"
        /\ iosUp' = TRUE /\ misused' = (misused \/ iosUp)
        /\ UNCHANGED <<asked, isShutDown, profile, held>>
    BY <1>7, <2>1 DEF InitializeIos, ServerAt, OnlyProfile
  <2>. HIDE DEF n
  <2>3. server'[s].pc = "start" /\ \A t \in Servers : t # s => server'[t] = server[t]
    BY <1>1, <2>1, <2>2, ServerGoes
  <2>4. IosTyped' /\ PostsInv' /\ (PostsInOrder => PostsInOrder')
    BY <1>1, <1>4, <2>1, <2>2
  <2>5. ProfileInv /\ ~iosUp => ProfileInv'
    <3>. SUFFICES ASSUME ProfileInv, ~iosUp PROVE ProfileInv'
      OBVIOUS
    <3>1. ~asked /\ NoneLives
      BY <2>2 DEF ProfileInv
    <3>. QED
      BY <2>2, <2>3, <3>1 DEF ProfileInv, Serving, NoneLives
  <2>. QED
    BY <1>1, <2>2, <2>4, <2>5 DEF IosInv, TurnsInv
<1>8. ASSUME UNCHANGED server, held' \in [Hals -> Seq(Nat)], asked' \in BOOLEAN
      PROVE  IosTyped' /\ PostsInv' /\ (PostsInOrder => PostsInOrder')
  <2>1. \A s \in Servers : Working(s)' => /\ Working(s) /\ server'[s].post = server[s].post
                                          /\ Answering(s)' <=> Answering(s)
    BY <1>8 DEF Working, Fresh, Answering
  <2>. QED
    BY <1>1, <1>2, <1>8, <2>1, NoPostMoves
<1>9. CASE Shutdown
  <2>1. /\ UNCHANGED <<server, held, isShutDown, iosThread>> /\ profile = "idle" /\ profile' = "wait"
        /\ asked' = TRUE /\ iosUp' = FALSE /\ misused' = (misused \/ ~iosUp)
    BY <1>9 DEF Shutdown, OnlyProfile
  <2>2. IosTyped' /\ PostsInv' /\ (PostsInOrder => PostsInOrder')
    BY <1>1, <1>8, <2>1
  <2>3. ProfileInv /\ iosUp => ProfileInv'
    BY <2>1 DEF ProfileInv, Serving, NoneLives
  <2>. QED
    BY <1>1, <2>1, <2>2, <2>3 DEF IosInv, TurnsInv
<1>10. CASE StopWaited
  <2>1. /\ UNCHANGED <<server, held, asked, isShutDown, iosThread, iosUp, misused>>
        /\ profile = "wait" /\ isShutDown /\ profile' = "join"
    BY <1>10 DEF StopWaited, OnlyProfile
  <2>2. IosTyped' /\ PostsInv' /\ (PostsInOrder => PostsInOrder')
    BY <1>1, <1>8, <2>1
  <2>3. ProfileInv => ProfileInv'
    BY <2>1 DEF ProfileInv, Serving, NoneLives
  <2>. QED
    BY <1>1, <2>1, <2>2, <2>3 DEF IosInv, TurnsInv
<1>11. CASE StopJoined
  <2>1. /\ UNCHANGED <<server, held, asked, isShutDown, iosThread, iosUp, misused>>
        /\ profile = "join" /\ profile' = "imu"
        /\ iosThread # NoServer => server[iosThread].pc \in {"ended", "post", "handle", "answer"}
    BY <1>11 DEF StopJoined, OnlyProfile
  <2>2. IosTyped' /\ PostsInv' /\ (PostsInOrder => PostsInOrder')
    BY <1>1, <1>8, <2>1
  <2>3. ProfileInv => ProfileInv'
    BY <2>1, IosAssumption DEF ProfileInv, NoneLives
  <2>. QED
    BY <1>1, <2>1, <2>2, <2>3 DEF IosInv, TurnsInv
<1>12. ASSUME NEW h \in Hals, NEW next, HalsShutdown(h, next), <<h, next>> \in
                {<<"imu", "camera">>, <<"camera", "audio">>, <<"audio", "idle">>}
       PROVE  IosInv'
  <2>1. /\ UNCHANGED <<server, asked, isShutDown, iosThread, iosUp, misused>>
        /\ profile = h /\ profile' = next /\ held' = [held EXCEPT ![h] = << >>]
    BY <1>12 DEF HalsShutdown, OnlyProfile
  <2>2. held' \in [Hals -> Seq(Nat)]
    BY <1>1, <2>1, EmptyRising
  <2>3. \A g \in Hals : held'[g] = IF g = h THEN << >> ELSE held[g]
    BY <1>1, <2>1
  <2>4. IosTyped' /\ PostsInv' /\ (PostsInOrder => PostsInOrder')
    BY <1>1, <1>8, <2>1, <2>2
  <2>5. ProfileInv => ProfileInv'
    <3>. SUFFICES ASSUME ProfileInv PROVE ProfileInv'
      OBVIOUS
    <3>1. ~iosUp /\ ~asked /\ NoneLives
      BY <1>12, <2>1 DEF ProfileInv
    <3>2. /\ profile \in {"camera", "audio"} => held["imu"] = << >>
          /\ profile = "audio" => held["camera"] = << >>
      BY <1>12, <2>1 DEF ProfileInv
    <3>3. /\ profile' \in {"camera", "audio", "idle"} => held'["imu"] = << >>
          /\ profile' \in {"audio", "idle"} => held'["camera"] = << >>
          /\ profile' = "idle" => held'["audio"] = << >>
      BY <1>12, <2>1, <2>3, <3>2 DEF Hals
    <3>. QED
      BY <2>1, <3>1, <3>3 DEF ProfileInv, NoneLives
  <2>. QED
    BY <1>1, <2>1, <2>4, <2>5 DEF IosInv, TurnsInv
<1>13. "imu" \in Hals /\ "camera" \in Hals /\ "audio" \in Hals
  BY DEF Hals
<1>. QED
  BY <1>3, <1>5, <1>6, <1>7, <1>9, <1>10, <1>11, <1>12, <1>13

LEMMA AcceptInv == ASSUME IosInv, NEW s \in Servers, Accept(s) PROVE IosInv'
<1>. DEFINE first == Head(backlog)
            rest == Tail(backlog)
            n == [pc |-> "post", post |-> first]
<1>1. /\ IosTyped /\ PostsInv /\ TurnsInv /\ backlog \in Seq(Nat) /\ Rising(backlog)
      /\ applied \in Seq(Nat)
  BY DEF IosInv, IosTyped, PostsInv
<1>2. /\ UNCHANGED <<post, answer, applied, asked, isShutDown, held, iosThread, profile, iosUp, misused>>
      /\ server[s].pc = "top" /\ ~asked /\ backlog # << >>
      /\ Goes(s, "post", first) /\ backlog' = rest
  BY DEF Accept, ServerAt, OnlyServer
<1>3. /\ first \in Nat /\ rest \in Seq(Nat)
      /\ Range(backlog) = {first} \cup Range(rest)
      /\ Rising(rest) /\ \A x \in Range(rest) : first < x
  BY <1>1, <1>2, RisingTail
<1>. HIDE DEF first, rest
<1>4. n \in ServerRecord /\ n.pc = "post" /\ n.post = first
  BY <1>3 DEF ServerRecord
<1>. HIDE DEF n
<1>5. /\ server' \in [Servers -> ServerRecord]
      /\ server'[s].pc = "post" /\ server'[s].post = first
      /\ \A t \in Servers : t # s => server'[t] = server[t]
  BY <1>1, <1>2, <1>4, ServerGoes
<1>6. /\ ~Working(s) /\ Fresh(s)' /\ ~Answering(s)'
      /\ \A t \in Servers : t # s => /\ server'[t].post = server[t].post
                                     /\ Working(t)' <=> Working(t)
                                     /\ Fresh(t)' <=> Fresh(t)
                                     /\ Answering(t)' <=> Answering(t)
  BY <1>2, <1>5 DEF Working, Fresh, Answering
<1>7. IosTyped'
  BY <1>1, <1>2, <1>3, <1>5 DEF IosTyped
<1>8. /\ first \in 1..Len(post) /\ answer[first] = Unanswered /\ first \notin Range(rest)
      /\ first \notin Range(applied)
  <2>1. first \in 1..Len(post) /\ answer[first] = Unanswered /\ first \notin Range(applied)
    BY <1>1, <1>3 DEF PostsInv
  <2>2. ~(first < first)
    BY <1>3
  <2>. QED
    BY <1>3, <2>1, <2>2
<1>9. PostsInv'
  <2>1. \A x \in Range(rest) : /\ x \in 1..Len(post) /\ answer[x] = Unanswered
                              /\ x \notin Range(applied)
    BY <1>1, <1>3 DEF PostsInv
  <2>2. ASSUME NEW t \in Servers, Working(t)'
        PROVE  /\ server'[t].post \in 1..Len(post) /\ answer[server'[t].post] = Unanswered
               /\ server'[t].post \notin Range(rest)
               /\ Fresh(t)' => server'[t].post \notin Range(applied)
               /\ Answering(t)' => server'[t].post \in Range(applied)
    <3>1. CASE t = s
      BY <1>5, <1>6, <1>8, <3>1
    <3>2. CASE t # s
      <4>1. /\ Working(t) /\ server'[t].post = server[t].post
            /\ Fresh(t)' <=> Fresh(t)
            /\ Answering(t)' <=> Answering(t)
        BY <1>5, <1>6, <2>2, <3>2
      <4>. QED
        BY <1>1, <1>3, <4>1, SMTT(30) DEF PostsInv
    <3>. QED
      BY <3>1, <3>2
  <2>3. ASSUME NEW t \in Servers, NEW u \in Servers, Working(t)', Working(u)', server'[t].post = server'[u].post
        PROVE  t = u
    <3>1. \A v \in Servers : v # s /\ Working(v)' => /\ Working(v) /\ server'[v].post = server[v].post
                                                     /\ server[v].post # first
      BY <1>1, <1>3, <1>5, <1>6 DEF PostsInv
    <3>. QED
      BY <1>1, <1>5, <2>3, <3>1 DEF PostsInv
  <2>4. /\ \A x \in 1..Len(post) : Told(x)'
        /\ Range(applied) \subseteq 1..Len(post) /\ IsInjective(applied)
    BY <1>1, <1>2 DEF PostsInv, Told
  <2>. QED
    BY <1>2, <1>3, <2>1, <2>2, <2>3, <2>4 DEF PostsInv
<1>10. ASSUME ~misused' PROVE PostsInOrder' /\ ProfileInv'
  <2>1. PostsInOrder /\ ProfileInv
    BY <1>1, <1>2, <1>10 DEF TurnsInv
  <2>2. s = iosThread
    BY <1>2, <2>1 DEF ProfileInv
  <2>3. ProfileInv'
    BY <1>2, <1>5, <2>1, <2>2 DEF ProfileInv, Serving, NoneLives
  <2>4. \A t \in Servers : Working(t)' => t = s
    BY <1>2, <1>5, <2>1, <2>2 DEF ProfileInv, Working, Fresh, Answering
  <2>5. Before(applied, rest) /\ \A x \in Range(applied) : x < first
    BY <1>3, <2>1 DEF PostsInOrder, Before
  <2>. QED
    BY <1>2, <1>3, <1>5, <2>1, <2>3, <2>4, <2>5 DEF PostsInOrder
<1>. QED
  BY <1>7, <1>9, <1>10 DEF IosInv, TurnsInv

\* A post is answered, or its connection closed.
LEMMA RespondInv ==
    ASSUME IosInv, NEW s \in Servers, Working(s), NEW code \in Nat \ {Unanswered}, Close(s, code),
           UNCHANGED <<held, applied>>, code # 0 => (code = 200 <=> Answering(s))
    PROVE  IosInv'
<1>. DEFINE n == server[s].post
            idle == [pc |-> "top", post |-> 0]
<1>1. /\ IosTyped /\ PostsInv /\ TurnsInv /\ answer \in Seq(Nat) /\ Len(answer) = Len(post)
      /\ applied \in Seq(Nat) /\ asked \in BOOLEAN /\ Len(post) \in Nat
  BY DEF IosInv, IosTyped
<1>2. /\ UNCHANGED <<post, backlog, asked, isShutDown, iosThread, profile, iosUp, misused>>
      /\ Goes(s, "top", 0) /\ answer' = [answer EXCEPT ![n] = code]
  BY DEF Close, OnlyServer
<1>3. idle \in ServerRecord /\ idle.pc = "top" /\ idle.post = 0
  BY DEF ServerRecord
<1>. HIDE DEF idle
<1>4. /\ server' \in [Servers -> ServerRecord] /\ server'[s].pc = "top"
      /\ \A t \in Servers : t # s => server'[t] = server[t]
  BY <1>1, <1>2, <1>3, ServerGoes
<1>5. /\ n \in 1..Len(post) /\ answer[n] = Unanswered /\ n \notin Range(backlog)
      /\ n \in Range(applied) <=> Answering(s)
  BY <1>1 DEF PostsInv, Working
<1>6. \A t \in Servers : t # s /\ Working(t) => server[t].post # n
  BY <1>1 DEF PostsInv
<1>. HIDE DEF n
<1>7. /\ answer' \in Seq(Nat) /\ Len(answer') = Len(post)
      /\ \A x \in 1..Len(post) : answer'[x] = IF x = n THEN code ELSE answer[x]
  BY <1>1, <1>2, <1>5, ExceptSeq
<1>8. \A t \in Servers : Working(t)' => /\ Working(t) /\ t # s /\ server'[t].post = server[t].post
                                        /\ Fresh(t)' <=> Fresh(t)
                                        /\ Answering(t)' <=> Answering(t)
  BY <1>4 DEF Working, Fresh, Answering
<1>10. IosTyped'
  <2>1. post \in Seq(PostKinds) /\ backlog \in Seq(Nat)
    BY <1>1 DEF IosTyped
  <2>. QED
    BY <1>1, <1>2, <1>4, <1>7, <2>1 DEF IosTyped
<1>11. PostsInv'
  <2>1. \A x \in Range(backlog) : /\ x \in 1..Len(post) /\ answer'[x] = Unanswered
                                 /\ x \notin Range(applied)
    <3>1. \A x \in Range(backlog) : /\ x \in 1..Len(post) /\ answer[x] = Unanswered
                                   /\ x \notin Range(applied)
      BY <1>1 DEF PostsInv
    <3>. QED
      BY <1>5, <1>7, <3>1
  <2>2. ASSUME NEW t \in Servers, Working(t)'
        PROVE  /\ server'[t].post \in 1..Len(post) /\ answer'[server'[t].post] = Unanswered
               /\ server'[t].post \notin Range(backlog)
               /\ Fresh(t)' => server'[t].post \notin Range(applied)
               /\ Answering(t)' => server'[t].post \in Range(applied)
    <3>1. /\ server[t].post \in 1..Len(post) /\ answer[server[t].post] = Unanswered
          /\ server[t].post \notin Range(backlog)
          /\ Fresh(t) => server[t].post \notin Range(applied)
          /\ Answering(t) => server[t].post \in Range(applied)
      BY <1>1, <1>8, <2>2 DEF PostsInv
    <3>2. server[t].post # n /\ server'[t].post = server[t].post
      BY <1>6, <1>8, <2>2
    <3>. QED
      BY <1>7, <1>8, <2>2, <3>1, <3>2
  <2>3. \A t, u \in Servers : Working(t)' /\ Working(u)' /\ server'[t].post = server'[u].post => t = u
    BY <1>1, <1>8 DEF PostsInv
  <2>4. ASSUME NEW x \in 1..Len(post)
        PROVE  Told(x)'
    <3>1. CASE x = n
      BY <1>5, <1>7, <3>1 DEF Told
    <3>2. CASE x # n
      BY <1>1, <1>7, <3>2 DEF PostsInv, Told
    <3>. QED
      BY <3>1, <3>2
  <2>5. Range(applied) \subseteq 1..Len(post) /\ Rising(backlog) /\ IsInjective(applied)
    BY <1>1 DEF PostsInv
  <2>. QED
    BY <1>2, <2>1, <2>2, <2>3, <2>4, <2>5 DEF PostsInv
<1>12. ASSUME ~misused' PROVE PostsInOrder' /\ ProfileInv'
  <2>1. PostsInOrder /\ ProfileInv
    BY <1>1, <1>2, <1>12 DEF TurnsInv
  <2>2. s = iosThread /\ Serving
    BY <2>1 DEF ProfileInv, Working, Fresh, Answering, NoneLives
  <2>3. ProfileInv'
    BY <1>2, <1>4, <2>1, <2>2 DEF ProfileInv, Serving, NoneLives, Working, Fresh, Answering
  <2>4. \A t \in Servers : ~Working(t)'
    BY <1>8, <2>1, <2>2 DEF ProfileInv, Working, Fresh, Answering
  <2>. QED
    BY <1>2, <2>1, <2>3, <2>4 DEF PostsInOrder
<1>. QED
  BY <1>10, <1>11, <1>12 DEF IosInv, TurnsInv

\* A payload goes to its HAL.
LEMMA ApplyInv == ASSUME IosInv, NEW s \in Servers, HandleSensor(s) PROVE IosInv'
<1>. DEFINE n == server[s].post
            r == [pc |-> "answer", post |-> n]
<1>1. /\ IosTyped /\ PostsInv /\ TurnsInv /\ held \in [Hals -> Seq(Nat)] /\ asked \in BOOLEAN
      /\ n \in Nat /\ Working(s) /\ Fresh(s) /\ applied \in Seq(Nat)
  BY DEF IosInv, IosTyped, ServerRecord, HandleSensor, ServerAt, Working, Fresh
<1>2. /\ UNCHANGED <<post, answer, backlog, asked, isShutDown, iosThread, profile, iosUp, misused>>
      /\ Goes(s, "answer", n) /\ applied' = Append(applied, n)
      /\ held' = IF post[n] \in Hals THEN Pushed(post[n], n) ELSE held
  BY DEF HandleSensor, OnlyServer
<1>3. held' \in [Hals -> Seq(Nat)]
  <2>1. <<n>> \in Seq(Nat)
    BY <1>1
  <2>2. \A h \in Hals : Append(held[h], n) \in Seq(Nat)
    BY <1>1
  <2>3. \A h \in Hals : Pushed(h, n) \in [Hals -> Seq(Nat)]
    BY <1>1, <2>1, <2>2 DEF Pushed
  <2>. QED
    BY <1>1, <1>2, <2>3
<1>4. /\ n \in 1..Len(post) /\ answer[n] = Unanswered /\ n \notin Range(backlog)
      /\ n \notin Range(applied)
  BY <1>1 DEF PostsInv
<1>5. \A t \in Servers : t # s /\ Working(t) => server[t].post # n
  BY <1>1 DEF PostsInv
<1>6. r \in ServerRecord /\ r.pc = "answer" /\ r.post = n
  BY <1>1 DEF ServerRecord
<1>. HIDE DEF r
<1>7. /\ server' \in [Servers -> ServerRecord] /\ server'[s].pc = "answer" /\ server'[s].post = n
      /\ \A t \in Servers : t # s => server'[t] = server[t]
  BY <1>1, <1>2, <1>6, ServerGoes
<1>8. /\ Answering(s)' /\ ~Fresh(s)'
      /\ \A t \in Servers : Working(t)' => /\ Working(t) /\ server'[t].post = server[t].post
                                           /\ t # s => (Fresh(t)' <=> Fresh(t))
                                                      /\ (Answering(t)' <=> Answering(t))
  BY <1>1, <1>7 DEF Working, Fresh, Answering
<1>9. /\ applied' \in Seq(Nat) /\ IsInjective(applied') /\ Range(applied') = Range(applied) \cup {n}
  <2>1. IsInjective(applied)
    BY <1>1 DEF PostsInv
  <2>. HIDE DEF n
  <2>. QED
    BY <1>1, <1>2, <1>4, <2>1, InjectiveAppend, RisingAppend
<1>. HIDE DEF n
<1>10. IosTyped'
  BY <1>1, <1>2, <1>3, <1>7, <1>9 DEF IosTyped
<1>11. PostsInv'
  <2>1. \A x \in Range(backlog) : /\ x \in 1..Len(post) /\ answer[x] = Unanswered
                                 /\ x \notin Range(applied')
    BY <1>1, <1>4, <1>9 DEF PostsInv
  <2>2. ASSUME NEW t \in Servers, Working(t)'
        PROVE  /\ server'[t].post \in 1..Len(post) /\ answer[server'[t].post] = Unanswered
               /\ server'[t].post \notin Range(backlog)
               /\ Fresh(t)' => server'[t].post \notin Range(applied')
               /\ Answering(t)' => server'[t].post \in Range(applied')
    <3>1. CASE t = s
      BY <1>4, <1>7, <1>8, <1>9, <3>1
    <3>2. CASE t # s
      <4>1. /\ Working(t) /\ server'[t].post = server[t].post /\ server[t].post # n
            /\ Fresh(t)' <=> Fresh(t)
            /\ Answering(t)' <=> Answering(t)
        BY <1>5, <1>8, <2>2, <3>2
      <4>. QED
        BY <1>1, <1>9, <4>1, SMTT(30) DEF PostsInv
    <3>. QED
      BY <3>1, <3>2
  <2>3. \A t, u \in Servers : Working(t)' /\ Working(u)' /\ server'[t].post = server'[u].post => t = u
    BY <1>1, <1>8 DEF PostsInv
  <2>4. ASSUME NEW x \in 1..Len(post)
        PROVE  Told(x)'
    <3>1. CASE x = n
      BY <1>2, <1>4, <3>1 DEF Told
    <3>2. CASE x # n
      BY <1>1, <1>2, <1>9, <3>2 DEF PostsInv, Told
    <3>. QED
      BY <3>1, <3>2
  <2>5. Range(applied') \subseteq 1..Len(post) /\ Rising(backlog)
    BY <1>1, <1>4, <1>9 DEF PostsInv
  <2>. QED
    BY <1>2, <1>9, <2>1, <2>2, <2>3, <2>4, <2>5 DEF PostsInv
<1>12. ASSUME ~misused' PROVE PostsInOrder' /\ ProfileInv'
  <2>1. PostsInOrder /\ ProfileInv
    BY <1>1, <1>2, <1>12 DEF TurnsInv
  <2>2. s = iosThread /\ Serving
    BY <1>1, <2>1 DEF ProfileInv, Fresh, NoneLives
  <2>3. ProfileInv'
    BY <1>1, <1>2, <1>7, <2>1, <2>2 DEF ProfileInv, Serving, NoneLives, Fresh
  <2>4. \A t \in Servers : Working(t)' => t = s
    BY <1>8, <2>1, <2>2 DEF ProfileInv, Working, Fresh, Answering
  <2>5. /\ \A x \in Range(applied) : x < n
        /\ \A x \in Range(backlog) : n < x
    BY <1>1, <2>1 DEF PostsInOrder, n, Fresh, Answering
  <2>6. Rising(applied')
    <3>1. Rising(applied)
      BY <2>1 DEF PostsInOrder
    <3>. QED
      BY <1>1, <1>2, <2>5, <3>1, RisingAppend
  <2>7. Before(applied', backlog')
    BY <1>2, <1>9, <2>1, <2>5 DEF PostsInOrder, Before
  <2>8. /\ \A x \in Range(applied') : x < server'[s].post \/ (Answering(s)' /\ x = server'[s].post)
        /\ \A x \in Range(backlog') : server'[s].post < x
    BY <1>2, <1>7, <1>8, <1>9, <2>5
  <2>. QED
    BY <2>3, <2>4, <2>6, <2>7, <2>8 DEF PostsInOrder
<1>. QED
  BY <1>10, <1>11, <1>12 DEF IosInv, TurnsInv

LEMMA PostStepInv ==
    ASSUME IosInv, NEW s \in Servers,
           DoPost(s) \/ HandleSensor(s) \/ AnswerSensor(s) \/ HandleRaises(s)
    PROVE  IosInv'
<1>. DEFINE n == server[s].post
<1>1. /\ IosTyped /\ PostsInv /\ TurnsInv /\ held \in [Hals -> Seq(Nat)] /\ asked \in BOOLEAN
      /\ n \in Nat /\ Working(s)
  BY DEF IosInv, IosTyped, ServerRecord, DoPost, HandleSensor, AnswerSensor, HandleRaises, ServerAt,
         Working, Fresh, Answering
<1>2. CASE HandleSensor(s)
  BY <1>2, ApplyInv
<1>3. ASSUME NEW code \in {404, 401, 400, 0, 500}, Respond(s, code), ~Answering(s),
             UNCHANGED <<held, applied>>
      PROVE  IosInv'
  <2>1. PICK c \in {code, 0} : Close(s, c)
    BY <1>3 DEF Respond
  <2>2. c \in Nat \ {Unanswered} /\ c # 200
    BY <2>1 DEF Unanswered
  <2>. QED
    BY <1>1, <1>3, <2>1, <2>2, RespondInv
<1>4. CASE HandleRaises(s)
  BY <1>3, <1>4 DEF HandleRaises, ServerAt, Answering
<1>7. CASE AnswerSensor(s)
  <2>1. PICK c \in {200, 0} : Close(s, c)
    BY <1>7 DEF AnswerSensor, Respond
  <2>2. c \in Nat \ {Unanswered} /\ Answering(s) /\ UNCHANGED <<held, applied>>
    BY <1>7, <2>1 DEF Unanswered, AnswerSensor, Answering, ServerAt
  <2>. QED
    BY <1>1, <2>1, <2>2, RespondInv
<1>5. CASE DoPost(s) /\ ~Goes(s, "handle", n)
  <2>1. UNCHANGED <<held, applied>> /\ ~Answering(s)
    BY <1>5 DEF DoPost, ServerAt, Answering
  <2>2. \E code \in {404, 401, 400, 0} : Respond(s, code)
    BY <1>5 DEF DoPost, Respond
  <2>. QED
    BY <1>3, <2>1, <2>2
<1>6. CASE DoPost(s) /\ Goes(s, "handle", n)
  <2>. DEFINE r == [pc |-> "handle", post |-> n]
  <2>1. r \in ServerRecord /\ r.pc = "handle" /\ r.post = n
    BY <1>1 DEF ServerRecord
  <2>. HIDE DEF r
  <2>2. /\ server' \in [Servers -> ServerRecord] /\ server'[s].pc = "handle" /\ server'[s].post = n
        /\ \A t \in Servers : t # s => server'[t] = server[t]
    BY <1>1, <1>6, <2>1, ServerGoes
  <2>3. UNCHANGED <<post, iosThread, profile, iosUp, misused, backlog, asked, isShutDown, held,
                    applied, answer>>
        /\ server[s].pc = "post"
    <3>1. ASSUME NEW code, Close(s, code)
          PROVE  FALSE
      <4>1. Goes(s, "top", 0)
        BY <3>1 DEF Close
      <4>2. server'[s].pc = "top"
        BY <1>1, <4>1 DEF Goes, IosTyped
      <4>. QED
        BY <2>2, <4>2
    <3>. QED
      BY <1>6, <3>1 DEF DoPost, Respond, OnlyServer, ServerAt
  <2>4. \A t \in Servers : Working(t)' => /\ Working(t) /\ server'[t].post = server[t].post
                                          /\ Answering(t)' <=> Answering(t)
    BY <1>1, <2>2, <2>3 DEF Working, Fresh, Answering
  <2>5. IosTyped' /\ PostsInv' /\ (PostsInOrder => PostsInOrder')
    BY <1>1, <2>2, <2>3, <2>4, NoPostMoves
  <2>6. ProfileInv => ProfileInv'
    <3>. SUFFICES ASSUME ProfileInv PROVE ProfileInv'
      OBVIOUS
    <3>1. s = iosThread /\ Serving
      BY <2>3 DEF ProfileInv, NoneLives
    <3>. QED
      BY <2>2, <2>3, <3>1 DEF ProfileInv, Serving, NoneLives
  <2>. QED
    BY <1>1, <2>3, <2>5, <2>6 DEF IosInv, TurnsInv
<1>. QED
  BY <1>2, <1>4, <1>5, <1>6, <1>7

\* What the receiver answers and does holds for any number of threads, posts and
\* calls: 200 means applied, once, and an error not applied, though an answer may
\* fail after the payload was applied; and when initialize() and shutdown() take
\* turns, payloads keep their order, a running receiver has a thread, and a
\* stopped one has none and holds nothing.
THEOREM ReceiverKeepsItsWord == IosSpec => []ReceiverSound
<1>1. IosInv /\ [IosNext]_iosVars => IosInv'
  <2>. SUFFICES ASSUME IosInv, [IosNext]_iosVars PROVE IosInv'
    OBVIOUS
  <2>1. ASSUME NEW kind \in PostKinds, SendPost(kind)
        PROVE  IosInv'
    BY <2>1, SendPostInv
  <2>2. ASSUME NEW s \in Servers, Accept(s)
        PROVE  IosInv'
    BY <2>2, AcceptInv
  <2>3. ASSUME NEW s \in Servers,
               DoPost(s) \/ HandleSensor(s) \/ AnswerSensor(s) \/ HandleRaises(s)
        PROVE  IosInv'
    BY <2>3, PostStepInv
  <2>4. CASE UNCHANGED iosVars
    BY <2>4 DEF iosVars, IosInv, IosTyped, PostsInv, TurnsInv, PostsInOrder, ProfileInv, Serving, NoneLives,
                Working, Fresh, Answering, Told, Rising, Before
  <2>. QED
    BY <2>1, <2>2, <2>3, <2>4, QuietStepInv DEF IosNext
<1>2. IosInv => ReceiverSound
  <2>. SUFFICES ASSUME IosInv PROVE AnswersTrue /\ StopsWhatStarted
    BY DEF ReceiverSound
  <2>1. /\ IosTyped /\ PostsInv /\ TurnsInv /\ DOMAIN post = 1..Len(post) /\ applied \in Seq(Nat)
        /\ held \in [Hals -> Seq(Nat)]
    BY DEF IosInv, IosTyped
  <2>2. ASSUME ~misused
        PROVE  \A i \in 1..(Len(applied) - 1) : applied[i] < applied[i + 1]
    <3>. SUFFICES ASSUME NEW i \in 1..(Len(applied) - 1) PROVE applied[i] < applied[i + 1]
      OBVIOUS
    <3>1. Len(applied) \in Nat /\ Rising(applied)
      BY <2>1, <2>2, RangeIs DEF TurnsInv, PostsInOrder
    <3>2. i \in 1..Len(applied) /\ i + 1 \in 1..Len(applied) /\ i < i + 1
      BY <3>1
    <3>. QED
      BY <3>1, <3>2 DEF Rising
  <2>3. AnswersTrue
    <3>1. \A n \in DOMAIN post : Told(n)
      BY <2>1 DEF PostsInv
    <3>2. IsInjective(applied)
      BY <2>1 DEF PostsInv
    <3>. QED
      BY <2>2, <3>1, <3>2 DEF AnswersTrue, Told
  <2>4. ASSUME ~misused, profile = "idle"
        PROVE  IF iosUp THEN \E s \in Servers : server[s].pc \notin {"unborn", "ended"}
               ELSE /\ \A s \in Servers : server[s].pc \in {"unborn", "ended"}
                    /\ held = [h \in Hals |-> << >>]
    <3>1. ProfileInv
      BY <2>1, <2>4 DEF TurnsInv
    <3>2. CASE iosUp
      BY <2>4, <3>1, <3>2 DEF ProfileInv, Serving
    <3>3. CASE ~iosUp
      <4>1. NoneLives /\ held["imu"] = << >> /\ held["camera"] = << >> /\ held["audio"] = << >>
        BY <2>4, <3>1, <3>3 DEF ProfileInv
      <4>2. held = [h \in Hals |-> << >>]
        BY <2>1, <4>1 DEF Hals
      <4>. QED
        BY <3>3, <4>1, <4>2 DEF NoneLives
    <3>. QED
      BY <3>2, <3>3
  <2>. QED
    BY <2>3, <2>4 DEF StopsWhatStarted
<1>. QED
  BY <1>1, <1>2, IosInvInit, PTL DEF IosSpec

-----------------------------------------------------------------------------
(* PiBleLink: a send that says success was written whole.                  *)

Ops == {"send", "connect", "reconnect", "disconnect"}
KindOf(op) == IF op = "reconnect" THEN "connect" ELSE op
Chunk == [job : Jobs, chunk : 1..Chunks, link : Radio]
Coroutine == [kind : {"none", "send", "connect", "disconnect"},
              pc : {"unborn", "run", "connecting", "notify", "done", "failed"},
              sent : 0..Chunks, link : Radio \cup {NoLink}]

BleTyped ==
    /\ air \in Seq(Chunk) /\ job \in [Jobs -> Coroutine]
    /\ up \subseteq Radio /\ sentOk \subseteq Jobs /\ bleCrossed \subseteq Jobs
    /\ DOMAIN call = Users

\* What a thread waits for is one coroutine, of the kind it asked for.
CallsKnown ==
    /\ \A u \in Users : \A x, y \in call[u] : x = y
    /\ \A u \in Users, op \in Ops, j \in Jobs :
         <<op, j>> \in call[u] => job[j].kind = KindOf(op) /\ job[j].pc # "unborn"

\* A coroutine has written so many chunks as it says, and a send that is done all.
ChunksKnown ==
    \A j \in Jobs :
      /\ {air[i].chunk : i \in Writes(j)} = 1..job[j].sent /\ InOrder(j)
      /\ job[j].pc = "unborn" => job[j] = Unborn
      /\ job[j].sent > 0 => job[j].kind = "send"
      /\ job[j].kind = "send" => /\ job[j].pc \in {"run", "done", "failed"}
                                 /\ job[j].pc = "run" => job[j].sent < Chunks
                                 /\ job[j].pc = "done" => job[j].sent = Chunks
      /\ job[j].pc \in {"connecting", "notify"} => job[j].kind = "connect"
      /\ j \in sentOk => job[j].kind = "send" /\ job[j].pc = "done"

\* A send that had the loop to itself wrote the last chunk there is, to the
\* client there is, unless a caller of disconnect() has put that away.
AloneOnAir ==
    \A j \in Jobs \ bleCrossed :
      /\ Together(j)
      /\ j \in OnLoop => OnLoop = {j}
      /\ (j \in OnLoop /\ job[j].sent > 0) =>
           LET newest == air[Len(air)]
           IN  /\ Len(air) > 0 /\ newest.job = j /\ newest.chunk = job[j].sent
               /\ client \in {newest.link, NoLink}

\* As long as nobody gave up, a coroutine that disconnects has its caller; and
\* a state that is CONNECTED with a client that is not is about to change.
StateHonest ==
    ~bleGaveUp =>
      /\ \A j \in Jobs : job[j].kind = "disconnect" /\ job[j].pc = "run" =>
           \E u \in Users : <<"disconnect", j>> \in call[u]
      /\ (~dropped /\ bleCrossed = {} /\ bleState = "CONNECTED") =>
           \/ client \in up
           \/ \E u \in Users, j \in Jobs : <<"disconnect", j>> \in call[u] /\ job[j].pc = "done"

BleInv == BleTyped /\ CallsKnown /\ ChunksKnown /\ AloneOnAir /\ StateHonest

LEMMA BleInvInit == BleInit => BleInv
<1>. SUFFICES ASSUME BleInit
              PROVE  BleInv
  OBVIOUS
<1>1. Chunks \in Nat /\ Chunks > 0 /\ 0 \in 0..Chunks /\ 1..0 = {}
  BY BleAssumption
<1>2. Unborn \in Coroutine
  BY <1>1 DEF Unborn, Coroutine
<1>3. /\ \A j \in Jobs : job[j] = Unborn /\ Writes(j) = {}
      /\ OnLoop = {} /\ \A u \in Users : call[u] = {}
  BY DEF BleInit, Writes, OnLoop, Unborn
<1>4. BleTyped
  BY <1>2 DEF BleInit, BleTyped
<1>5. ChunksKnown
  BY <1>1, <1>3 DEF BleInit, ChunksKnown, InOrder, Unborn
<1>6. CallsKnown /\ AloneOnAir /\ StateHonest
  BY <1>3 DEF BleInit, CallsKnown, AloneOnAir, StateHonest, Together, Unborn
<1>. QED
  BY <1>4, <1>5, <1>6 DEF BleInv

\* Where nothing is written, what has been written stays as it is.
LEMMA AirStays ==
    ASSUME UNCHANGED air
    PROVE  \A j \in Jobs : /\ Writes(j)' = Writes(j) /\ InOrder(j)' = InOrder(j)
                           /\ Together(j)' = Together(j)
                           /\ {air'[i].chunk : i \in Writes(j)'} = {air[i].chunk : i \in Writes(j)}
BY DEF Writes, InOrder, Together

\* A call starts a coroutine that nobody has started.
LEMMA BleCallInv ==
    ASSUME BleInv, NEW u \in Users, NEW j \in Jobs, NEW op \in Ops, RunCoro(u, j, op, KindOf(op)),
           \/ call[u] = {} \/ <<"reconnect", NoLink>> \in call[u],
           bleState' \in {bleState, "RECONNECTING"}
    PROVE  BleInv'
<1>. USE DEF BleInv
<1>1. /\ job[j] = Unborn /\ OnLoop \subseteq Jobs
      /\ job' = [job EXCEPT ![j] = [Unborn EXCEPT !.kind = KindOf(op), !.pc = "run"]]
      /\ call' = [call EXCEPT ![u] = {<<op, j>>}]
      /\ UNCHANGED <<client, up, dropped, air, sentOk, bleGaveUp>>
      /\ bleCrossed' = IF OnLoop = {} THEN bleCrossed ELSE bleCrossed \cup OnLoop \cup {j}
  BY DEF RunCoro, OnLoop
<1>2. /\ job'[j].kind = KindOf(op) /\ job'[j].pc = "run" /\ job'[j].sent = 0 /\ job'[j].link = NoLink
      /\ job[j].pc = "unborn" /\ job[j].sent = 0 /\ job[j].kind = "none"
      /\ \A k \in Jobs : k # j => job'[k] = job[k]
      /\ call'[u] = {<<op, j>>} /\ \A v \in Users : v # u => call'[v] = call[v]
  BY <1>1 DEF BleTyped, Unborn
<1>3. NoLink \notin Jobs /\ Chunks \in Nat /\ Chunks > 0
  BY BleAssumption
<1>4. job'[j] \in Coroutine
  <2>1. Unborn \in Coroutine
    BY <1>1 DEF BleTyped
  <2>2. KindOf(op) \in {"send", "connect", "disconnect"}
    BY DEF Ops, KindOf
  <2>3. job'[j] = [Unborn EXCEPT !.kind = KindOf(op), !.pc = "run"]
    BY <1>1 DEF BleTyped
  <2>. QED
    BY <2>1, <2>2, <2>3 DEF Coroutine
<1>5. BleTyped'
  <2>1. job' \in [Jobs -> Coroutine]
    BY <1>1, <1>4 DEF BleTyped
  <2>2. DOMAIN call' = Users
    BY <1>1 DEF BleTyped
  <2>3. bleCrossed' \subseteq Jobs
    BY <1>1 DEF BleTyped
  <2>. QED
    BY <1>1, <2>1, <2>2, <2>3 DEF BleTyped
<1>6. CallsKnown'
  <2>1. \A v \in Users : \A x, y \in call'[v] : x = y
    BY <1>2 DEF CallsKnown
  <2>2. ASSUME NEW v \in Users, NEW p \in Ops, NEW k \in Jobs, <<p, k>> \in call'[v]
        PROVE  job'[k].kind = KindOf(p) /\ job'[k].pc # "unborn"
    <3>1. CASE v = u
      BY <1>2, <2>2, <3>1
    <3>2. CASE v # u
      BY <1>2, <2>2, <3>2 DEF CallsKnown
    <3>. QED
      BY <3>1, <3>2
  <2>. QED
    BY <2>1, <2>2 DEF CallsKnown
<1>7. ChunksKnown'
  <2>1. ASSUME NEW k \in Jobs
        PROVE  /\ {air'[i].chunk : i \in Writes(k)'} = 1..job'[k].sent /\ InOrder(k)'
               /\ job'[k].pc = "unborn" => job'[k] = Unborn
               /\ job'[k].sent > 0 => job'[k].kind = "send"
               /\ job'[k].kind = "send" => /\ job'[k].pc \in {"run", "done", "failed"}
                                           /\ job'[k].pc = "run" => job'[k].sent < Chunks
                                           /\ job'[k].pc = "done" => job'[k].sent = Chunks
               /\ job'[k].pc \in {"connecting", "notify"} => job'[k].kind = "connect"
               /\ k \in sentOk' => job'[k].kind = "send" /\ job'[k].pc = "done"
    <3>1. {air'[i].chunk : i \in Writes(k)'} = 1..job'[k].sent /\ InOrder(k)'
      BY <1>1, <1>2, AirStays DEF ChunksKnown
    <3>2. CASE k = j
      BY <1>1, <1>2, <1>3, <3>1, <3>2 DEF ChunksKnown
    <3>3. CASE k # j
      BY <1>1, <1>2, <3>1, <3>3 DEF ChunksKnown
    <3>. QED
      BY <3>2, <3>3
  <2>. QED
    BY <2>1 DEF ChunksKnown
<1>8. OnLoop' = OnLoop \cup {j} /\ j \notin OnLoop
  <2>1. \A k \in Jobs : k \in OnLoop' <=> k \in OnLoop \/ k = j
    BY <1>2 DEF OnLoop
  <2>. QED
    BY <1>2, <2>1 DEF OnLoop
<1>9. AloneOnAir'
  <2>1. ASSUME NEW k \in Jobs, k \notin bleCrossed'
        PROVE  Together(k)' /\ (k \in OnLoop' => OnLoop' = {k} /\ job'[k].sent = 0)
    <3>1. k \notin bleCrossed
      BY <1>1, <2>1
    <3>2. Together(k)'
      BY <1>1, <3>1, AirStays DEF AloneOnAir
    <3>3. ASSUME k \in OnLoop'
          PROVE  OnLoop' = {k} /\ job'[k].sent = 0
      BY <1>1, <1>2, <1>8, <2>1, <3>3
    <3>. QED
      BY <3>2, <3>3
  <2>2. ~(0 > 0)
    OBVIOUS
  <2>. QED
    BY <2>1, <2>2 DEF AloneOnAir
<1>10. StateHonest'
  <2>1. \A k \in Jobs : <<"disconnect", k>> \notin call[u]
    <3>1. <<"reconnect", NoLink>> \in call[u] => call[u] = {<<"reconnect", NoLink>>}
      BY DEF CallsKnown
    <3>. QED
      BY <3>1
  <2>2. \A v \in Users, k \in Jobs : <<"disconnect", k>> \in call[v] => <<"disconnect", k>> \in call'[v]
    BY <1>2, <2>1
  <2>. SUFFICES ASSUME ~bleGaveUp'
                PROVE  /\ \A k \in Jobs : job'[k].kind = "disconnect" /\ job'[k].pc = "run" =>
                             \E v \in Users : <<"disconnect", k>> \in call'[v]
                       /\ (~dropped' /\ bleCrossed' = {} /\ bleState' = "CONNECTED") =>
                             \/ client' \in up'
                             \/ \E v \in Users, k \in Jobs : <<"disconnect", k>> \in call'[v] /\ job'[k].pc = "done"
    BY DEF StateHonest
  <2>3. ASSUME NEW k \in Jobs, job'[k].kind = "disconnect", job'[k].pc = "run"
        PROVE  \E v \in Users : <<"disconnect", k>> \in call'[v]
    <3>1. CASE k = j
      <4>1. op = "disconnect"
        BY <1>2, <2>3, <3>1 DEF Ops, KindOf
      <4>. QED
        BY <1>2, <3>1, <4>1
    <3>2. CASE k # j
      BY <1>1, <1>2, <2>2, <2>3, <3>2 DEF StateHonest
    <3>. QED
      BY <3>1, <3>2
  <2>4. ASSUME ~dropped', bleCrossed' = {}, bleState' = "CONNECTED"
        PROVE  \/ client' \in up'
               \/ \E v \in Users, k \in Jobs : <<"disconnect", k>> \in call'[v] /\ job'[k].pc = "done"
    <3>1. ~dropped /\ bleCrossed = {} /\ bleState = "CONNECTED"
      BY <1>1, <2>4
    <3>2. CASE client \in up
      BY <1>1, <3>2
    <3>3. CASE client \notin up
      <4>1. PICK v \in Users, k \in Jobs : <<"disconnect", k>> \in call[v] /\ job[k].pc = "done"
        BY <1>1, <3>1, <3>3 DEF StateHonest
      <4>2. <<"disconnect", k>> \in call'[v] /\ job'[k].pc = "done"
        BY <1>2, <2>2, <4>1
      <4>. QED
        BY <4>2
    <3>. QED
      BY <3>2, <3>3
  <2>. QED
    BY <2>3, <2>4
<1>. QED
  BY <1>5, <1>6, <1>7, <1>9, <1>10

\* A caller goes its way, with the result or without it.
LEMMA BleAnswerInv ==
    ASSUME BleInv, NEW u \in Users, NEW j \in Jobs, NEW op \in Ops,
           Returns(u, op, j) \/ Raises(u, op, j)
    PROVE  BleInv'
<1>. USE DEF BleInv
<1>1. /\ <<op, j>> \in call[u] /\ UNCHANGED <<up, dropped, job, air, bleCrossed>>
      /\ sentOk' \in {sentOk, sentOk \cup {j}}
      /\ sentOk' # sentOk => op = "send" /\ job[j].pc = "done"
      /\ client' \in {client, NoLink} /\ bleState' \in {bleState, "DISCONNECTED"}
      /\ client' # client => bleState' = "DISCONNECTED"
      /\ bleGaveUp => bleGaveUp'
  <2>1. CASE Returns(u, op, j)
    <3>1. sentOk' \in {sentOk, sentOk \cup {j}} /\ (op = "send" \/ sentOk' = sentOk)
      BY <2>1 DEF Returns
    <3>. QED
      BY <2>1, <3>1 DEF Returns
  <2>2. CASE Raises(u, op, j)
    BY <2>2 DEF Raises
  <2>. QED
    BY <2>1, <2>2
<1>2. /\ \A v \in Users : v # u => call'[v] = call[v]
      /\ call'[u] \subseteq {<<"reconnect", NoLink>>} /\ DOMAIN call' = Users
  BY DEF Returns, Raises, BleTyped
<1>3. NoLink \notin Jobs
  BY BleAssumption
<1>4. call[u] = {<<op, j>>} /\ job[j].kind = KindOf(op)
  BY <1>1 DEF CallsKnown
<1>5. OnLoop' = OnLoop
  BY <1>1 DEF OnLoop
<1>6. BleTyped'
  BY <1>1, <1>2 DEF BleTyped
<1>7. CallsKnown'
  <2>1. \A v \in Users : \A x, y \in call'[v] : x = y
    BY <1>2 DEF CallsKnown
  <2>2. ASSUME NEW v \in Users, NEW p \in Ops, NEW k \in Jobs, <<p, k>> \in call'[v]
        PROVE  job'[k].kind = KindOf(p) /\ job'[k].pc # "unborn"
    <3>1. v # u
      BY <1>2, <1>3, <2>2
    <3>. QED
      BY <1>1, <1>2, <2>2, <3>1 DEF CallsKnown
  <2>. QED
    BY <2>1, <2>2 DEF CallsKnown
<1>8. ChunksKnown'
  <2>1. \A k \in Jobs : k \in sentOk' => job[k].kind = "send" /\ job[k].pc = "done"
    BY <1>1, <1>4 DEF ChunksKnown, KindOf
  <2>2. \A k \in Jobs : {air'[i].chunk : i \in Writes(k)'} = 1..job'[k].sent /\ InOrder(k)'
    BY <1>1, AirStays DEF ChunksKnown
  <2>. QED
    BY <1>1, <2>1, <2>2 DEF ChunksKnown
<1>9. AloneOnAir'
  <2>1. \A k \in Jobs \ bleCrossed' : Together(k)'
    BY <1>1, AirStays DEF AloneOnAir
  <2>. QED
    BY <1>1, <1>5, <2>1 DEF AloneOnAir
<1>10. StateHonest'
  <2>. SUFFICES ASSUME ~bleGaveUp'
                PROVE  /\ \A k \in Jobs : job'[k].kind = "disconnect" /\ job'[k].pc = "run" =>
                             \E v \in Users : <<"disconnect", k>> \in call'[v]
                       /\ (~dropped' /\ bleCrossed' = {} /\ bleState' = "CONNECTED") =>
                             \/ client' \in up'
                             \/ \E v \in Users, k \in Jobs : <<"disconnect", k>> \in call'[v] /\ job'[k].pc = "done"
    BY DEF StateHonest
  <2>1. job[j].pc \in {"done", "failed"}
    BY DEF Returns, Raises
  <2>2. ASSUME NEW k \in Jobs, job'[k].kind = "disconnect", job'[k].pc = "run"
        PROVE  \E v \in Users : <<"disconnect", k>> \in call'[v]
    <3>1. PICK v \in Users : <<"disconnect", k>> \in call[v]
      BY <1>1, <2>2 DEF StateHonest
    <3>2. v # u
      BY <1>1, <1>4, <2>1, <2>2, <3>1
    <3>. QED
      BY <1>2, <3>1, <3>2
  <2>3. ASSUME ~dropped', bleCrossed' = {}, bleState' = "CONNECTED"
        PROVE  \/ client' \in up'
               \/ \E v \in Users, k \in Jobs : <<"disconnect", k>> \in call'[v] /\ job'[k].pc = "done"
    <3>1. ~dropped /\ bleCrossed = {} /\ bleState = "CONNECTED" /\ client' = client
      BY <1>1, <2>3
    <3>2. CASE client \in up
      BY <1>1, <3>1, <3>2
    <3>3. CASE client \notin up
      <4>1. PICK v \in Users, k \in Jobs : <<"disconnect", k>> \in call[v] /\ job[k].pc = "done"
        BY <1>1, <3>1, <3>3 DEF StateHonest
      <4>2. v # u
        <5>. SUFFICES ASSUME v = u
                      PROVE  FALSE
          OBVIOUS
        <5>1. op = "disconnect" /\ job[j].pc = "done"
          BY <1>4, <4>1
        <5>. QED
          BY <2>3, <5>1 DEF Returns, Raises
      <4>. QED
        BY <1>1, <1>2, <4>1, <4>2
    <3>. QED
      BY <3>2, <3>3
  <2>. QED
    BY <2>2, <2>3
<1>. QED
  BY <1>6, <1>7, <1>8, <1>9, <1>10

\* A coroutine takes a step without writing.
LEMMA BleStepInv ==
    ASSUME BleInv, NEW j \in Jobs,
           \/ ConnectBegins(j) \/ Subscribed(j) \/ ConnectFails(j) \/ WriteFails(j) \/ Closed(j)
           \/ \E l \in Radio : BleConnected(j, l)
    PROVE  BleInv'
<1>. USE DEF BleInv
<1>1. /\ UNCHANGED <<call, sentOk, bleCrossed, bleGaveUp, dropped, air>>
      /\ job[j].pc \in {"run", "connecting", "notify"}
      /\ \A k \in Jobs : k # j => job'[k] = job[k]
      /\ job'[j].kind = job[j].kind /\ job'[j].sent = job[j].sent
      /\ job'[j].pc \in {"connecting", "notify", "done", "failed"}
      /\ job'[j].pc \in {"connecting", "notify"} => job[j].kind = "connect"
      /\ job[j].kind = "send" => job'[j].pc = "failed"
      /\ job[j].kind = "connect" \/ job'[j].pc \in {"done", "failed"}
      /\ job' \in [Jobs -> Coroutine] /\ up' \subseteq Radio
  <2>1. /\ job[j] \in Coroutine
        /\ job[j].pc \in {"connecting", "notify"} => job[j].kind = "connect"
    BY DEF BleTyped, ChunksKnown
  <2>2. job \in [Jobs -> Coroutine] /\ up \subseteq Radio
    BY DEF BleTyped
  <2>3. CASE ConnectBegins(j)
    BY <2>1, <2>2, <2>3 DEF ConnectBegins, JobGoes, Calling, Coroutine
  <2>4. CASE Subscribed(j)
    BY <2>1, <2>2, <2>4 DEF Subscribed, JobGoes, Calling, Coroutine, ChunksKnown
  <2>5. CASE ConnectFails(j)
    BY <2>1, <2>2, <2>5 DEF ConnectFails, JobGoes, Calling, Coroutine, ChunksKnown
  <2>6. CASE WriteFails(j)
    BY <2>1, <2>2, <2>6 DEF WriteFails, JobGoes, Calling, Coroutine
  <2>7. CASE Closed(j)
    BY <2>1, <2>2, <2>7 DEF Closed, JobGoes, Calling, Coroutine
  <2>8. CASE \E l \in Radio : BleConnected(j, l)
    <3>1. PICK l \in Radio : BleConnected(j, l)
      BY <2>8
    <3>2. /\ job[j].pc = "connecting" /\ job[j].kind = "connect"
          /\ job' = [job EXCEPT ![j] = [job[j] EXCEPT !.pc = "notify", !.link = l]]
          /\ up' = up \cup {l}
          /\ UNCHANGED <<call, sentOk, bleCrossed, bleGaveUp, dropped, air>>
      BY <2>1, <2>2, <3>1 DEF BleConnected, Calling
    <3>3. /\ job'[j] = [job[j] EXCEPT !.pc = "notify", !.link = l]
          /\ \A k \in Jobs : k # j => job'[k] = job[k]
      BY <2>2, <3>2
    <3>4. job'[j].kind = "connect" /\ job'[j].sent = job[j].sent /\ job'[j].pc = "notify"
      <4>1. job[j] = [kind |-> job[j].kind, pc |-> job[j].pc, sent |-> job[j].sent, link |-> job[j].link]
        BY <2>1 DEF Coroutine
      <4>2. job'[j] = [kind |-> job[j].kind, pc |-> "notify", sent |-> job[j].sent, link |-> l]
        BY <3>3, <4>1
      <4>. QED
        BY <3>2, <4>2
    <3>5. job'[j] \in Coroutine
      BY <2>1, <3>3 DEF Coroutine
    <3>6. job' \in [Jobs -> Coroutine]
      BY <2>2, <3>2, <3>5
    <3>. QED
      BY <2>2, <3>2, <3>3, <3>4, <3>6
  <2>. QED
    BY <2>3, <2>4, <2>5, <2>6, <2>7, <2>8
<1>2. OnLoop' \subseteq OnLoop /\ j \in OnLoop /\ \A k \in OnLoop : k # j => k \in OnLoop'
  BY <1>1 DEF OnLoop
<1>3. BleTyped'
  BY <1>1 DEF BleTyped
<1>4. CallsKnown'
  <2>1. \A k \in Jobs : /\ job'[k].kind = job[k].kind
                        /\ job[k].pc # "unborn" => job'[k].pc # "unborn"
    BY <1>1
  <2>. QED
    BY <1>1, <2>1 DEF CallsKnown
<1>5. ChunksKnown'
  <2>1. \A k \in Jobs : {air'[i].chunk : i \in Writes(k)'} = 1..job'[k].sent /\ InOrder(k)'
    <3>1. \A k \in Jobs : job'[k].sent = job[k].sent
      BY <1>1
    <3>. QED
      BY <1>1, <3>1, AirStays DEF ChunksKnown
  <2>2. ASSUME NEW k \in Jobs
        PROVE  /\ job'[k].pc = "unborn" => job'[k] = Unborn
               /\ job'[k].sent > 0 => job'[k].kind = "send"
               /\ job'[k].kind = "send" => /\ job'[k].pc \in {"run", "done", "failed"}
                                           /\ job'[k].pc = "run" => job'[k].sent < Chunks
                                           /\ job'[k].pc = "done" => job'[k].sent = Chunks
               /\ job'[k].pc \in {"connecting", "notify"} => job'[k].kind = "connect"
               /\ k \in sentOk' => job'[k].kind = "send" /\ job'[k].pc = "done"
    <3>1. CASE k = j
      BY <1>1, <3>1 DEF ChunksKnown
    <3>2. CASE k # j
      BY <1>1, <3>2 DEF ChunksKnown
    <3>. QED
      BY <3>1, <3>2
  <2>. QED
    BY <2>1, <2>2 DEF ChunksKnown
<1>6. AloneOnAir'
  <2>1. ASSUME NEW k \in Jobs, k \notin bleCrossed'
        PROVE  Together(k)' /\ (k \in OnLoop' => OnLoop' = {k} /\ job'[k].sent = job[k].sent /\ k = j)
    <3>1. k \notin bleCrossed /\ Together(k)'
      BY <1>1, <2>1, AirStays DEF AloneOnAir
    <3>2. ASSUME k \in OnLoop'
          PROVE  OnLoop' = {k} /\ job'[k].sent = job[k].sent /\ k = j
      BY <1>1, <1>2, <3>1, <3>2 DEF AloneOnAir
    <3>. QED
      BY <3>1, <3>2
  <2>2. j \in OnLoop' => ~(job'[j].sent > 0)
    <3>. SUFFICES ASSUME j \in OnLoop'
                  PROVE  ~(job'[j].sent > 0)
      OBVIOUS
    <3>1. job'[j].pc \notin {"done", "failed"}
      BY DEF OnLoop
    <3>2. job[j].kind # "send"
      BY <1>1, <3>1
    <3>. QED
      BY <1>1, <3>2 DEF ChunksKnown
  <2>. QED
    BY <2>1, <2>2 DEF AloneOnAir
<1>7. StateHonest'
  <2>. SUFFICES ASSUME ~bleGaveUp'
                PROVE  /\ \A k \in Jobs : job'[k].kind = "disconnect" /\ job'[k].pc = "run" =>
                             \E v \in Users : <<"disconnect", k>> \in call'[v]
                       /\ (~dropped' /\ bleCrossed' = {} /\ bleState' = "CONNECTED") =>
                             \/ client' \in up'
                             \/ \E v \in Users, k \in Jobs : <<"disconnect", k>> \in call'[v] /\ job'[k].pc = "done"
    BY DEF StateHonest
  <2>1. \A k \in Jobs : job'[k].kind = "disconnect" /\ job'[k].pc = "run" =>
          \E v \in Users : <<"disconnect", k>> \in call'[v]
    <3>. SUFFICES ASSUME NEW k \in Jobs, job'[k].kind = "disconnect", job'[k].pc = "run"
                  PROVE  \E v \in Users : <<"disconnect", k>> \in call'[v]
      OBVIOUS
    <3>1. k # j
      BY <1>1
    <3>. QED
      BY <1>1, <3>1 DEF StateHonest
  <2>2. ASSUME ~dropped', bleCrossed' = {}, bleState' = "CONNECTED"
        PROVE  \/ client' \in up'
               \/ \E v \in Users, k \in Jobs : <<"disconnect", k>> \in call'[v] /\ job'[k].pc = "done"
    <3>1. ASSUME client \in up => client' \in up', client' = client \/ client' \in up', bleState = "CONNECTED"
          PROVE  \/ client' \in up'
                 \/ \E v \in Users, k \in Jobs : <<"disconnect", k>> \in call'[v] /\ job'[k].pc = "done"
      <4>1. CASE client \in up
        BY <3>1, <4>1
      <4>2. CASE client \notin up
        <5>1. PICK v \in Users, k \in Jobs : <<"disconnect", k>> \in call[v] /\ job[k].pc = "done"
          BY <1>1, <2>2, <3>1, <4>2 DEF StateHonest
        <5>2. k # j
          BY <1>1, <5>1
        <5>. QED
          BY <1>1, <5>1, <5>2
      <4>. QED
        BY <4>1, <4>2
    <3>2. CASE ConnectBegins(j)
      BY <2>2, <3>2 DEF ConnectBegins
    <3>3. CASE Subscribed(j)
      BY <3>3 DEF Subscribed
    <3>4. CASE ConnectFails(j)
      BY <2>2, <3>1, <3>4 DEF ConnectFails
    <3>5. CASE WriteFails(j)
      BY <2>2, <3>1, <3>5 DEF WriteFails
    <3>6. CASE Closed(j)
      <4>1. PICK v \in Users : <<"disconnect", j>> \in call[v]
        BY <1>1, <3>6 DEF Closed, StateHonest
      <4>2. job'[j].pc = "done"
        <5>1. job[j] \in Coroutine /\ job' = [job EXCEPT ![j].pc = "done"]
          BY <3>6 DEF Closed, JobGoes, BleTyped
        <5>. QED
          BY <5>1 DEF BleTyped
      <4>. QED
        BY <1>1, <4>1, <4>2
    <3>7. CASE \E l \in Radio : BleConnected(j, l)
      BY <2>2, <3>1, <3>7 DEF BleConnected
    <3>. QED
      BY <3>2, <3>3, <3>4, <3>5, <3>6, <3>7
  <2>. QED
    BY <2>1, <2>2
<1>. QED
  BY <1>3, <1>4, <1>5, <1>6, <1>7

\* A chunk is written.
LEMMA BleWriteInv ==
    ASSUME BleInv, NEW j \in Jobs, WriteChunk(j)
    PROVE  BleInv'
<1>. USE DEF BleInv
<1>1. Chunks \in Nat /\ Chunks > 0 /\ NoLink \notin Radio
  BY BleAssumption
<1>2. /\ UNCHANGED <<call, sentOk, bleCrossed, bleGaveUp, dropped, bleState, client, up>>
      /\ job[j].kind = "send" /\ job[j].pc = "run" /\ client \in up /\ client \in Radio /\ client # NoLink
      /\ job[j].sent \in Nat /\ job[j].sent + 1 \in 1..Chunks /\ job[j] \in Coroutine
      /\ (job[j].sent + 1 = Chunks \/ job[j].sent + 1 < Chunks)
  BY <1>1 DEF WriteChunk, Calling, BleTyped, ChunksKnown, Coroutine
<1>3. PICK n \in 1..Chunks : n = job[j].sent + 1
  BY <1>2
<1>4. /\ job' = [job EXCEPT ![j].sent = n, ![j].pc = IF n = Chunks THEN "done" ELSE "run"]
      /\ air' = Append(air, [job |-> j, chunk |-> n, link |-> client])
  <2>1. job' = [job EXCEPT ![j].sent = job[j].sent + 1,
                           ![j].pc = IF job[j].sent + 1 = Chunks THEN "done" ELSE "run"]
    BY DEF WriteChunk, BleTyped
  <2>. QED
    BY <1>3, <2>1 DEF WriteChunk
<1>5. /\ job'[j].sent = n /\ job'[j].kind = "send" /\ job'[j].pc = IF n = Chunks THEN "done" ELSE "run"
      /\ \A k \in Jobs : k # j => job'[k] = job[k]
      /\ job' \in [Jobs -> Coroutine]
  <2>. DEFINE pc == IF n = Chunks THEN "done" ELSE "run"
  <2>1. job'[j] = [job[j] EXCEPT !.sent = n, !.pc = pc] /\ pc \in {"done", "run"}
    BY <1>4 DEF BleTyped
  <2>. HIDE DEF pc
  <2>2. job'[j].sent = n /\ job'[j].pc = pc /\ job'[j].kind = "send"
    BY <1>2, <2>1 DEF Coroutine
  <2>3. n \in 0..Chunks
    BY <1>1
  <2>4. job'[j] \in Coroutine
    BY <1>2, <2>1, <2>3 DEF Coroutine
  <2>5. \A k \in Jobs : k # j => job'[k] = job[k]
    BY <1>4 DEF BleTyped
  <2>6. job' \in [Jobs -> Coroutine]
    BY <1>4, <2>4, <2>5 DEF BleTyped
  <2>. QED
    BY <2>2, <2>4, <2>5, <2>6 DEF pc
<1>. DEFINE new == Len(air) + 1
<1>6. /\ air' \in Seq(Chunk) /\ Len(air') = new /\ new \in Nat /\ Len(air) \in Nat
      /\ air'[new] = [job |-> j, chunk |-> n, link |-> client]
      /\ \A i \in 1..Len(air) : air'[i] = air[i] /\ i # new /\ i < new
  <2>1. [job |-> j, chunk |-> n, link |-> client] \in Chunk
    BY <1>2 DEF Chunk
  <2>2. air \in Seq(Chunk)
    BY DEF BleTyped
  <2>. QED
    BY <1>4, <2>1, <2>2
<1>7. /\ DOMAIN air = 1..Len(air) /\ DOMAIN air' = 1..new
      /\ \A i : i \in 1..new <=> i \in 1..Len(air) \/ i = new
      /\ air'[new].job = j /\ air'[new].chunk = n /\ air'[new].link = client
  BY <1>6 DEF BleTyped
<1>8. /\ Writes(j)' = Writes(j) \cup {new}
      /\ \A k \in Jobs : k # j => Writes(k)' = Writes(k)
      /\ \A k \in Jobs : Writes(k) \subseteq 1..Len(air)
  BY <1>6, <1>7 DEF Writes
<1>9. \A k \in Jobs : \A i \in Writes(k) : air'[i] = air[i] /\ i < new /\ i \in Nat
  BY <1>6, <1>8
<1>10. {air'[i].chunk : i \in Writes(j)'} = 1..n
  <2>1. {air'[i].chunk : i \in Writes(j)'} = {air[i].chunk : i \in Writes(j)} \cup {n}
    BY <1>7, <1>8, <1>9
  <2>2. {air[i].chunk : i \in Writes(j)} = 1..job[j].sent
    BY DEF ChunksKnown
  <2>3. 1..n = 1..job[j].sent \cup {n}
    BY <1>2, <1>3
  <2>. QED
    BY <2>1, <2>2, <2>3
<1>11. \A i \in Writes(j) : air[i].chunk \in 1..job[j].sent /\ air[i].chunk < n
  <2>1. \A i \in Writes(j) : air[i].chunk \in 1..job[j].sent
    BY DEF ChunksKnown
  <2>. QED
    BY <1>2, <1>3, <2>1
<1>12. InOrder(j)'
  <2>. SUFFICES ASSUME NEW a \in Writes(j)', NEW b \in Writes(j)', a < b
                PROVE  air'[a].chunk < air'[b].chunk
    BY DEF InOrder
  <2>1. CASE b = new
    <3>1. a \in Writes(j)
      BY <1>6, <1>8, <2>1
    <3>. QED
      BY <1>7, <1>9, <1>11, <2>1, <3>1
  <2>2. CASE b # new
    <3>1. b \in Writes(j)
      BY <1>8, <2>2
    <3>2. a \in Writes(j)
      BY <1>6, <1>8, <1>9, <3>1
    <3>. QED
      BY <1>9, <3>1, <3>2 DEF ChunksKnown, InOrder
  <2>. QED
    BY <2>1, <2>2
<1>13. BleTyped'
  BY <1>2, <1>5, <1>6 DEF BleTyped
<1>14. CallsKnown'
  <2>1. \A k \in Jobs : /\ job'[k].kind = job[k].kind
                        /\ job[k].pc # "unborn" => job'[k].pc # "unborn"
    BY <1>2, <1>5
  <2>. QED
    BY <1>2, <2>1 DEF CallsKnown
<1>15. ChunksKnown'
  <2>1. ASSUME NEW k \in Jobs
        PROVE  /\ {air'[i].chunk : i \in Writes(k)'} = 1..job'[k].sent /\ InOrder(k)'
               /\ job'[k].pc = "unborn" => job'[k] = Unborn
               /\ job'[k].sent > 0 => job'[k].kind = "send"
               /\ job'[k].kind = "send" => /\ job'[k].pc \in {"run", "done", "failed"}
                                           /\ job'[k].pc = "run" => job'[k].sent < Chunks
                                           /\ job'[k].pc = "done" => job'[k].sent = Chunks
               /\ job'[k].pc \in {"connecting", "notify"} => job'[k].kind = "connect"
               /\ k \in sentOk' => job'[k].kind = "send" /\ job'[k].pc = "done"
    <3>1. CASE k = j
      <4>1. j \notin sentOk
        BY <1>2 DEF ChunksKnown
      <4>2. job'[j].pc = "run" => n < Chunks
        <5>1. n # Chunks => n < Chunks
          BY <1>1
        <5>. QED
          BY <1>5, <5>1
      <4>. QED
        BY <1>2, <1>5, <1>10, <1>12, <3>1, <4>1, <4>2
    <3>2. CASE k # j
      <4>1. {air'[i].chunk : i \in Writes(k)'} = {air[i].chunk : i \in Writes(k)}
        BY <1>8, <1>9, <3>2
      <4>2. InOrder(k)'
        BY <1>8, <1>9, <3>2 DEF InOrder, ChunksKnown
      <4>. QED
        BY <1>2, <1>5, <3>2, <4>1, <4>2 DEF ChunksKnown
    <3>. QED
      BY <3>1, <3>2
  <2>. QED
    BY <2>1 DEF ChunksKnown
<1>16. OnLoop' \subseteq OnLoop /\ j \in OnLoop
  BY <1>2, <1>5 DEF OnLoop
<1>17. AloneOnAir'
  <2>1. ASSUME NEW k \in Jobs, k \notin bleCrossed', k # j
        PROVE  Together(k)' /\ k \notin OnLoop'
    <3>1. Together(k)'
      BY <1>2, <1>8, <1>9, <2>1 DEF Together, AloneOnAir
    <3>2. k \notin OnLoop
      BY <1>2, <1>16, <2>1 DEF AloneOnAir
    <3>. QED
      BY <1>16, <3>1, <3>2
  <2>2. ASSUME j \notin bleCrossed'
        PROVE  Together(j)' /\ (j \in OnLoop' => OnLoop' = {j})
    <3>1. /\ Together(j) /\ OnLoop = {j}
          /\ job[j].sent > 0 => /\ Len(air) > 0 /\ air[Len(air)].job = j
                                /\ air[Len(air)].chunk = job[j].sent
                                /\ client \in {air[Len(air)].link, NoLink}
      BY <1>2, <1>16, <2>2 DEF AloneOnAir
    <3>2. ASSUME NEW a \in Writes(j)
          PROVE  air[a].link = client /\ a + n = new + air[a].chunk
      <4>1. air[a].chunk \in 1..job[j].sent
        BY <1>11
      <4>2. job[j].sent > 0
        BY <1>2, <4>1
      <4>3. Len(air) \in Writes(j) /\ air[Len(air)].link = client
        BY <1>2, <1>6, <1>7, <3>1, <4>2 DEF Writes
      <4>4. air[a].link = client /\ a + air[Len(air)].chunk = Len(air) + air[a].chunk
        BY <3>1, <4>3 DEF Together
      <4>5. a + job[j].sent = Len(air) + air[a].chunk /\ a \in Nat
        BY <1>9, <3>1, <4>2, <4>4
      <4>6. a + n = new + air[a].chunk
        <5>1. PICK x \in Nat : x = air[a].chunk
          BY <4>1
        <5>2. PICK k \in Nat : k = job[j].sent
          BY <1>2
        <5>3. PICK m \in Nat : m = Len(air)
          BY <1>6
        <5>4. a + k = m + x /\ n = k + 1 /\ new = m + 1
          BY <1>3, <4>5, <5>1, <5>2, <5>3
        <5>. QED
          BY <4>5, <5>1, <5>4
      <4>. QED
        BY <4>4, <4>6
    <3>3. Together(j)'
      <4>. SUFFICES ASSUME NEW a \in Writes(j)', NEW b \in Writes(j)'
                    PROVE  air'[a].link = air'[b].link /\ a + air'[b].chunk = b + air'[a].chunk
        BY DEF Together
      <4>1. CASE a = new /\ b = new
        BY <4>1
      <4>2. CASE a # new /\ b = new
        <5>1. a \in Writes(j)
          BY <1>8, <4>2
        <5>. QED
          BY <1>7, <1>9, <3>2, <4>2, <5>1
      <4>3. CASE a = new /\ b # new
        <5>1. b \in Writes(j)
          BY <1>8, <4>3
        <5>. QED
          BY <1>7, <1>9, <3>2, <4>3, <5>1
      <4>4. CASE a # new /\ b # new
        <5>1. a \in Writes(j) /\ b \in Writes(j)
          BY <1>8, <4>4
        <5>. QED
          BY <1>9, <3>1, <5>1 DEF Together
      <4>. QED
        BY <4>1, <4>2, <4>3, <4>4
    <3>. QED
      BY <1>16, <3>1, <3>3
  <2>3. /\ Len(air') > 0 /\ air'[Len(air')].job = j /\ air'[Len(air')].chunk = job'[j].sent
        /\ client' \in {air'[Len(air')].link, NoLink}
    BY <1>2, <1>5, <1>6, <1>7
  <2>. QED
    BY <2>1, <2>2, <2>3 DEF AloneOnAir
<1>18. StateHonest'
  <2>1. \A k \in Jobs : /\ job[k].pc = "done" => job'[k].pc = "done"
                        /\ job'[k].kind = "disconnect" => job'[k] = job[k]
    BY <1>2, <1>5
  <2>. QED
    BY <1>2, <2>1 DEF StateHonest
<1>. QED
  BY <1>13, <1>14, <1>15, <1>17, <1>18

LEMMA BleInvStep == BleInv /\ [BleNext]_bleVars => BleInv'
<1>. SUFFICES ASSUME BleInv, BleNext \/ UNCHANGED bleVars
              PROVE  BleInv'
  OBVIOUS
<1>1. ASSUME NEW u \in Users, NEW j \in Jobs,
             \/ BleSend(u, j) \/ BleConnect(u, j) \/ Reconnect(u, j) \/ Retry(u, j) \/ BleDisconnect(u, j)
      PROVE  BleInv'
  <2>1. PICK op \in Ops : /\ RunCoro(u, j, op, KindOf(op))
                          /\ call[u] = {} \/ <<"reconnect", NoLink>> \in call[u]
                          /\ bleState' \in {bleState, "RECONNECTING"}
    BY <1>1 DEF BleSend, BleConnect, Reconnect, Retry, BleDisconnect, Ops, KindOf
  <2>. QED
    BY <2>1, BleCallInv
<1>2. ASSUME NEW u \in Users, NEW j \in Jobs, NEW op \in Ops, Returns(u, op, j) \/ Raises(u, op, j)
      PROVE  BleInv'
  BY <1>2, BleAnswerInv
<1>3. ASSUME NEW j \in Jobs,
             \/ ConnectBegins(j) \/ Subscribed(j) \/ ConnectFails(j) \/ WriteFails(j) \/ Closed(j)
             \/ \E l \in Radio : BleConnected(j, l)
      PROVE  BleInv'
  BY <1>3, BleStepInv
<1>4. ASSUME NEW j \in Jobs, WriteChunk(j)
      PROVE  BleInv'
  BY <1>4, BleWriteInv
<1>5. ASSUME \/ \E u \in Users : DisconnectNothing(u)
             \/ \E l \in Radio : Drop(l)
             \/ UNCHANGED bleVars
      PROVE  BleInv'
  <2>1. /\ UNCHANGED <<client, job, call, air, sentOk, bleCrossed, bleGaveUp>> /\ up' \subseteq up
        /\ dropped \/ bleState' = "DISCONNECTED" => dropped' \/ bleState' = "DISCONNECTED"
        /\ dropped' \/ bleState' = "DISCONNECTED" \/ UNCHANGED <<dropped, bleState, up>>
    BY <1>5 DEF DisconnectNothing, Drop, Calling, bleVars
  <2>2. /\ \A j \in Jobs : /\ Writes(j)' = Writes(j) /\ InOrder(j)' = InOrder(j)
                           /\ Together(j)' = Together(j)
                           /\ {air'[i].chunk : i \in Writes(j)'} = {air[i].chunk : i \in Writes(j)}
        /\ OnLoop' = OnLoop
    BY <2>1, AirStays DEF OnLoop
  <2>3. BleTyped' /\ CallsKnown'
    BY <2>1 DEF BleInv, BleTyped, CallsKnown
  <2>4. ChunksKnown'
    BY <2>1, <2>2 DEF BleInv, ChunksKnown
  <2>5. AloneOnAir'
    BY <2>1, <2>2 DEF BleInv, AloneOnAir
  <2>6. StateHonest'
    BY <2>1 DEF BleInv, StateHonest
  <2>. QED
    BY <2>3, <2>4, <2>5, <2>6 DEF BleInv
<1>. QED
  BY <1>1, <1>2, <1>3, <1>4, <1>5 DEF BleNext, Ops

\* A send that reported success has written every chunk once and in order, and
\* together if it had the loop to itself; CONNECTED is said of a client that is.
THEOREM SendsAreWhole == BleSpec => []SendWhole
<1>1. BleInv => SendWhole
  <2>. SUFFICES ASSUME BleInv
                PROVE  SendWhole
    OBVIOUS
  <2>1. ASSUME NEW j \in sentOk
        PROVE  /\ {air[i].chunk : i \in Writes(j)} = 1..Chunks /\ InOrder(j)
               /\ j \notin bleCrossed => Together(j)
    <3>1. j \in Jobs
      BY DEF BleInv, BleTyped
    <3>2. job[j].sent = Chunks
      BY <3>1 DEF BleInv, ChunksKnown
    <3>. QED
      BY <3>1, <3>2 DEF BleInv, ChunksKnown, AloneOnAir
  <2>2. ASSUME ~bleGaveUp, ~dropped, bleCrossed = {}, call = [u \in Users |-> {}], bleState = "CONNECTED"
        PROVE  client \in up
    BY <2>2 DEF BleInv, StateHonest
  <2>. QED
    BY <2>1, <2>2 DEF SendWhole
<1>. QED
  BY <1>1, BleInvInit, BleInvStep, PTL DEF BleSpec

=============================================================================
