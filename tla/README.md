# OpenClaw Embodiment: verification project

TLA+ models of the OpenClaw Embodiment SDK (`src/openclaw_embodiment`), the TLC
configurations that check them on small instances, and theorems about them that
TLAPS checks. The models are written from the Python source; line numbers for each
definition are in `PROJECT.json` ("map").

## 1. The system

The SDK turns a wearable or a robot into a context source and an output device of
an OpenClaw agent.  IMU samples become trigger events, a trigger becomes a capture
that is classified, packed and sent to the agent, and what the agent answers is
rendered or executed by the device.  Beside that path there is a discovery service
that watches a space for hours.

| Component (file) | State | Operations | What must be right |
|---|---|---|---|
| `HalOrchestrator` (core/orchestrator.py) | running flag, semaphore, hook lists, one task per event | run, stop, run_once, add_hook, remove_hook, six stages | permits, hooks in the face of failures, one delivery |
| `EmbodimentSDK`, `HALRegistry` (core/pipeline.py) | run flag, loop thread, HALs up or down | start, stop, the trigger loop | order of start and teardown, threads left behind |
| `AgentResponseListener`, `DeviceResponseRouter` (core/response.py) | active flag, callbacks | register, deregister, on_agent_event | nothing accepted after deregistration, callbacks reached |
| `TriggerDetector` (core/trigger.py) | saccade/fixation machine, cooldowns | update, request_heartbeat_now | a capture follows a gesture, wake-ups apart |
| `TriggerArbiter` (triggers/arbiter.py) | last emission, pending events, flush timer | push, flush, callback | one emission per window, none lost |
| `AudioTriggerDetector` (triggers/audio_trigger.py) | state, capture thread | start, stop, capture loop | one loop, legal transitions |
| `ActionChunkBuffer` (hal/action_chunk_buffer.py) | queue, last command | merge, get, clear | order, nothing lost |
| Actuator HALs (hal/reachy2_reference.py, profiles/unitree_go2.py) | control loop flag and thread, buffer | execute_chunk, start/stop loop, stop_all, shutdown | a stop stops |
| BLE format (transport/ble.py) | reassembly buffers | fragment, defragment, serialize | intact packets over a bad link |
| `UnifiedTransport` (transport/unified.py) | rolling statistics | send with fallback | a success reported was reached, true statistics |
| Attachment, Wi-Fi, MLX, STT (transport/*.py) | session, loaded model | send, load/unload, transcribe | calls racing unload, late answers |
| Distiller loop (distiller_context_loop.py) | handlers in flight, the shared microphone | trigger to context to card | a card for every trigger, a microphone for one |
| `DeviceRegistry`, `MultiDeviceOrchestrator` (core/multi_device.py) | devices and their status | register, unregister, route | reachable states, routing |
| Discovery (discovery/discovery_loop.py, space_model.py, anomaly_detector.py, world_model.py, discovery_report.py) | SQLite tables, known devices, entities with decaying confidence | scan, sample, capture, check, report | restarts, new devices noticed once, decay |
| Auto-discovery (discovery/auto.py, hal/ble_scanner.py) | candidates | probe, merge | time limits |
| Context builders (core/context_builder.py, context/*.py) | none or per call | build, find conflicts | stale sensors |
| Drivers (hal/*.py, profiles/*.py) | connection state and its callback, audio and frame buffers, playing sound, last pose, photo chunks, servers | initialize, capture, send, play, shutdown | order and loss in buffers, state told truly, one owner of a device |
| CLI, validator, errors, logging | none | output | - |

How they interact: the IMU thread (or asyncio loop) calls `TriggerDetector.update`;
detectors push into `TriggerArbiter`, whose emission calls back into the application
in a new thread; the pipelines call HALs (in an executor under asyncio, directly in
the threaded SDK) and hand packets to transports; agent answers arrive in any thread
at `AgentResponseListener`; action chunks go through `ActionChunkBuffer` to a control
loop thread; the discovery loop writes the space model, which the anomaly detector
and the world model read back.

What is hard: two generations of a loop after stop and restart (every component that
owns a thread joins it with a time limit and goes on); flags read without a lock;
lists changed under an iteration; timers cancelled too late; permits and callbacks in
the face of exceptions; HALs shut down under a caller; fragments out of order. The
list, line by line, is under "hazards" in `PROJECT.json`.

## 2. Modules

| Module | Models | Kind |
|---|---|---|
| `HalOrchestrator` | core/orchestrator.py | state machine |
| `TriggerDedup` | the promise of the arbiter | abstract specification |
| `TriggerArbiter` | triggers/arbiter.py | state machine, refines `TriggerDedup` |
| `ActionChunkBuffer` | hal/action_chunk_buffer.py | operations and their properties |
| `ControlLoop` | the control loop of reachy2_reference.py and unitree_go2.py | composes `ActionChunkBuffer` with its threads |
| `TriggerDetector` | core/trigger.py | state machine |
| `AgentResponseListener` | core/response.py | operations and a property |
| `EmbodimentSDK` | core/pipeline.py | composes `AgentResponseListener` with the SDK's threads |
| `SpaceModel` | discovery/space_model.py | operations: tables and transactions |
| `AnomalyDetector` | discovery/anomaly_detector.py | operations over `SpaceModel` |
| `WorldModel` | discovery/world_model.py | operations, and a specification of its own |
| `DiscoveryLoop` | discovery/discovery_loop.py | composes the three above |
| `AudioTrigger` | triggers/audio_trigger.py | operations of its threads |
| `DistillerContextLoop` | distiller_context_loop.py | composes `AudioTrigger` with handlers and microphone |
| `UnifiedTransport` | transport/unified.py, transport/attachment.py | state machine |
| `MultiDevice` | core/multi_device.py | state machine |
| `WiFiClient` | transport/wifi.py | state machine |
| `SttBridge` | transport/stt_bridge.py | state machine |
| `LocalMlx` | transport/mlx.py | state machine |
| `Fragmenter` | transport/ble.py | state machine over a bad link |
| `MicrophoneHals` | the six microphones that buffer (Reachy, Pi, OpenGlass, Even G2, Ray-Ban, iOS) | state machine |
| `TransportHals` | connection state of fifteen transport HALs, with the simulator | state machine |
| `PiAudioOutput`, `HealthMonitor`, `PiBleLink` | hal/pi3_reference.py | state machines |
| `PoseSensors` | the motion HALs that difference poses | state machine |
| `IosReceiver` | profiles/ios_companion.py | state machine |
| `HeadsetFeeds` | hal/rayban_server.py, profiles/apple_vision_pro.py | state machine |
| `PhotoChunks` | profiles/openglass.py | state machine |
| `AutoDiscovery` | discovery/auto.py | state machine |
| `SensorFusion` | context/context_builder.py | a pure function over all its inputs |
| `HalOrchestratorProofs` | - | theorems of `HalOrchestrator` |
| `TriggerArbiterProofs` | - | the refinement of `TriggerDedup` |
| `TriggersProofs` | - | theorems of `TriggerDetector` and `DistillerContextLoop` |
| `ControlLoopProofs` | - | theorems of `ActionChunkBuffer` and `ControlLoop` |
| `EmbodimentSDKProofs` | - | theorems of `AgentResponseListener` and `EmbodimentSDK` |
| `DiscoveryLoopProofs` | - | theorems of `WorldModel` and `DiscoveryLoop` |
| `LinksProofs` | - | theorems of the six modules between device and agent |
| `DevicesProofs` | - | theorems of the eleven device modules |

Modules named `MC...` give the constants values; `TriggerDetector` and
`DistillerContextLoop` need no definitions for theirs and are run from a .cfg of their
own. `MCLinks` and `MCDevices` hold
several components that do not interact: the initial state picks the one that runs
and the others stay as they began, so the states are the sum of the parts' and not
their product. Where a module prefixes its `Init` and `Next` (`LinkInit`, `SttNext`)
it is because of these two.

Operators named `X_Something` before a definition `X` are deliberately faulty
variants of it ("Deliberate fault"): nothing uses them, and they exist to see a
property fail when `X` is replaced by the variant (`PROJECT.json`, "mutants").

### HalOrchestrator

State: `running`, `hooks` and `current` are the fields of the same meaning;
`permits[g]` and `waiters[g]` are the `asyncio.Semaphore` that the g-th call of
`run()` made (the field `_semaphore` is the last of them, and tasks started earlier
keep theirs); `loop[l]` is the polling loop of each call; `task[e]` is the coroutine
`_run_with_semaphore` or `run_once` of an event.

Actions: asyncio runs one coroutine between two awaits, so an action ends where the
code awaits: a HAL call in the executor, a hook, a backoff sleep, the semaphore.
`AfterStage` is the code of `_execute_pipeline` after each stage, `AfterRaise` and
`HookTimesOut` the two `except` clauses of `_run_stage`. A HAL that raises
(`HalRaises`) ends the pipeline. The setup (error policy, retry count, optional
HALs, what the application calls) is a variable that never changes, so that one run
covers several.

Abstracted: samples and detector (any unseen event may be emitted at any poll),
payload bytes (serialising may fail), the latency hook, which returns its data
unchanged.

### TriggerArbiter and TriggerDedup

`push` and `_flush_confidence` hold the lock throughout, so each is one action. A
timer that has ended its wait but has no lock yet is `firing`; `cancel()` does not
reach it. `timers` keeps all timers ever started. `_fire_callback` starts a thread:
`Callback` may take emitted events in any order. `TriggerDedup` says: no event twice,
and a window between emissions, counted from when the last was due. The refinement is
`Deduplicates`; `lastDue` maps to the deadline of the timer whose flush emitted,
because a flush that waits for the lock is late through no fault of the next event.
Under AUDIO_PRIORITY audio preempts the window, as the code has it.

`Prompt` is an assumption about the host: between its deadline and its flush a timer's
thread loses less than a window (500 ms). `Deduplicates` needs it. Without it two
timer threads can wait for the lock at once; the later one flushes first, an event is
held in the cooldown that follows, and the earlier one emits it inside that cooldown,
since `_flush_confidence` (arbiter.py:200) does not look at the time. Nothing but
thread scheduling and short callbacks under the lock keeps the code from that.

### ActionChunkBuffer and ControlLoop

A command is (chunk, step) with the set of steps blended into it. `Merged` is the
rebuild of the queue in `merge`; `Pop`/`PopNothing` with `Held` are `get`. What is
promised of the order is about the commands' own ids: an old step that was blended
comes out with the new one, and so behind the rest of its own chunk.
`ControlLoop` adds the flag `_control_loop_active`, any number of loop threads (a
thread left behind by a `join` that timed out keeps running), and the supervisor's
`start_control_loop`, `stop_control_loop`, `stop_all` and `shutdown`, each cut at every
access to the flag, the buffer and the hardware. `stop_all` also runs in the loop
thread when a command says so. `join` may return early only when the thread is in a
hardware call: nothing else takes two seconds.

### TriggerDetector

One action per sample. A sample is the time since the one before and which of the
four speed ranges it lies in. The time stamps with 0 for "unset" are kept as they are.

### AgentResponseListener and EmbodimentSDK

`on_agent_event` is split at the flag test (`Arrive`), the HAL call (`Route`) and
each callback; it iterates over a copy of the list. `EmbodimentSDK` adds `start` and
`stop`, cut at every HAL call, each of which may raise, and the loop threads. The
application's thread is `app`. A second `start` is not refused by the code, nor by
the model. Callbacks that call `stop` are `CallbackStops`.

### SpaceModel, AnomalyDetector, WorldModel and DiscoveryLoop

`SpaceModel` is the content of the SQLite tables, which survive a kill, and
`_scan_count`, which does not. A method is one transaction. `update_ble_with_names`
calls `log_discovery` inside its transaction: the second connection waits for the lock
of the first until SQLite gives up (`UpdateBleLocked`), the transaction is rolled back
and the exception leaves the daemon's loop. `AnomalyDetector` compares a reading with
the tables and with the scan before; `check` is one action of the loop.
`WorldModel` keeps two dictionaries and per-entity times and confidences; confidence
decays linearly and is computed, as in the code, from the last observation.
`DiscoveryLoop` is the daemon: `pc` walks through the phases of a cycle (sense by
each sensor that is due, record, check, report, sleep), each sensor may fail, a signal
may come and the process may be killed anywhere, and a new session starts on the same
tables. `PushReport` is `_push_report` with its `except`: a report that fails is logged
and counts as made, and the next one takes its anomalies again (`lost` keeps those that
every report so far failed with). What a report's own posting thread does is left out.
`Infrastructure` is what the code has, though it is always empty: the transaction that
would make a device infrastructure is the one that is rolled back. Clock units stand for 30 seconds; interval constants are per configuration.

### AudioTrigger and DistillerContextLoop

`loop[l]` is the thread of the l-th `start()`. The state machine is driven by reads and
writes of `_state` that are locked one by one, so a thread carries what it `seen` from
the read to the decision. `stop()` joins for three seconds while a capture may last
four, so threads may be left behind and a restart makes two (`overlap`).
`DistillerContextLoop` adds a handler thread per trigger (record, look, scan, post,
render) that shares the microphone with the detector, and the two threads that draw.
The panel may be missing, and the gateway may answer with something that is no text
(`NoText`), at which the handler raises and draws nothing.

### UnifiedTransport, WiFiClient, SttBridge, LocalMlx, Fragmenter, MultiDevice

`UnifiedTransport`: several threads in `send`, cut at every access to the window and
the counters; both transports may succeed, fail, be slow, or deliver and report
failure; the fallback is the attachment transport with its temporary file and CLI.
`WiFiClient`: a stream of cells that TCP hands over in arbitrary pieces, with
timeouts. `SttBridge`: per call the temporary file, the child process and the way the
call ends, also by cancellation. `LocalMlx`: the three attributes that load, unload and
generate read and write in any interleaving. `Fragmenter`: every fragment sent may
arrive several times, in any order or never; index and count keep the width of their
field (`FieldSize`, 256 in the code); each stored chunk carries its arrival time, which
the code does not keep. `MultiDevice`: the dict in insertion order, `register` cut
between test and write, `route` between elements of its iteration; what it has chosen
it remembers by id, so another handle registered under an id between two passes of a
text is skipped.

### The device modules

A module whose code exists in several classes takes the class as a variable that
never changes (`mic`, `hal`, `sensor`, `headset`), and every difference between the
classes is a guard on it. `MicrophoneHals`: frames are numbers in the order they were
spoken; a buffer drops its oldest or refuses its newest as its class does, on the
Reachys in three steps (refused, one taken out, put again) between which a reader may
come; start and stop create polling threads. `TransportHals`: `state`, the callback, whether there is
a link, and per calling thread the steps still to make. `PiAudioOutput`: thread, stop
event, process and file, which `play` and `stop` read and write at different times.
`HealthMonitor`: callbacks and monitor threads. `PiBleLink`: coroutines that take
turns at every await, and callers that give up on them. `PoseSensors`: the last pose
and the differences returned; a capture of the OAK-D that fails takes the place of the
last frame (`SkipDifference`). `IosReceiver`: posts in a backlog, server threads, the
request to end and the event that it has ended, which are the standard library's and
mapped as external; a payload is applied first and answered in a step of its own, which
a phone that has gone makes fail. `HeadsetFeeds`: the slot with its event, the queues and their
sockets. `PhotoChunks`: pieces of photos with start and end markers, and a thumbnail
inside with a start and an end of its own, at the head of a piece or within it.
`AutoDiscovery`:
scanning threads joined with time limits and the score. `SensorFusion`: one step
computes the conflicts, level and warnings of every combination of channels.

## 3. Runs

| Run | Expect | Checks | States |
|---|---|---|---|
| `orchestrator` | pass | `PermitsAccounted`, `StageHooksComplete`, `AtMostOneDelivery`, `RunsFinish` | 86 000 |
| `arbiter` | pass | `Deduplicates`, `OpenEventAnswered` | 663 000 |
| `control_loop` | pass | `OneLateCommand`, `StopDiscards`, `CommandsFaithful`, `StopEnds` | 158 000 |
| `trigger_detector` | pass | `WholeGesture`, `WakesApart` | 32 000 |
| `sdk` | pass | `ListenerNeedsHals`, `CallbacksReached`, `StopHolds` | 142 000 |
| `discovery` | pass | `EntitiesTracked`, `AnomaliesReported`, `PresenceReported`, `SessionsEnd` | 1 039 000 |
| `voice` | pass | `OneLateTrigger`, `CooldownHolds`, `TriggersServed` | 208 000 |
| `links` | pass | `StatsKept`, `SuccessReached` (unified), `RouteExact` (devices), `InStep` (Wi-Fi), `FileOwned` (STT), `LoadedHasModel` (MLX), `Reassembly` (BLE) | 1 406 000 |
| `devices` | pass | `AudioInOrder`, `StateTold`, `OneSound`, `Watched`, `SendWhole`, `MotionConserved`, `ReceiverSound`, `FeedsKept`, `PhotoWhole`, `BestFound`, `LevelFair` | 822 000 |
| `control_halt` | violation | `EmergencyStopHolds` | |
| `detector_fixation` | violation | `FixationHeld` | |
| `discovery_daemon` | violation | `DaemonSurvives` | |

Every property is stated in words above its definition. Some are conjunctions of two
or more named ones that together say what a component promises: `RunsFinish`
(`EveryTaskFinishes`, `StopEndsLoops`), `CommandsFaithful` (`InOrder`,
`MergeKeepsCommands`, `NothingRepeated`), `StopEnds`, `StopHolds`, `StatsKept`, `Reassembly` (`Intact`,
`NothingStuck`, `Timely`, `ReturnsPaidFor`), `ReceiverSound`, `FeedsKept`,
`TriggersServed`. Several hold only under a condition that the code needs and does not
enforce: the condition is a conjunct of the property and says so in its comment
(`~overlap`, `~twin`, `~crossed`, `~audioGaveUp`, `~unloadMet`, `~cut`, `~tangled`,
`~misused`). They are true of every run in which, for instance, no join timed out, and
the model contains the runs in which one did. The type invariant of each module is
its `...TypeOK`; it holds in the same instances, but is not among the runs'
properties. Where section 4 names a `...TypeCorrect` it is proved; the inductive
invariants of `LinksProofs` and `DevicesProofs` begin with one of their own
(`...Typed`), as much of the types as the argument needs.

All runs say `CHECK_DEADLOCK FALSE`: each system may stop (no more events, an SDK
that is stopped, a counter at its bound), and liveness properties say what must not
remain undone.

Bounds, and why they are enough:

- `orchestrator`: two events for one permit make a queue; two calls of `run()` make
  two semaphores and two loops; two hooks let one be removed in front of the other or
  added behind it; two transports give one fallback. Four setups cover the three error
  policies, retries, `run_once` and every optional HAL.
- `arbiter`: a window of two ticks has an inside; four events give two emissions, a
  re-armed timer and one event more than `max_pending` = 1 lets in. `MaxTime` = 11
  leaves room for two windows with a late flush each (pushes stop two windows before
  the bound, so that every timer expires).
- `control_loop`: two chunks, longer and shorter than the horizon of two, and two loop
  threads, one of them left behind.
- `trigger_detector`: 26 time units hold three captures with a refractory period of 4
  and a wake-up cooldown of 10; samples come one or two units apart.
- `sdk`: two setups, one with every optional HAL, two transports and two starts, one
  with a response and two callbacks; together they reach every action.
- `discovery`: two sessions on one database, two addresses of which one is named, and
  four cycles or fewer in a session: a departure, a return, a scan heard after a
  restart. A cycle may skip ticks, so sensors fall due in every combination. Three setups: radio
  and microphone, microphone and camera, radio alone.
- `voice`: two calls of `start()`, two handlers in flight for one microphone, with and
  without a panel.
- `links`: two threads over a window of one; three handles of which two share an
  id; three packets; two STT calls; two threads and four loads of the model; a packet of three
  fragments (the first may come twice) and one a fragment too long for its count to fit
  (`FieldSize` = 4).
- `devices`: two threads for each HAL, a buffer of two frames out of four, two sounds,
  three coroutines with payloads of two chunks, two posts, three photos
  of three pieces: a thumbnail may begin and end in one piece or in two, at the photo's
  start or behind it.

Every passing run was also tried with larger bounds, with the same outcome: three
events (`orchestrator`, 1.3 million states), `MaxTime` 12 (`arbiter`, 1.3 million),
three chunks (`control_loop`, 968 000), `MaxTime` 40 (`trigger_detector`),
three starts (`sdk`), four ticks (`discovery`, 8.6 million), a longer cooldown
(`voice`, 412 000), a window of two results, five sends and six ticks (`links`, 3.1
million), more frames, rounds and poses, photos of four pieces, and three posts with
one call less (`devices`, one after the other, 5.4 million at most); the larger
instances of `orchestrator`, `control_loop` and `discovery` for the safety
properties only.

Fairness: threads and ready coroutines run (weak fairness of their steps), time
passes, HAL calls return or raise, since each driver has its own time limit. A hook
is assumed to settle only when `stage_timeout_ms` bounds it. Nothing makes a sensor
emit, the application call, the LLM send, the agent answer or anybody speak. So
`EveryTaskFinishes` is stated for configurations with a timeout: without it a hook
that hangs keeps its permit for ever, and the model shows no less. `DiscoveryLoop`
has weak fairness of the daemon's cycle and none of signals or kills.
`DistillerContextLoop` has it of every thread; `SpeechNoticed` is conditional on
speech that goes on and a recorder that comes free, `TriggerShown` on a panel and on
an answer that is a text or none.

### What the violations show

1. `control_halt`: `stop_all` does not wait for the loop thread, which may dispatch
   the command it holds after the hardware was halted (`OneLateCommand`: at most one
   for each thread).
2. `detector_fixation`: a capture leaves `_fixation_start` set, so the second capture
   needs no fixation of its own.
3. `discovery_daemon`: the second scan that hears the same device, or the first one
   after a restart, waits for a lock that its own transaction holds, raises, and ends
   the daemon that comments say survives any one cycle.

Disagreements between the code and its documentation that were met while modelling,
and that the models contain as the code has them:

- core/orchestrator.py:255: `concurrent_triggers` limits the pipelines of one `run()`,
  not of the orchestrator (:124): a `run()` after `stop()` makes a new semaphore while
  older pipelines still execute, and `run_once` takes no permit.
- triggers/arbiter.py:152: an event that HIGHEST_CONFIDENCE holds within the cooldown
  is flushed only if another event follows after the cooldown (:76: the window "is held open until it expires, then emits winner").
  And a full pending list refuses the newest event, where the docstring of `max_pending` (:58) says the
  oldest is dropped.
- hal/action_chunk_buffer.py:119: the head of the queue is blended, where :88 speaks
  of the tail; and the blended steps are queued behind the rest (:124), so of steps
  A1 A2 A3 the first two come out, as parts of the new chunk's commands, after the third.
  `InOrder` holds of the commands' own ids.
- hal/action_chunk_buffer.py:108: "drop the oldest one", the docstring at :64 ("older
  chunks are dropped when exceeded") and tests/test_action_chunking.py:454 ("dropped
  (oldest first)"): `_pending_chunks` is emptied but never filled, so no chunk is ever
  dropped and the queue grows; `MergeKeepsCommands` would not hold of a buffer that drops.
- discovery/anomaly_detector.py:7, :185 and :197 and test_new_unknown_device_fires
  (tests/test_discovery.py:264) have a device never heard before reported as
  NEW_UNKNOWN_DEVICE. The daemon records a scan before it checks it, so the device is
  known by then and reported as KNOWN_DEVICE_APPEARED; NEW_UNKNOWN_DEVICE never comes.
- discovery/anomaly_detector.py:215: "infrastructure leaving is anomalous" stands at the
  test that excludes infrastructure from the departures. No device ever becomes infrastructure
  (`discovery_daemon`), so every departure is reported.
- CONTEXT_ENGINE_SPEC.md:229: a conflict takes 0.3 from the awareness level; the code
  takes 0.15 (context/context_builder.py:116, :136). With 0.3 the last clause of `LevelFair`
  would be false: two channels in conflict would count as limited coverage. And :94 says
  that sensors that disagree lower the level: one that contradicts another still adds 0.25 and
  costs 0.15, so two that disagree rank above one alone.
- context/context_builder.py:221: "more speakers than visible people or more than 1
  person difference"; one more speaker than people is no conflict (:223), and neither
  are two more people than speakers (:227).
- profiles/openglass.py:118 to 136 takes any marker for a photo's: a photo with a
  thumbnail, which the docstring of `_reassemble_jpeg` (:101, "a complete frame") does not
  think of, is never returned whole.
- distiller_context_loop.py:201: `_post_to_gateway` is declared to return a text or
  None, but returns any JSON value that "response" has; the handler raises on a number (:188)
  and the trigger gets no card.
- core/pipeline.py:126: the first HAL that raises in `stop()` keeps the rest up, where
  :118 promises a best effort.
- hal/rayban_server.py:88: the comment says "drop oldest", a full queue drops the newest.
- core/multi_device.py:162: "all mutations are protected by an internal lock": there
  is none around the test and write of `register`.

## 4. Proofs

Every safety invariant and every action property that a passing run checks is a
theorem, for every value of the constants that satisfies the assumptions of the
module that declares them. TLC evaluates those assumptions in the runs. They say that
bounds and durations are natural numbers, that a stand-in for `None` is none of the
things it stands in for, that some sets are finite, and in four places something
about the code's data, with the line that justifies it in the module: a packet over
Wi-Fi has a body of at least one byte (`WifiAssumption`), a payload over the Pi's BLE
link and a photo of the OpenGlass have at least one chunk and two pieces
(`BleAssumption`, `PhotoAssumption`), the manifest gives every signature a
confidence (`DiscoverAssumption`), and the entities of the world model include those
the loop observes (`LoopAssumption`).

Each theorem comes from an inductive invariant, whose name is given below; TLC
checked it, or its conjuncts, on the instances of the runs before it was proved. Where
a property has a condition, such as `~overlap`, its variable once set stays so until
the component starts afresh (a new connection, a new first pose), if ever; the
invariant then says nothing until that start, which establishes it again.

The bounds that keep the instances of the runs small (`MaxTime`, `MaxFrames`, ...) are
constants like the others: the theorems hold for every value of them, so for every
finite run of the system without them.

`HalOrchestratorProofs`, over `IInv /\ TaskInv`:

- `TypeCorrect`: `Spec => []TypeOK`.
- `PermitsNeverLost`: `Spec => []PermitsAccounted`. By itself this is not inductive:
  when a task takes or returns a permit one must know that its semaphore exists and
  that a task names one from when it queues. The invariant is
  `IInv == TypeOK /\ SemaphoreInv /\ PermitsAccounted`. A step of a task either keeps
  it among the holders of its semaphore (then neither side changes), or adds it
  (`Acquire`) or takes it away (`Become` with a finished task), which changes the
  cardinality by one as the permits change by one.
- `ConcurrencyBounded`: at most `concurrent_triggers` pipelines of one `run()` execute
  at a time, a corollary.
- `PacketsDeliveredOnce`: `Spec => []AtMostOneDelivery`. `Once` says that a packet that
  was accepted is behind its pipeline, which displays or is in ACTUATE or RESPONSE: no
  stage after TRANSPORT leads back to a transport.
- `NoHookLeftOut`: `Spec => []StageHooksComplete`. `OwedAhead` says that the hooks
  owed to a stage stand at or behind the iterator, or are the one awaited. The step
  that needs an argument is `remove_hook` (`AheadOfRemoved`): it shifts what stands
  behind the removed element, and because `list.remove` takes the first of its value,
  a hook owed that is still in the list is still ahead, unless the element removed
  stood in front of the iterator, which is the excuse.

`TriggerArbiterProofs`, over `ArbiterInv`:

- `ArbiterDeduplicates`: `Spec => Deduplicates`, the refinement of `TriggerDedup`.
  `ArbiterInv` says that what is pending or was emitted was pushed, that the timers
  that were not cancelled have deadlines a window apart (`TimersApart`, because a
  timer is started only outside the cooldown and cancels the one before), and that a
  timer still to flush is due a window after the last emission was (`TimerTimes`).
  `Prompt` is what makes the order of two waiting timers the order of their deadlines.

`TriggersProofs`:

- `DetectorTypeCorrect`, and `WakesStayApart` (`WakesApart`): by
  `lastHeartbeat = wokenAt`, since the time is recorded exactly when the call is made.
- `GesturesAreWhole` (`WholeGesture`), over `GestureInv`: while nothing was captured
  since the last reset, the detector's own starts are the history's (the fixation
  start, if it is set, is no earlier than the beginning of the stillness, and the state
  SACCADE means that a long enough saccade was seen).  The code's lines 92 to 96, which
  reset both starts, are what the argument needs; without them it is `FixationHeld`,
  which fails.
- `VoiceTypeCorrect`, `OneTriggerAfterStop` (`OneLateTrigger`) and `TriggersApart`
  (`CooldownHolds`), over `VoiceInv`. As long as one thread lives (`OneLive`), what it
  has read of `_state` is still true when it decides, a late trigger is behind the
  point where it could fire again (`LateInv`), and the state says how long ago the
  last trigger was (`StateInv`): IDLE and DETECTING only after a cooldown, because
  only the cooldown leads to them from TRIGGERED.

`ControlLoopProofs`, over `IInv`:

- `ControlTypeCorrect`.
- `StopTakesEffect` (`OneLateCommand`): `LateInv` says that a thread that dispatched
  since the flag was cleared is past its `get` and dispatch, and the flag still down.
- `StopDiscardsCommands` (`StopDiscards`).
- `BufferIsFaithful` (`CommandsFaithful`), from `BufferInv`: the queue is sorted by
  chunk and step (`Sorted`), the last command taken is before all of it (`LastBefore`),
  what is in it comes from chunks that were merged (`Merges`), and no two of its commands
  share a step (`Disjoint`), for which `OneEachSide` shows that a merge puts each old step
  in one place. The lemmas compute `Merged` position
  by position: the head that is blended, what follows of the new chunk, what is cut.

`EmbodimentSDKProofs`, over `IInv == ListenerInv /\ SdkInv`:

- `SdkTypeCorrect`; `ResponsesFindHals` (`ListenerNeedsHals`), since `start` initialises
  the HALs in `StartOrder`, registers when all are up (`StartInv`), and `stop`
  deregisters before it shuts the first one down (`ActiveInv`).
- `EveryCallbackReached` (`CallbacksReached`): the callbacks still owed stand in the
  copy at or behind the iterator (`OwedInList`).
- `JoinedThreadReadsNoDeadImu` (`NoReadAfterShutdown`, the half of `StopHolds` that is
  about steps): a thread the application still has a handle of is at the start of a
  read only while `stop` has not come to the HALs (`ReadInv`), because the join gives
  up only on a thread that is inside a call.

`DiscoveryLoopProofs`, over `LoopInv`:

- `WorldTracksEntities` (of `WorldSpec`: for any updates) and `DaemonTracksEntities` (of
  the daemon's): every entity observed is in exactly one of the two dictionaries, in
  the active one while its confidence is above the floor. The second needs `ClockInv`:
  no update is older than the one before.
- `DiscoveryTypeCorrect`; `NoAnomalyLeftOut` (`AnomaliesReported`) by `ReportInv`: only
  between a check and the report it asks for is there an anomaly that no report has taken.
- `PresenceIsExact` (`PresenceReported`) by `PresenceInv`: the scan compared with is
  the one checked before, and every device of it has a row by then, since a scan is
  recorded before it is checked and rows are never deleted; and by `NoInfrastructure`: the
  scan that would make a device infrastructure is not recorded.

`LinksProofs`:

- `StatisticsKept` (`StatsKept`), over `StatsInv`: the window exceeds its size by no
  more than the threads between their append and their pop, and the counters report no
  failure too many. Each thread's place counts: a thread that has read a counter holds
  a value no greater than the failures there were.
- `SuccessIsReached` (`SuccessReached`), over `ReachedInv`.
- `FilesAreOwned` (`FileOwned`), over `SttInv`: where a call is says whether its file is
  there and whether its child may run.
- `LoadedMeansLoaded` (`LoadedHasModel`), over `MlxInv`: an unload that met nobody is
  alone, so what a load has stored stays, and each thread holds what its place implies.
- `ProperIsReassembled` (`Reassembly`), over `FragmenterInv`: a buffer holds of a proper
  message only chunks that came, within the timeout of the buffer's creation, each paid
  for by an arrival more than there were returns, and never all of them (`NotFull`);
  the last is stronger than `NothingStuck`, which follows from it by counting.
- `ReceiveIsInStep` (`InStep`), over `WifiInv`: until a receive gives up with cells
  read, what is in the stream is the rest of the current body, then whole frames of the
  packets that follow (`Aligned`, `FramesAfter`). Where the frames lie is a function from
  packets to positions; a send extends it and a read shifts it.
- `RoutesAreExact` (`RouteExact`), over `FleetInv`: the dict has one handle for an id
  (`OneEntry`), what a walk chose has ids that differ and could take the response; devices active throughout (`always`) are among
  the active, those among the ones ever active; and the passes and slots behind the
  walk are covered, unless the registry was written to.

`DevicesProofs`:

- `AudioKeepsOrder` (`AudioInOrder`), over `MicInv`: frames given, collected and
  buffered follow one another in that order, and the one thread that polls holds the
  newest frame until it is put away, through the refused put and the get that makes room.
- `CallbackHearsState` (`StateTold`), over `TransportInv`: of the calls, one is under
  way; what it is about to tell is the state it has assigned, and the link goes only
  when the state is about to.
- `OneSoundAtATime` (`OneSound`), over `AudioInv`: a thread that lives is the one in
  `_thread`; none does when `play()` is about to start the next.
- `CallbacksWatched` (`Watched`), over `HealthInv`: who registered has found a monitor
  that goes on or waits for the start of one, and whoever starts one cleared the event.
- `SendsAreWhole` (`SendWhole`), over `BleInv`: a coroutine has written as many chunks
  as it counts; one that is alone wrote the last chunk there is; a disconnect has its
  caller, and a CONNECTED that is not true is about to change.
- `NoMovementLost` (`MotionConserved`), over `MotionInv`: the sums balance at the last
  pose, and between the two assignments of a sample at the pose it is about to store; on
  the OAK-D they begin again at a frame that could not be compared.
- `ReceiverKeepsItsWord` (`ReceiverSound`), over `IosInv`: a post is in one place until it
  is answered or its connection closed, not yet applied before its handler has run and
  applied from then on, whatever becomes of the answer (`PostsInv`); and while the calls take turns only the thread in `_thread`
  lives (`ProfileInv`). An old "is shut down" event can end the wait of `stop()` only before
  the thread begins, and that thread then sees the request before it sees a post.
- `FeedsAreAccounted` (`FeedsKept`), over `FeedsInv`: every chunk is in one place and in
  one hand (`OnePlace`); with one connection sent, held and queued chunks follow one
  another.
- `PhotosAreWhole` (`PhotoWhole`), over `PhotoInv`: the buffer keeps the order of the
  glasses (`KeptInOrder`), only the first piece of a photo without a thumbnail has a
  start (`KeptPlain`), nothing kept is a frame already (`EndsNowhere`), and while nothing of
  the newest photo is lost the buffer begins with it and holds all that came of it (`Complete`).
  `Reassembled` computes the frame from the first start and the first end behind it.
- `BestProfileReturned` (`BestFound`), over `DiscoverInv`: nothing is found that is not
  there, and each score is between what was known when the scoring began and what is
  there, since a score grows with what is found (`ScoreGrows`).
- `LevelIsFair` (`LevelFair`): two functions of one step compared by cases; only the
  theorem covers all counts.

What stays with TLC alone is liveness under fairness, which this prover does not
reach: `RunsFinish`, `OpenEventAnswered`, `StopEnds`, `StopEndsLoops` (the other half of
`StopHolds`), `SessionsEnd`, `TriggersServed`.  So do the three violations: a
counterexample on a small instance is all they need.

## 5. Plan

Done: the modules above, and the safety properties as theorems. What would add most
from here:

1. Abstract specifications beside `TriggerDedup` that several modules implement, with
   the refinement proved: a lossy queue for the microphones and the headset feeds, a
   stoppable loop for `ControlLoop`, `EmbodimentSDK` and `AudioTrigger`.
2. The type invariants of the modules in `LinksProofs` and `DevicesProofs` as theorems
   of their own.
3. The single calls of cameras, displays and speakers, if they come to keep state, and
   `PiBleLink` with what the device notifies.

## 6. Not modelled

- `cli.py`, `validator.py`, errors and logging: sequential code that prints or
  declares.
- `core/context_builder.py` (one payload assembled from one reading of each sensor),
  `hal/ble_scanner.py` (one blocking scan, an input of `AutoDiscovery`),
  `frame_cloud_gate.py`: no state between calls.
- Cameras, displays, LEDs and speakers that make one call to the device, and
  everything below the HAL interface (SDKs of the devices).
- Encodings of bytes (`PacketSerializer`, image and audio formats), prompts, the
  wording of reports, cards and narratives.
- Operations nothing calls (`update_ble`, `update_activity` of the space model), the
  averages computed from the statistics window, the choice of HAL per response type.
