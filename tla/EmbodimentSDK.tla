--------------------------- MODULE EmbodimentSDK ---------------------------
(***************************************************************************)
(* core/pipeline.py: the thread-based SDK.  The application starts and     *)
(* stops it; each start() creates a thread that reads the IMU and handles  *)
(* a trigger from capture to display; agent responses come in meanwhile    *)
(* (AgentResponseListener).  self._run is read and written without a lock. *)
(*                                                                         *)
(* An action is one HAL call or one application callback with what the     *)
(* thread does up to the next.  Abstracted: samples and payloads; the      *)
(* lists of trigger and response callbacks are one call each, which may    *)
(* raise.  External: the HALs, of which only up and down are kept.         *)
(***************************************************************************)
EXTENDS AgentResponseListener

CONSTANTS
  NumTransports,  \* len(registry.transports)
  MaxStarts,      \* bound on the number of loop threads
  Setups          \* the registries and applications to consider

ASSUME SDKAssumption ==
  /\ NumTransports \in Nat \ {0} /\ MaxStarts \in Nat
  /\ \A c \in Setups :
       /\ c.hals \subseteq {"microphone", "classifier", "display"}  \* optional, in the registry
       /\ c.starts \in 0 .. MaxStarts   \* how often a loop thread is started
       /\ c.responses \subseteq Response \* what the agent sends
       /\ c.handlers \subseteq Handler  \* what is registered with the listener and removed

Loop == 1 .. MaxStarts

VARIABLES
  setup,      \* the registry and the application
  run,        \* self._run
  starts,     \* how many loop threads were created
  handle,     \* self._thread, 0 for None
  loop,       \* where each loop thread is
  tx,         \* the transport a loop thread tries
  up,         \* the HALs that are initialised
  app,        \* what the application's thread does
  step        \* how far it is in StartOrder or StopOrder
sdkVars == <<setup, run, starts, handle, loop, tx, up, app, step>>
vars == <<listenerVars, sdkVars>>

\* The HALs start() initialises and those stop() shuts down, in order.
Transports == [i \in 1 .. NumTransports |-> <<"transport", i>>]
If(hal) == IF hal \in setup.hals THEN << <<hal, 1>> >> ELSE <<>>
StartOrder == << <<"imu", 1>>, <<"camera", 1>> >> \o If("microphone") \o If("display") \o Transports
StopOrder == If("microphone") \o << <<"camera", 1>>, <<"imu", 1>> >> \o Transports \o If("display")
Managed == ToSet(StartOrder)

InCall == {"reading", "camera", "microphone", "classifier", "transport",
           "triggered", "display", "responded"}

Init ==
  /\ ListenerInit
  /\ setup \in Setups
  /\ run = FALSE /\ starts = 0 /\ handle = 0
  /\ loop = [l \in Loop |-> "unstarted"]
  /\ tx = [l \in Loop |-> 1]
  /\ up = {} /\ app = "idle" /\ step = 1

----------------------------------------------------------------------------
(* start().  Nothing keeps it from being called when the SDK runs.         *)

CallStart ==
  /\ app = "idle" /\ starts < setup.starts
  /\ app' = "starting" /\ step' = 1
  /\ UNCHANGED <<listenerVars, setup, run, starts, handle, loop, tx, up>>

InitializeHal ==
  /\ app = "starting" /\ step <= Len(StartOrder)
  /\ up' = up \cup {StartOrder[step]}
  /\ step' = step + 1
  /\ UNCHANGED <<listenerVars, setup, run, starts, handle, loop, tx, app>>

\* initialize, connect or start_recording raises: the HALs before it stay up.
InitializeRaises ==
  /\ app = "starting" /\ step <= Len(StartOrder)
  /\ app' = "idle"
  /\ UNCHANGED <<listenerVars, setup, run, starts, handle, loop, tx, up, step>>

RegisterListener ==
  /\ app = "starting" /\ step = Len(StartOrder) + 1
  /\ Register
  /\ app' = "threading"
  /\ UNCHANGED <<handlers, event, setup, run, starts, handle, loop, tx, up, step>>

StartThread ==
  /\ app = "threading"
  /\ run' = TRUE
  /\ starts' = starts + 1 /\ handle' = starts + 1
  /\ loop' = [loop EXCEPT ![starts + 1] = "check"]
  /\ app' = "idle"
  /\ UNCHANGED <<listenerVars, setup, tx, up, step>>

----------------------------------------------------------------------------
(* stop().                                                                 *)

CallStop ==
  /\ app = "idle"
  /\ run' = FALSE
  /\ app' = "joining" /\ step' = 1
  /\ UNCHANGED <<listenerVars, setup, starts, handle, loop, tx, up>>

\* Deliberate fault: stop() does not wait for the thread.
Join_NoWait ==
  /\ app = "joining"
  /\ app' = "deregistering"
  /\ UNCHANGED <<listenerVars, setup, run, starts, handle, loop, tx, up, step>>

\* join(timeout=1.0): the thread ended, or a call it makes takes longer.
Join ==
  /\ app = "joining"
  /\ handle # 0 => loop[handle] \in {"exited", "dead"} \cup InCall
  /\ app' = "deregistering"
  /\ UNCHANGED <<listenerVars, setup, run, starts, handle, loop, tx, up, step>>

\* Deliberate fault: the listener stays registered.
DeregisterListener_Kept ==
  /\ app = "deregistering"
  /\ app' = "stopping"
  /\ UNCHANGED <<listenerVars, setup, run, starts, handle, loop, tx, up, step>>

DeregisterListener ==
  /\ app = "deregistering"
  /\ Deregister
  /\ app' = "stopping"
  /\ UNCHANGED <<handlers, event, setup, run, starts, handle, loop, tx, up, step>>

ShutdownHal ==
  /\ app = "stopping" /\ step <= Len(StopOrder)
  /\ up' = up \ {StopOrder[step]}
  /\ step' = step + 1
  /\ UNCHANGED <<listenerVars, setup, run, starts, handle, loop, tx, app>>

\* stop_recording or shutdown raises, and so does stop(): the rest stays up.
ShutdownRaises ==
  /\ app = "stopping" /\ step <= Len(StopOrder)
  /\ app' = "stopped"
  /\ UNCHANGED <<listenerVars, setup, run, starts, handle, loop, tx, up, step>>

StopReturns ==
  /\ app = "stopping" /\ step > Len(StopOrder)
  /\ app' = "stopped"
  /\ UNCHANGED <<listenerVars, setup, run, starts, handle, loop, tx, up, step>>

\* The application goes on.
GoOn ==
  /\ app = "stopped"
  /\ app' = "idle"
  /\ UNCHANGED <<listenerVars, setup, run, starts, handle, loop, tx, up, step>>

----------------------------------------------------------------------------
(* The loop thread.                                                        *)

Move(l, pc) ==
  /\ loop' = [loop EXCEPT ![l] = pc]
  /\ tx' = [tx EXCEPT ![l] = 1]
  /\ UNCHANGED <<listenerVars, setup, run, starts, handle, up, app, step>>

CheckRun(l) == loop[l] = "check" /\ Move(l, IF run THEN "read" ELSE "exited")

ReadSample(l) == loop[l] = "read" /\ Move(l, "reading")

\* No sample, or one that makes the detector emit nothing; or a trigger.
SampleRead(l) == loop[l] = "reading" /\ (Move(l, "check") \/ Move(l, "camera"))

\* After the capture the payload is serialised, which may raise.
Send(l) == Move(l, "transport") \/ Move(l, "dead")

CameraReturns(l) ==
  /\ loop[l] = "camera"
  /\ IF "microphone" \in setup.hals THEN Move(l, "microphone")
     ELSE IF "classifier" \in setup.hals THEN Move(l, "classifier") ELSE Send(l)

MicrophoneReturns(l) ==
  /\ loop[l] = "microphone"
  /\ IF "classifier" \in setup.hals THEN Move(l, "classifier") ELSE Send(l)

\* A frame that is not "interesting" ends the trigger.
Classified(l) == loop[l] = "classifier" /\ (Send(l) \/ Move(l, "check"))

SendFails(l) ==
  /\ loop[l] = "transport"
  /\ IF tx[l] < NumTransports
     THEN /\ tx' = [tx EXCEPT ![l] = @ + 1]
          /\ UNCHANGED <<listenerVars, setup, run, starts, handle, loop, up, app, step>>
     ELSE Move(l, "triggered")

SendSucceeds(l) == loop[l] = "transport" /\ Move(l, "triggered")

TriggerCallbacks(l) ==
  /\ loop[l] = "triggered"
  /\ Move(l, IF "display" \in setup.hals THEN "display" ELSE "responded")

\* A trigger or response callback calls stop(): the flag is cleared, and then
\* a thread that joins itself gets a RuntimeError.
CallbackStops(l) ==
  /\ loop[l] \in {"triggered", "responded"}
  /\ l = handle
  /\ run' = FALSE
  /\ loop' = [loop EXCEPT ![l] = "dead"]
  /\ UNCHANGED <<listenerVars, setup, starts, handle, tx, up, app, step>>

DisplayReturns(l) == loop[l] = "display" /\ Move(l, "responded")
ResponseCallbacks(l) == loop[l] = "responded" /\ Move(l, "check")

\* Nothing catches an exception: the thread is gone, self._run unchanged.
CallRaises(l) == loop[l] \in InCall /\ Move(l, "dead")

----------------------------------------------------------------------------
TriggerStep(l) ==
  \/ SampleRead(l) \/ CameraReturns(l) \/ MicrophoneReturns(l) \/ Classified(l)
  \/ SendFails(l) \/ SendSucceeds(l)
  \/ TriggerCallbacks(l) \/ DisplayReturns(l) \/ ResponseCallbacks(l) \/ CallRaises(l)
LoopStep(l) == CheckRun(l) \/ ReadSample(l) \/ TriggerStep(l)

AppStep ==
  \/ InitializeHal \/ InitializeRaises \/ RegisterListener \/ StartThread
  \/ Join \/ DeregisterListener \/ ShutdownHal \/ ShutdownRaises \/ StopReturns \/ GoOn

ListenerStep ==
  /\ \/ \E c \in setup.handlers : AddCallback(c) \/ RemoveCallback(c)
     \/ \E r \in setup.responses : Arrive(r) \/ HandleEvent(r)
  /\ UNCHANGED sdkVars

Next ==
  \/ CallStart \/ CallStop \/ AppStep
  \/ \E l \in Loop : LoopStep(l) \/ CallbackStops(l)
  \/ ListenerStep

(***************************************************************************)
(* Threads run, and HAL calls and callbacks return or raise.  Nothing      *)
(* makes the application call start or stop, or the agent respond.         *)
(***************************************************************************)
Fairness ==
  /\ \A l \in Loop : WF_vars(LoopStep(l))
  /\ WF_vars(AppStep)

Spec == Init /\ [][Next]_vars /\ Fairness

----------------------------------------------------------------------------
TypeOK ==
  /\ ListenerTypeOK
  /\ setup \in Setups
  /\ run \in BOOLEAN /\ starts \in 0 .. MaxStarts /\ handle \in 0 .. starts
  /\ loop \in [Loop -> {"unstarted", "check", "read", "exited", "dead"} \cup InCall]
  /\ tx \in [Loop -> 1 .. NumTransports]
  /\ up \subseteq Managed
  /\ app \in {"idle", "starting", "threading", "joining", "deregistering", "stopping", "stopped"}
  /\ step \in 1 .. Len(StartOrder) + 1

(* The listener accepts responses only while every HAL that start()        *)
(* initialises is up: it is registered last and deregistered first, also   *)
(* when start() is called twice or fails half-way, or stop() does.         *)
ListenerNeedsHals == active => up = Managed

(* The thread stop() joins never begins to read an IMU that is shut down,  *)
(* although join gives up after a second.  (A thread an earlier start()    *)
(* left behind may: nobody joins it.)                                      *)
NoReadAfterShutdown ==
  [][\A l \in Loop : (l = handle /\ loop[l] = "read" /\ loop'[l] = "reading")
       => <<"imu", 1>> \in up]_vars

(* After the flag is cleared, by stop() or in a callback, and unless       *)
(* start() sets it again, every loop thread comes to an end.               *)
StopEndsLoops ==
  ~run ~> (run \/ \A l \in Loop : loop[l] \in {"unstarted", "exited", "dead"})

(* A stop holds: no IMU is read after it is shut down, and no loop thread  *)
(* goes on for ever.                                                       *)
StopHolds == NoReadAfterShutdown /\ StopEndsLoops
============================================================================
