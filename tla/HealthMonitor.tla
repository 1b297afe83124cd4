---------------------------- MODULE HealthMonitor ----------------------------
(***************************************************************************)
(* hal/pi3_reference.py: PiSystemHealth.                                   *)
(*                                                                         *)
(* on_degraded() appends a callback to a list and starts the monitor if    *)
(* none is alive; shutdown() tells the monitor to end and joins it for two *)
(* seconds, while a round may take as long as the callbacks it makes.      *)
(* Nothing is locked: two calls may each find no monitor, and the monitor  *)
(* goes through the list while it grows.                                   *)
(***************************************************************************)
EXTENDS Naturals, Sequences, SequencesExt

CONSTANTS Registrars,  \* the threads that call on_degraded, each with a callback
          Monitors,    \* the threads that may be started
          NoMonitor,
          MaxRounds    \* bound on the degraded rounds

ASSUME HealthAssumption == NoMonitor \notin Monitors

VARIABLES callbacks,      \* _degraded_callbacks
          stopEvent,      \* _stop_event
          monitorThread,  \* _monitor_thread
          monitor,        \* _monitor_loop, per thread, and its place in the list
          registrar,      \* on_degraded
          shutdown,       \* shutdown()
          shut,           \* a shutdown has begun since the last on_degraded did
          healthCrossed,  \* on_degraded and shutdown ran at once, or a join timed out
          rounds          \* degraded rounds begun

healthVars == <<callbacks, stopEvent, monitorThread, monitor, registrar, shutdown, shut,
                healthCrossed, rounds>>

HealthInit == /\ callbacks = << >> /\ stopEvent = FALSE /\ monitorThread = NoMonitor
              /\ monitor = [m \in Monitors |-> [pc |-> "unborn", next |-> 1]]
              /\ registrar = [r \in Registrars |-> "out"]
              /\ shutdown = "out" /\ shut = FALSE /\ healthCrossed = FALSE /\ rounds = 0

Running == {m \in Monitors : monitor[m].pc \notin {"unborn", "dead"}}

-----------------------------------------------------------------------------
(* on_degraded, one thread.                                                *)

OnlyRegistrar == UNCHANGED <<shutdown, rounds>>

OnDegraded(r) ==
    /\ registrar[r] = "out" /\ ~Contains(callbacks, r)
    /\ callbacks' = Append(callbacks, r)
    /\ registrar' = [registrar EXCEPT ![r] = IF monitorThread \in Running THEN "done" ELSE "clear"]
    /\ shut' = (shutdown # "out") /\ healthCrossed' = (healthCrossed \/ shutdown # "out")
    /\ OnlyRegistrar /\ UNCHANGED <<stopEvent, monitorThread, monitor>>

\* Deliberate fault: the event stays set from the shutdown before.
ClearEvent_Not(r) == /\ registrar[r] = "clear"
                     /\ registrar' = [registrar EXCEPT ![r] = "start"]
                     /\ stopEvent' = stopEvent
                     /\ OnlyRegistrar /\ UNCHANGED <<callbacks, monitorThread, monitor, shut, healthCrossed>>

ClearEvent(r) == /\ registrar[r] = "clear"
                 /\ registrar' = [registrar EXCEPT ![r] = "start"]
                 /\ stopEvent' = FALSE
                 /\ OnlyRegistrar /\ UNCHANGED <<callbacks, monitorThread, monitor, shut, healthCrossed>>

StartMonitor(r, m) ==
    /\ registrar[r] = "start" /\ monitor[m].pc = "unborn"
    /\ registrar' = [registrar EXCEPT ![r] = "done"]
    /\ monitorThread' = m
    /\ monitor' = [monitor EXCEPT ![m].pc = "top"]
    /\ OnlyRegistrar /\ UNCHANGED <<callbacks, stopEvent, shut, healthCrossed>>

-----------------------------------------------------------------------------
(* shutdown.                                                               *)

SetStop == /\ shutdown = "out"
           /\ shutdown' = IF monitorThread = NoMonitor THEN "out" ELSE "join"
           /\ stopEvent' = TRUE /\ shut' = TRUE
           /\ healthCrossed' = (healthCrossed \/ \E r \in Registrars : registrar[r] \in {"clear", "start"})
           /\ UNCHANGED <<callbacks, monitorThread, monitor, registrar, rounds>>

JoinMonitor(timeout) == /\ shutdown = "join" /\ shutdown' = "out"
                        /\ timeout <=> monitorThread \in Running
                        /\ healthCrossed' = (healthCrossed \/ timeout)
                        /\ UNCHANGED <<callbacks, stopEvent, monitorThread, monitor, registrar, shut, rounds>>

-----------------------------------------------------------------------------
(* _monitor_loop.                                                          *)

OnlyMonitor == UNCHANGED <<callbacks, stopEvent, monitorThread, registrar, shutdown, shut, healthCrossed>>
MonitorGoes(m, from, to) == monitor[m].pc = from /\ monitor' = [monitor EXCEPT ![m].pc = to]

Ends(m) == /\ stopEvent /\ MonitorGoes(m, "top", "dead")
           /\ OnlyMonitor /\ UNCHANGED rounds

\* A round that finds nothing wrong, and the wait for the next one.
Report(m) == /\ ~stopEvent /\ MonitorGoes(m, "top", "wait")
             /\ OnlyMonitor /\ UNCHANGED rounds

Degraded(m) == /\ ~stopEvent /\ rounds < MaxRounds
               /\ monitor[m].pc = "top"
               /\ monitor' = [monitor EXCEPT ![m] = [pc |-> "tell", next |-> 1]]
               /\ rounds' = rounds + 1
               /\ OnlyMonitor

\* A callback may raise; the next one is called all the same.
Call(m) == /\ monitor[m].pc = "tell"
           /\ monitor' = IF monitor[m].next <= Len(callbacks)
                         THEN [monitor EXCEPT ![m].next = @ + 1]
                         ELSE [monitor EXCEPT ![m].pc = "wait"]
           /\ OnlyMonitor /\ UNCHANGED rounds

\* _stop_event.wait(check_interval_s).
Wakes(m) == /\ MonitorGoes(m, "wait", "top")
            /\ OnlyMonitor /\ UNCHANGED rounds

HealthNext == \/ SetStop \/ \E timeout \in BOOLEAN : JoinMonitor(timeout)
              \/ \E r \in Registrars : \/ OnDegraded(r) \/ ClearEvent(r)
                                       \/ \E m \in Monitors : StartMonitor(r, m)
              \/ \E m \in Monitors : Ends(m) \/ Report(m) \/ Degraded(m) \/ Call(m) \/ Wakes(m)

HealthSpec == HealthInit /\ [][HealthNext]_healthVars

-----------------------------------------------------------------------------
(* Properties.                                                             *)

\* Every variable keeps the values its comment names.
HealthTypeOK ==
    /\ callbacks \in Seq(Registrars) /\ monitorThread \in Monitors \cup {NoMonitor}
    /\ \A m \in Monitors : /\ monitor[m].pc \in {"unborn", "top", "tell", "wait", "dead"}
                           /\ monitor[m].next \in 1..(Len(callbacks) + 1)
    /\ registrar \in [Registrars -> {"out", "clear", "start", "done"}]
    /\ shutdown \in {"out", "join"} /\ rounds \in 0..MaxRounds

\* Once every on_degraded() has returned, the callbacks registered since the last
\* shutdown have a monitor that runs and will go on, however many threads
\* registered at once.  The exceptions are a
\* shutdown at the same time and one that gave up on a monitor: a callback
\* registered while that one ends is never called.
Watched ==
    /\ ~shut /\ ~healthCrossed
    /\ \E r \in Registrars : registrar[r] = "done"
    /\ \A r \in Registrars : registrar[r] \in {"out", "done"}
    => Running # {} /\ ~stopEvent

=============================================================================
