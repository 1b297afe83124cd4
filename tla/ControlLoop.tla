---------------------------- MODULE ControlLoop ----------------------------
(***************************************************************************)
(* The actuator HALs that execute chunks (Reachy2ActuatorHAL in            *)
(* hal/reachy2_reference.py, Go2ActuatorHal in profiles/unitree_go2.py):   *)
(* a control loop thread takes commands out of the chunk buffer and        *)
(* dispatches them, while the LLM's thread merges chunks and a supervisor  *)
(* thread starts the loop, stops it, and calls the emergency stop.         *)
(*                                                                         *)
(* self._control_loop_active is read and written without a lock; the       *)
(* buffer's operations are atomic under the buffer's.  An action is what   *)
(* a thread does up to the next access to either or to the hardware.       *)
(***************************************************************************)
EXTENDS ActionChunkBuffer

CONSTANTS
  Chunks,     \* the sequences of actions the LLM may send
  MaxStarts   \* bound on the number of control loop threads

Loop == 1 .. MaxStarts

ASSUME LoopAssumption ==
  /\ MaxStarts \in Nat
  /\ "stop_all" \in Action
  /\ Chunks \subseteq Seq(Action) \ {<<>>}

VARIABLES
  active,      \* self._control_loop_active
  loop,        \* where each loop thread is
  command,     \* the command a loop thread got and has not dispatched
  starts,      \* how many loop threads were started
  handle,      \* self._control_loop_thread, 0 for None
  supervisor,  \* where the supervisor is
  shutting,    \* it is in shutdown(), which goes on with stop_all()
  moving,      \* the hardware executes a motion
  halted,      \* history: an emergency stop completed since the last start
  late,        \* history: what each loop dispatched since the flag was cleared
  cleared      \* history: chunks merged before the buffer was last cleared
hostVars == <<active, loop, command, starts, handle, supervisor, shutting>>
vars == <<bufferVars, hostVars, moving, halted, late, cleared>>

\* The three steps of stop_all(), by the loop thread or by the supervisor.
Stopping == {"deactivate", "clear", "halt"}

Init ==
  /\ BufferInit
  /\ active = FALSE
  /\ loop = [l \in Loop |-> "unstarted"]
  /\ command = [l \in Loop |-> NoCommand]
  /\ starts = 0
  /\ handle = 0
  /\ supervisor = "idle"
  /\ shutting = FALSE
  /\ moving = FALSE
  /\ halted = FALSE
  /\ late = [l \in Loop |-> 0]
  /\ cleared = 0

----------------------------------------------------------------------------
(* The LLM's thread.                                                       *)

ExecuteChunk ==
  /\ \E actions \in Chunks : Merge(actions)
  /\ UNCHANGED <<hostVars, moving, halted, late, cleared>>

----------------------------------------------------------------------------
(* The control loop thread.                                                *)

\* Deliberate fault: the loop does not look at the flag.
CheckActive_Unconditional(l) ==
  /\ loop[l] = "check"
  /\ loop' = [loop EXCEPT ![l] = "get"]
  /\ UNCHANGED <<bufferVars, active, command, starts, handle, supervisor, shutting,
                 moving, halted, late, cleared>>

CheckActive(l) ==
  /\ loop[l] = "check"
  /\ loop' = [loop EXCEPT ![l] = IF active THEN "get" ELSE "exited"]
  /\ UNCHANGED <<bufferVars, active, command, starts, handle, supervisor, shutting,
                 moving, halted, late, cleared>>

\* On an empty queue get() returns the last command again, or None.
GetCommand(l) ==
  /\ loop[l] = "get"
  /\ \/ Pop /\ command' = [command EXCEPT ![l] = Head(queue)]
     \/ PopNothing /\ command' = [command EXCEPT ![l] = Held]
  /\ loop' = [loop EXCEPT ![l] = IF command'[l] = NoCommand THEN "check" ELSE "dispatch"]
  /\ UNCHANGED <<active, starts, handle, supervisor, shutting, moving, halted, late, cleared>>

\* execute(): the command is stop_all, or something reaches the hardware.
Dispatch(l) ==
  /\ loop[l] = "dispatch"
  /\ IF command[l].action = "stop_all"
     THEN loop' = [loop EXCEPT ![l] = "deactivate"] /\ UNCHANGED moving
     ELSE loop' = [loop EXCEPT ![l] = "check"] /\ moving' = TRUE
  /\ command' = [command EXCEPT ![l] = NoCommand]
  /\ late' = [late EXCEPT ![l] = IF active THEN @ ELSE @ + 1]
  /\ UNCHANGED <<bufferVars, active, starts, handle, supervisor, shutting, halted, cleared>>

----------------------------------------------------------------------------
(* stop_all(), in three steps whoever calls it.                            *)

Deactivate ==
  /\ active' = FALSE
  /\ late' = IF active THEN [l \in Loop |-> 0] ELSE late
  /\ UNCHANGED <<bufferVars, moving, halted, cleared>>

\* Deliberate fault: the buffer keeps its commands.
ClearBuffer_Kept ==
  cleared' = merges /\ UNCHANGED <<bufferVars, active, moving, halted, late>>

ClearBuffer ==
  Clear /\ cleared' = merges /\ UNCHANGED <<active, moving, halted, late>>

\* StopMove, or turn_off of every joint.
HaltHardware ==
  moving' = FALSE /\ halted' = TRUE /\ UNCHANGED <<bufferVars, active, late, cleared>>

\* One step of stop_all() by a thread at `at`, which is at `next` after it.
StopStep(at, next) ==
  \/ at = "deactivate" /\ next = "clear" /\ Deactivate
  \/ at = "clear" /\ next = "halt" /\ ClearBuffer
  \/ at = "halt" /\ next \notin Stopping /\ HaltHardware

LoopStops(l) ==
  \E next \in Stopping \cup {"check"} :
    /\ StopStep(loop[l], next)
    /\ loop' = [loop EXCEPT ![l] = next]
    /\ UNCHANGED <<command, starts, handle, supervisor, shutting>>

SupervisorStops ==
  \E next \in Stopping \cup {"idle"} :
    /\ StopStep(supervisor, next)
    /\ supervisor' = next
    /\ shutting' = (shutting /\ next # "idle")
    /\ UNCHANGED <<loop, command, starts, handle>>

----------------------------------------------------------------------------
(* The supervisor.                                                         *)

StartControlLoop ==
  /\ supervisor = "idle"
  /\ ~active
  /\ starts < MaxStarts
  /\ starts' = starts + 1
  /\ handle' = starts + 1
  /\ loop' = [loop EXCEPT ![starts + 1] = "check"]
  /\ active' = TRUE
  /\ halted' = FALSE
  /\ late' = [l \in Loop |-> 0]
  /\ UNCHANGED <<bufferVars, command, supervisor, shutting, moving, cleared>>

StopAll ==
  /\ supervisor = "idle"
  /\ supervisor' = "deactivate"
  /\ UNCHANGED <<bufferVars, active, loop, command, starts, handle, shutting,
                 moving, halted, late, cleared>>

\* stop_control_loop(), by itself or as the first half of shutdown().
StopControlLoop ==
  /\ supervisor = "idle"
  /\ supervisor' = "joining"
  /\ shutting' \in BOOLEAN
  /\ Deactivate
  /\ UNCHANGED <<loop, command, starts, handle>>

\* join(timeout=2.0) returns when the thread exited, or in mid-command.
JoinReturns ==
  /\ supervisor = "joining"
  /\ handle # 0 => loop[handle] \in {"exited", "dispatch"} \cup Stopping
  /\ handle' = 0
  /\ supervisor' = "joined"
  /\ UNCHANGED <<bufferVars, active, loop, command, starts, shutting,
                 moving, halted, late, cleared>>

AfterJoin ==
  /\ supervisor = "joined"
  /\ supervisor' = IF shutting THEN "deactivate" ELSE "idle"
  /\ ClearBuffer
  /\ UNCHANGED <<loop, command, starts, handle, shutting>>

----------------------------------------------------------------------------
LoopStep(l) == CheckActive(l) \/ GetCommand(l) \/ Dispatch(l) \/ LoopStops(l)
SupervisorStep == JoinReturns \/ AfterJoin \/ SupervisorStops

Next ==
  \/ ExecuteChunk
  \/ \E l \in Loop : LoopStep(l)
  \/ StartControlLoop \/ StopAll \/ StopControlLoop
  \/ SupervisorStep

(***************************************************************************)
(* Threads run, and a hardware call returns or raises.  Nothing makes the  *)
(* LLM send chunks or the supervisor call anything.                        *)
(***************************************************************************)
Fairness == (\A l \in Loop : WF_vars(LoopStep(l))) /\ WF_vars(SupervisorStep)

Spec == Init /\ [][Next]_vars /\ Fairness

----------------------------------------------------------------------------
TypeOK ==
  /\ BufferTypeOK
  /\ active \in BOOLEAN /\ shutting \in BOOLEAN /\ moving \in BOOLEAN /\ halted \in BOOLEAN
  /\ loop \in [Loop -> {"unstarted", "exited", "check", "get", "dispatch"} \cup Stopping]
  /\ command \in [Loop -> Command \cup {NoCommand}]
  /\ starts \in 0 .. MaxStarts /\ handle \in 0 .. starts
  /\ supervisor \in {"idle", "joining", "joined"} \cup Stopping
  /\ late \in [Loop -> Nat] /\ cleared \in 0 .. merges

(* A stop takes effect within one command: after the flag is cleared, and  *)
(* until the loop is started again, each loop thread dispatches at most    *)
(* the one command it was about to.                                        *)
OneLateCommand == \A l \in Loop : late[l] <= 1

(* A stop discards what was waiting: a command merged before the buffer    *)
(* was cleared is not taken out of it afterwards (the last command, which  *)
(* hold_on_empty repeats, was taken out before).                           *)
StopDiscards == \A i \in DOMAIN queue : queue[i].id[1] > cleared

(* After a stop, unless the loop is started again, every loop thread ends, *)
(* also when it is the loop itself that called stop_all.                   *)
LoopsEnd == ~active ~> (active \/ \A l \in Loop : loop[l] \in {"unstarted", "exited"})

(* stop_control_loop and shutdown return.                                  *)
StopsReturn == supervisor # "idle" ~> supervisor = "idle"

(* A stop comes to its end: its threads do, and the calls return.          *)
StopEnds == LoopsEnd /\ StopsReturn

(* stop_all: "Stop control loop first to prevent new commands              *)
(* dispatching", so the hardware does not move again until the loop is     *)
(* started again.                                                          *)
EmergencyStopHolds == halted => ~moving
============================================================================
