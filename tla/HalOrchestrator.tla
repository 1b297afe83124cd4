-------------------------- MODULE HalOrchestrator --------------------------
(***************************************************************************)
(* core/orchestrator.py: the asyncio pipeline of the SDK.  run() polls the *)
(* IMU and schedules one task per trigger event; a task takes a permit of  *)
(* the semaphore that run() created, then executes the six stages.  Each   *)
(* stage iterates over a hook list that add_hook and remove_hook may       *)
(* change at every await of the task.                                      *)
(*                                                                         *)
(* asyncio runs one task at a time, so an action is what a task does       *)
(* between two awaits.  The head of the hook loop (pc = "stage") is a step *)
(* of its own: it reads only the hook list, and a change of that list just *)
(* before it is a change the task could have met at its last await.        *)
(*                                                                         *)
(* Abstracted: the IMU and the trigger detector (an event may be emitted   *)
(* at any poll), the payload's bytes, the latency hook that                *)
(* metrics_enabled prepends (it returns its data unchanged).               *)
(***************************************************************************)
EXTENDS Naturals, Sequences, FiniteSets, SequencesExt

CONSTANTS
  Event,               \* trigger events the detector can emit or run_once be given
  Hook, NoHook,        \* user hooks, and the absence of one
  MaxRuns,             \* bound on the number of calls of run()
  MaxHooks,            \* bound on the length of a stage's hook list
  ConcurrentTriggers,  \* config.concurrent_triggers
  NumTransports,       \* len(registry.transports)
  Setups               \* the configurations and applications to consider

Stage == {"TRIGGER", "CAPTURE", "CLASSIFY", "TRANSPORT", "ACTUATE", "RESPONSE"}
Policy == {"continue", "abort", "retry"}
Run == 1 .. MaxRuns

ASSUME EventAssumption == IsFiniteSet(Event)
ASSUME HookAssumption == NoHook \notin Hook
ASSUME BoundsAssumption ==
  /\ MaxRuns \in Nat /\ MaxHooks \in Nat /\ NumTransports \in Nat
  /\ ConcurrentTriggers \in Nat \ {0}
ASSUME SetupAssumption ==
  \A c \in Setups :
    /\ c.error_policy \in Policy
    /\ c.retry_count \in Nat
    /\ c.timeout \in BOOLEAN                                  \* stage_timeout_ms # 0
    /\ c.hooks \in [Stage -> Seq(Hook)]                       \* built by the constructor
    /\ c.hals \subseteq {"microphone", "classifier", "display"} \* optional, in the registry
    /\ c.changes \subseteq Stage \X Hook  \* what add_hook and remove_hook are called with
    /\ c.runs \in 0 .. MaxRuns            \* how often run() is called
    /\ c.once \subseteq Event             \* what run_once is called with

VARIABLES
  config,    \* the setup: OrchestratorConfig, registry, application
  running,   \* self._running
  loop,      \* where the loop of each call of run() is
  current,   \* how many times run() was called: self._semaphore is the last one's
  permits,   \* the value of the semaphore of each call of run()
  waiters,   \* tasks waiting for that semaphore, in the order they arrived
  hooks,     \* self._hooks
  task       \* the pipeline task of each event
vars == <<config, running, loop, current, permits, waiters, hooks, task>>
loopVars == <<running, loop, current>>

(***************************************************************************)
(* A task: where it is, the stage it is in, the next element of the list   *)
(* it iterates over (hooks or transports), the hook it awaits and how      *)
(* often that hook failed, the semaphore it uses (0 for run_once), and     *)
(* three history fields: the transports that accepted the packet, the      *)
(* hooks registered ever since the stage began that have not run yet, and  *)
(* whether a timeout or a remove_hook made this stage pass one over.       *)
(***************************************************************************)
Polling  == {"reading", "sleeping"}
HalCalls == {"camera", "microphone", "classifier", "transport", "display"}
Executing == {"stage", "hook", "backoff"} \cup HalCalls
Finished == {"done", "rejected", "failed"}

Task == [pc : {"idle", "scheduled", "queued"} \cup Executing \cup Finished,
         stage : Stage, pos : Nat \ {0}, hook : Hook \cup {NoHook}, attempt : Nat,
         sem : 0 .. MaxRuns, accepted : SUBSET (Nat \ {0}),
         owed : SUBSET Hook, excused : BOOLEAN]

IdleTask == [pc |-> "idle", stage |-> "TRIGGER", pos |-> 1, hook |-> NoHook,
             attempt |-> 0, sem |-> 0, accepted |-> {}, owed |-> {}, excused |-> FALSE]

MaxAttempts == IF config.error_policy = "retry" THEN config.retry_count ELSE 1

\* The events whose task holds a permit of semaphore g.
Holders(g) == {e \in Event : task[e].sem = g /\ task[e].pc \in Executing}

Init ==
  /\ config \in Setups
  /\ running = FALSE
  /\ loop = [l \in Run |-> "unstarted"]
  /\ current = 0
  /\ permits = [g \in Run |-> 0]
  /\ waiters = [g \in Run |-> <<>>]
  /\ hooks = config.hooks
  /\ task = [e \in Event |-> IdleTask]

----------------------------------------------------------------------------
(* run(), stop() and the polling loop                                      *)

\* run() is called: a new semaphore, and a loop that ends only when it sees
\* self._running false.  A loop that an earlier stop() was to end may still
\* be at an await.
StartRun ==
  /\ current < config.runs
  /\ current' = current + 1
  /\ running' = TRUE
  /\ loop' = [loop EXCEPT ![current + 1] = "reading"]
  /\ permits' = [permits EXCEPT ![current + 1] = ConcurrentTriggers]
  /\ UNCHANGED <<config, waiters, hooks, task>>

\* read_sample returns and the detector emits nothing.
PollQuiet(l) ==
  /\ loop[l] = "reading"
  /\ loop' = [loop EXCEPT ![l] = "sleeping"]
  /\ UNCHANGED <<config, running, current, permits, waiters, hooks, task>>

\* The sample makes the detector emit e: ensure_future, whose task has not
\* looked at self._semaphore yet.
PollTrigger(l, e) ==
  /\ loop[l] = "reading"
  /\ task[e].pc = "idle"
  /\ loop' = [loop EXCEPT ![l] = "sleeping"]
  /\ task' = [task EXCEPT ![e].pc = "scheduled"]
  /\ UNCHANGED <<config, running, current, permits, waiters, hooks>>

\* asyncio.sleep ends and the loop reads self._running.
EndSleep(l) ==
  /\ loop[l] = "sleeping"
  /\ loop' = [loop EXCEPT ![l] = IF running THEN "reading" ELSE "exited"]
  /\ UNCHANGED <<config, running, current, permits, waiters, hooks, task>>

\* read_sample raises, or the coroutine is cancelled: the finally clause
\* clears self._running, whichever run() set it last.
LoopAborts(l) ==
  /\ loop[l] \in Polling
  /\ loop' = [loop EXCEPT ![l] = "exited"]
  /\ running' = FALSE
  /\ UNCHANGED <<config, current, permits, waiters, hooks, task>>

Stop ==
  /\ running
  /\ running' = FALSE
  /\ UNCHANGED <<config, loop, current, permits, waiters, hooks, task>>

----------------------------------------------------------------------------
(* add_hook and remove_hook                                                *)

AddHook(s, h) ==
  /\ Len(hooks[s]) < MaxHooks
  /\ hooks' = [hooks EXCEPT ![s] = Append(@, h)]
  /\ UNCHANGED <<config, loopVars, permits, waiters, task>>

\* list.remove takes the first h out.  A task iterating over the list keeps
\* its index, so if h stood before that index the element now there is one
\* the task will not look at.
RemoveHook(s, h) ==
  \E at \in DOMAIN hooks[s] :
    LET rest == RemoveAt(hooks[s], at)
        InStage(t) == t.stage = s /\ t.pc \in {"stage", "hook", "backoff"}
    IN /\ hooks[s][at] = h
       /\ \A i \in 1 .. at - 1 : hooks[s][i] # h
       /\ hooks' = [hooks EXCEPT ![s] = rest]
       /\ task' = [e \in Event |->
            IF InStage(task[e])
            THEN [task[e] EXCEPT !.owed = @ \cap ToSet(rest),
                                 !.excused = @ \/ at < task[e].pos]
            ELSE task[e]]
       /\ UNCHANGED <<config, loopVars, permits, waiters>>

----------------------------------------------------------------------------
(* The semaphore                                                           *)

\* The task starts: `async with self._semaphore` picks the semaphore of the
\* latest run().
Enqueue(e) ==
  /\ task[e].pc = "scheduled"
  /\ task' = [task EXCEPT ![e].pc = "queued", ![e].sem = current]
  /\ waiters' = [waiters EXCEPT ![current] = Append(@, e)]
  /\ UNCHANGED <<config, loopVars, permits, hooks>>

\* What a task is when it goes to `where`, and when it begins stage s.
Goto(t, where) == [t EXCEPT !.pc = where, !.pos = 1, !.hook = NoHook, !.attempt = 0,
                            !.owed = {}, !.excused = FALSE]

\* The task is over: only how it ended is remembered.
Ended(how) == [IdleTask EXCEPT !.pc = how]

\* Deliberate fault: the iteration begins after the first hook.
EnterStage_SkipsFirst(t, s) ==
  [Goto(t, "stage") EXCEPT !.stage = s, !.pos = 2, !.owed = ToSet(hooks[s])]

EnterStage(t, s) == [Goto(t, "stage") EXCEPT !.stage = s, !.owed = ToSet(hooks[s])]

\* asyncio.Semaphore serves its waiters in the order they came.
Acquire(e) ==
  LET g == task[e].sem
  IN /\ task[e].pc = "queued"
     /\ waiters[g] # <<>> /\ Head(waiters[g]) = e
     /\ permits[g] > 0
     /\ permits' = [permits EXCEPT ![g] = @ - 1]
     /\ waiters' = [waiters EXCEPT ![g] = Tail(@)]
     /\ task' = [task EXCEPT ![e] = EnterStage(@, "TRIGGER")]
     /\ UNCHANGED <<config, loopVars, hooks>>

\* run_once executes the pipeline outside the semaphore.
RunOnce(e) ==
  /\ e \in config.once
  /\ task[e].pc = "idle"
  /\ task' = [task EXCEPT ![e] = EnterStage(@, "TRIGGER")]
  /\ UNCHANGED <<config, loopVars, permits, waiters, hooks>>

\* Deliberate fault: a pipeline that ends with an exception keeps its permit.
Released_UnlessFailed(t, next) ==
  IF next.pc \in Finished \ {"failed"} /\ t.sem # 0
  THEN [permits EXCEPT ![t.sem] = @ + 1] ELSE permits

\* Leaving `async with` returns the permit, however the pipeline ended.
Released(t, next) ==
  IF next.pc \in Finished /\ t.sem # 0
  THEN [permits EXCEPT ![t.sem] = @ + 1] ELSE permits

\* The task of e executes up to its next await, where it is `next`.
Become(e, next) ==
  /\ task' = [task EXCEPT ![e] = next]
  /\ permits' = Released(task[e], next)
  /\ UNCHANGED <<config, loopVars, waiters, hooks>>

----------------------------------------------------------------------------
(* Stages: _run_stage and what _execute_pipeline does after each           *)

\* Serialising the payload raises if the capture is too large for a packet.
Serialize(t) == {EnterStage(t, "TRANSPORT"), Ended("failed")}

\* The pipeline after a stage that returned data.
AfterStage(t) ==
  CASE t.stage = "TRIGGER"   -> {Goto(t, "camera")}
    [] t.stage = "CAPTURE"   -> IF "classifier" \in config.hals THEN {EnterStage(t, "CLASSIFY")}
                                ELSE Serialize(t)
    [] t.stage = "CLASSIFY"  -> {Goto(t, "classifier")}
    [] t.stage = "TRANSPORT" -> {IF NumTransports > 0 THEN Goto(t, "transport")
                                 ELSE EnterStage(t, "ACTUATE")}
    [] t.stage = "ACTUATE"   -> {IF "display" \in config.hals THEN Goto(t, "display")
                                 ELSE EnterStage(t, "RESPONSE")}
    [] t.stage = "RESPONSE"  -> {Ended("done")}

\* The for loop takes the next hook; with retry_count = 0 it is never called.
NextHook(e) ==
  LET t == task[e] IN
  /\ t.pc = "stage"
  /\ t.pos <= Len(hooks[t.stage])
  /\ Become(e, IF MaxAttempts = 0
               THEN [t EXCEPT !.pos = @ + 1]
               ELSE [t EXCEPT !.pc = "hook", !.hook = hooks[t.stage][t.pos], !.pos = @ + 1])

LeaveStage(e) ==
  /\ task[e].pc = "stage"
  /\ task[e].pos > Len(hooks[task[e].stage])
  /\ \E next \in AfterStage(task[e]) : Become(e, next)

\* The awaited hook is settled: on to the next one.
Settled(t) == [t EXCEPT !.pc = "stage", !.owed = @ \ {t.hook}, !.hook = NoHook, !.attempt = 0]

HookReturns(e) ==
  /\ task[e].pc = "hook"
  /\ Become(e, Settled(task[e]))

\* None ends the run, except that the results of ACTUATE and RESPONSE are
\* not looked at.
HookReturnsNone(e) ==
  /\ task[e].pc = "hook"
  /\ \E next \in (IF task[e].stage \in {"ACTUATE", "RESPONSE"} THEN AfterStage(task[e])
                  ELSE {Ended("rejected")}) : Become(e, next)

\* An exception: try again after a pause, end the run, or go on with the data
\* the hook was given.
AfterRaise(t) ==
  IF config.error_policy = "retry" /\ t.attempt + 1 < MaxAttempts
  THEN [t EXCEPT !.pc = "backoff", !.attempt = @ + 1]
  ELSE IF config.error_policy = "abort" THEN Ended("failed") ELSE Settled(t)

HookRaises(e) ==
  /\ task[e].pc = "hook"
  /\ Become(e, AfterRaise(task[e]))

\* wait_for expires, or the hook raises a TimeoutError of its own: unless the
\* policy is abort the stage returns at once, without a retry and without the
\* hooks after this one.
HookTimesOut(e) ==
  /\ task[e].pc = "hook"
  /\ \E next \in (IF config.error_policy = "abort" THEN {Ended("failed")}
                  ELSE AfterStage(task[e])) : Become(e, next)

EndBackoff(e) ==
  /\ task[e].pc = "backoff"
  /\ Become(e, [task[e] EXCEPT !.pc = "hook"])

----------------------------------------------------------------------------
(* HAL calls in the executor                                               *)

CameraReturns(e) ==
  /\ task[e].pc = "camera"
  /\ Become(e, IF "microphone" \in config.hals THEN Goto(task[e], "microphone")
               ELSE EnterStage(task[e], "CAPTURE"))

MicrophoneReturns(e) ==
  /\ task[e].pc = "microphone"
  /\ Become(e, EnterStage(task[e], "CAPTURE"))

\* The gate: a frame that is not "interesting" ends the run.
Classified(e) ==
  /\ task[e].pc = "classifier"
  /\ \E next \in Serialize(task[e]) \cup {Ended("rejected")} : Become(e, next)

SendFails(e) ==
  LET t == task[e] IN
  /\ t.pc = "transport"
  /\ Become(e, IF t.pos < NumTransports THEN [t EXCEPT !.pos = @ + 1]
               ELSE EnterStage(t, "ACTUATE"))

\* Deliberate fault: no break after a transport accepted the packet.
SendSucceeds_NoBreak(e) ==
  LET t == [task[e] EXCEPT !.accepted = @ \cup {task[e].pos}] IN
  /\ t.pc = "transport"
  /\ Become(e, IF t.pos < NumTransports THEN [t EXCEPT !.pos = @ + 1]
               ELSE EnterStage(t, "ACTUATE"))

SendSucceeds(e) ==
  LET t == task[e] IN
  /\ t.pc = "transport"
  /\ Become(e, EnterStage([t EXCEPT !.accepted = @ \cup {t.pos}], "ACTUATE"))

DisplayReturns(e) ==
  /\ task[e].pc = "display"
  /\ Become(e, EnterStage(task[e], "RESPONSE"))

\* A HAL raises: no policy applies to it, and the pipeline ends.
HalRaises(e) ==
  /\ task[e].pc \in HalCalls
  /\ Become(e, Ended("failed"))

----------------------------------------------------------------------------
LoopStep(l) == PollQuiet(l) \/ (\E e \in Event : PollTrigger(l, e)) \/ EndSleep(l)
StageStep(e) == NextHook(e) \/ LeaveStage(e) \/ EndBackoff(e)
HookSettles(e) == HookReturns(e) \/ HookReturnsNone(e) \/ HookRaises(e) \/ HookTimesOut(e)
HalStep(e) == \/ CameraReturns(e) \/ MicrophoneReturns(e) \/ Classified(e)
              \/ SendFails(e) \/ SendSucceeds(e) \/ DisplayReturns(e) \/ HalRaises(e)

Next ==
  \/ StartRun \/ Stop
  \/ \E l \in Run : LoopStep(l) \/ LoopAborts(l)
  \/ \E c \in config.changes : AddHook(c[1], c[2]) \/ RemoveHook(c[1], c[2])
  \/ \E e \in Event : \/ Enqueue(e) \/ Acquire(e) \/ RunOnce(e)
                       \/ StageStep(e) \/ HookSettles(e) \/ HalStep(e)

(***************************************************************************)
(* The event loop runs every ready task, HAL calls return (each driver has *)
(* its own timeout), and wait_for bounds a hook when stage_timeout_ms is   *)
(* set.  Nothing makes a hook finish when it is not, and nothing makes the *)
(* application call run, stop or run_once.                                 *)
(***************************************************************************)
Fairness ==
  /\ \A l \in Run : WF_vars(LoopStep(l))
  /\ \A e \in Event :
       /\ WF_vars(Enqueue(e)) /\ WF_vars(Acquire(e))
       /\ WF_vars(StageStep(e)) /\ WF_vars(HalStep(e))
       /\ WF_vars(config.timeout /\ HookSettles(e))

Spec == Init /\ [][Next]_vars /\ Fairness

----------------------------------------------------------------------------
(* Type invariant: every field of a task and of the loops has its type.    *)
TypeOK ==
  /\ config \in Setups
  /\ running \in BOOLEAN
  /\ loop \in [Run -> {"unstarted", "exited"} \cup Polling]
  /\ current \in 0 .. MaxRuns
  /\ permits \in [Run -> Nat]
  /\ waiters \in [Run -> Seq(Event)]
  /\ hooks \in [Stage -> Seq(Hook)]
  /\ task \in [Event -> Task]

(* Every permit of a semaphore is free or held by exactly one executing    *)
(* pipeline, so the pipelines of one run() never exceed                    *)
(* concurrent_triggers, and no way a pipeline ends (done, rejected, HAL    *)
(* exception, hook exception under abort) loses or mints a permit.         *)
PermitsAccounted ==
  \A g \in 1 .. current : permits[g] + Cardinality(Holders(g)) = ConcurrentTriggers

(* The hook loop leaves a stage only when every hook registered since the  *)
(* stage began has run (successfully, or failing for good under the        *)
(* policy), although the list changes under the iteration.  The two ways   *)
(* the code does pass over a hook are named: a remove_hook in front of the *)
(* iterator, and retry_count = 0.  (A timeout is the third: it leaves the  *)
(* stage from inside the loop.)                                            *)
StageHooksComplete ==
  \A e \in Event :
    (task[e].pc = "stage" /\ task[e].pos > Len(hooks[task[e].stage]))
      => task[e].owed = {} \/ task[e].excused \/ MaxAttempts = 0

(* One packet, one delivery: a transport is tried only while none accepted *)
(* the packet, whatever failed before it.                                  *)
AtMostOneDelivery ==
  \A e \in Event : /\ Cardinality(task[e].accepted) <= 1
                    /\ task[e].pc = "transport" => task[e].accepted = {}

(* Every scheduled event is eventually given up or carried through: no     *)
(* task waits for a permit for ever, however the ones before it end.       *)
EveryTaskFinishes ==
  \A e \in Event : (config.timeout /\ task[e].pc = "scheduled") ~> task[e].pc \in Finished

(* Once stop() was called, and unless run() is called again, all loops     *)
(* come to an end.                                                         *)
StopEndsLoops == ~running ~> (running \/ \A l \in Run : loop[l] \notin Polling)

(* Nothing that was begun goes on for ever: every scheduled pipeline ends, *)
(* and after stop() every polling loop does.                               *)
RunsFinish == EveryTaskFinishes /\ StopEndsLoops

============================================================================
