----------------------- MODULE HalOrchestratorProofs -----------------------
(***************************************************************************)
(* Of HalOrchestrator, for every number of events, hooks, run() calls and  *)
(* transports: type correctness and the accounting of its semaphores'      *)
(* permits; then, over what each task may be, that a packet is delivered   *)
(* at most once and that a stage leaves no hook out.                       *)
(***************************************************************************)
EXTENDS HalOrchestrator, FiniteSetTheorems, SequenceTheorems, TLAPS

USE BoundsAssumption DEF Run

\* What makes TypeOK and PermitsAccounted inductive: a loop runs only after
\* its run() was called, and a task names a semaphore that exists from the
\* moment it queues, and none before.
SemaphoreInv ==
  /\ \A l \in Run : loop[l] # "unstarted" => l <= current
  /\ \A e \in Event :
       /\ task[e].sem <= current
       /\ task[e].pc \in {"idle", "scheduled"} => task[e].sem = 0
       /\ task[e].pc = "scheduled" => current >= 1
       /\ task[e].pc = "queued" => task[e].sem >= 1

IInv == TypeOK /\ SemaphoreInv /\ PermitsAccounted

----------------------------------------------------------------------------
(* The records a task can become.                                          *)

PCs == {"idle", "scheduled", "queued"} \cup Executing \cup Finished

\* A task that executes goes on executing under the same semaphore, or ends.
Successor(t, next) ==
  /\ next \in Task
  /\ \/ next.pc \in Executing /\ next.sem = t.sem
     \/ next.pc \in Finished /\ next.sem = 0

\* Setting one field of a task to a value of the field's type.
LEMMA FieldUpdate ==
  ASSUME NEW t \in Task
  PROVE  /\ \A v \in PCs : [t EXCEPT !.pc = v] \in Task
         /\ \A v \in Stage : [t EXCEPT !.stage = v] \in Task
         /\ \A v \in Nat \ {0} : [t EXCEPT !.pos = v] \in Task
         /\ \A v \in Hook \cup {NoHook} : [t EXCEPT !.hook = v] \in Task
         /\ \A v \in Nat : [t EXCEPT !.attempt = v] \in Task
         /\ \A v \in 0 .. MaxRuns : [t EXCEPT !.sem = v] \in Task
         /\ \A v \in SUBSET (Nat \ {0}) : [t EXCEPT !.accepted = v] \in Task
         /\ \A v \in SUBSET Hook : [t EXCEPT !.owed = v] \in Task
         /\ \A v \in BOOLEAN : [t EXCEPT !.excused = v] \in Task
BY DEF Task, PCs

LEMMA IdleTaskType == IdleTask \in Task
BY DEF IdleTask, Task, Stage

LEMMA EndedType ==
  ASSUME NEW how \in Finished
  PROVE  Ended(how) \in Task /\ Ended(how).pc = how /\ Ended(how).sem = 0
<1>1. how \in PCs
  BY DEF PCs
<1>2. Ended(how) \in Task
  BY <1>1, FieldUpdate, IdleTaskType DEF Ended
<1>. QED
  BY <1>2 DEF Ended, IdleTask

LEMMA GotoType ==
  ASSUME NEW t \in Task, NEW where \in Executing
  PROVE  Goto(t, where) \in Task /\ Goto(t, where).pc = where /\ Goto(t, where).sem = t.sem
<1>1. where \in PCs /\ 1 \in Nat \ {0} /\ 0 \in Nat
  BY DEF PCs
<1>2. Goto(t, where) \in Task
  BY <1>1, FieldUpdate DEF Goto
<1>. QED
  BY <1>2 DEF Goto, Task

LEMMA EnterStageType ==
  ASSUME TypeOK, NEW t \in Task, NEW s \in Stage
  PROVE  /\ EnterStage(t, s) \in Task
         /\ EnterStage(t, s).pc = "stage"
         /\ EnterStage(t, s).sem = t.sem
<1>1. /\ Goto(t, "stage") \in Task
      /\ Goto(t, "stage").sem = t.sem
      /\ Goto(t, "stage").pc = "stage"
  BY GotoType DEF Executing
<1>2. ToSet(hooks[s]) \in SUBSET Hook
  BY DEF TypeOK, ToSet
<1>3. EnterStage(t, s) \in Task
  BY <1>1, <1>2, FieldUpdate DEF EnterStage
<1>. QED
  BY <1>1, <1>3 DEF EnterStage, Task

LEMMA AfterStageType ==
  ASSUME TypeOK, NEW t \in Task, NEW next \in AfterStage(t)
  PROVE  Successor(t, next)
<1>1. \A s \in Stage : Successor(t, EnterStage(t, s))
  BY EnterStageType DEF Successor, Executing
<1>2. \A w \in Executing : Successor(t, Goto(t, w))
  BY GotoType DEF Successor
<1>3. \A how \in Finished : Successor(t, Ended(how))
  BY EndedType DEF Successor
<1>4. t.stage \in Stage
  BY DEF Task
<1>. QED
  BY <1>1, <1>2, <1>3, <1>4 DEF AfterStage, Serialize, Stage, Executing, HalCalls, Finished

LEMMA SettledType ==
  ASSUME NEW t \in Task
  PROVE  Successor(t, Settled(t))
<1>1. "stage" \in PCs /\ t.owed \ {t.hook} \in SUBSET Hook /\ 0 \in Nat
  BY DEF PCs, Executing, Task
<1>2. Settled(t) \in Task
  BY <1>1, FieldUpdate DEF Settled
<1>. QED
  BY <1>2 DEF Settled, Successor, Task, Executing

LEMMA AfterRaiseType ==
  ASSUME NEW t \in Task
  PROVE  Successor(t, AfterRaise(t))
<1>1. Successor(t, Settled(t))
  BY SettledType
<1>2. Successor(t, Ended("failed"))
  BY EndedType DEF Successor, Finished
<1>3. Successor(t, [t EXCEPT !.pc = "backoff", !.attempt = @ + 1])
  <2>1. "backoff" \in PCs /\ t.attempt + 1 \in Nat
    BY DEF PCs, Executing, Task
  <2>2. [t EXCEPT !.pc = "backoff", !.attempt = @ + 1] \in Task
    BY <2>1, FieldUpdate
  <2>. QED
    BY <2>2 DEF Successor, Task, Executing
<1>. QED
  BY <1>1, <1>2, <1>3 DEF AfterRaise

----------------------------------------------------------------------------
(* The pipelines that hold a permit.                                       *)

LEMMA HoldersFinite ==
  ASSUME NEW g
  PROVE  IsFiniteSet(Holders(g)) /\ Cardinality(Holders(g)) \in Nat
<1>1. Holders(g) \subseteq Event
  BY DEF Holders
<1>. QED
  BY <1>1, EventAssumption, FS_Subset, FS_CardinalityType

\* Steps that leave every task's permit where it is.
LEMMA HoldersUnchanged ==
  ASSUME \A e \in Event :
           \/ task'[e].sem = task[e].sem
              /\ (task'[e].pc \in Executing <=> task[e].pc \in Executing)
           \/ task[e].pc \notin Executing /\ task'[e].pc \notin Executing,
         NEW g
  PROVE  Holders(g)' = Holders(g)
BY DEF Holders

\* A pipeline executes up to its next await.
LEMMA BecomeStep ==
  ASSUME IInv, NEW e \in Event, task[e].pc \in Executing,
         NEW next, Successor(task[e], next), Become(e, next)
  PROVE  IInv'
<1>. DEFINE t == task[e]
<1>1. /\ t \in Task /\ t.sem \in 0 .. MaxRuns /\ t.sem <= current
      /\ current \in 0 .. MaxRuns /\ permits \in [Run -> Nat] /\ task \in [Event -> Task]
  BY DEF IInv, TypeOK, SemaphoreInv, Task
<1>2. /\ task' = [task EXCEPT ![e] = next] /\ permits' = Released(t, next)
      /\ current' = current /\ loop' = loop
      /\ UNCHANGED <<config, running, waiters, hooks>>
  BY DEF Become, loopVars
<1>3. next \in Task /\ (\/ next.pc \in Executing /\ next.sem = t.sem
                        \/ next.pc \in Finished /\ next.sem = 0)
  BY DEF Successor
<1>4. TypeOK'
  <2>1. task' \in [Event -> Task]
    BY <1>1, <1>2, <1>3
  <2>2. permits' \in [Run -> Nat]
    BY <1>1, <1>2 DEF Released
  <2>. QED
    BY <1>2, <2>1, <2>2 DEF IInv, TypeOK
<1>5. SemaphoreInv'
  <2>1. next.sem <= current /\ next.pc \notin {"idle", "scheduled", "queued"}
    BY <1>1, <1>3 DEF Executing, HalCalls, Finished
  <2>2. \A x \in Event : task'[x] = IF x = e THEN next ELSE task[x]
    BY <1>1, <1>2
  <2>. QED
    BY <1>2, <2>1, <2>2 DEF IInv, SemaphoreInv
<1>6. ASSUME NEW g \in 1 .. current
      PROVE  permits'[g] + Cardinality(Holders(g)') = ConcurrentTriggers
  <2>1. permits[g] + Cardinality(Holders(g)) = ConcurrentTriggers /\ permits[g] \in Nat
    BY <1>1 DEF IInv, PermitsAccounted
  <2>2. CASE next.pc \in Executing
    <3>1. Holders(g)' = Holders(g)
      BY <1>1, <1>2, <1>3, <2>2, HoldersUnchanged DEF Executing, HalCalls, Finished
    <3>2. permits' = permits
      BY <1>2, <2>2 DEF Released, Executing, HalCalls, Finished
    <3>. QED
      BY <2>1, <3>1, <3>2
  <2>3. CASE next.pc \in Finished /\ t.sem = g
    <3>1. next.pc \notin Executing
      BY <2>3 DEF Executing, HalCalls, Finished
    <3>2. Holders(g)' = Holders(g) \ {e} /\ e \in Holders(g)
      BY <1>1, <1>2, <2>3, <3>1 DEF Holders
    <3>3. Cardinality(Holders(g)') = Cardinality(Holders(g)) - 1
      BY <3>2, HoldersFinite, FS_RemoveElement
    <3>4. permits'[g] = permits[g] + 1
      BY <1>1, <1>2, <2>3 DEF Released
    <3>. QED
      BY <2>1, <3>3, <3>4, HoldersFinite
  <2>4. CASE next.pc \in Finished /\ t.sem # g
    <3>1. next.pc \notin Executing
      BY <2>4 DEF Executing, HalCalls, Finished
    <3>2. Holders(g)' = Holders(g)
      BY <1>1, <1>2, <2>4, <3>1 DEF Holders
    <3>3. permits'[g] = permits[g]
      BY <1>1, <1>2, <2>4 DEF Released
    <3>. QED
      BY <2>1, <3>2, <3>3
  <2>. QED
    BY <1>3, <2>2, <2>3, <2>4
<1>. QED
  BY <1>2, <1>4, <1>5, <1>6 DEF IInv, PermitsAccounted

LEMMA StageStepInv ==
  ASSUME IInv, NEW e \in Event, StageStep(e)
  PROVE  IInv'
<1>1. TypeOK /\ task[e] \in Task
  BY DEF IInv, TypeOK
<1>2. CASE NextHook(e)
  <2>. DEFINE t == task[e]
  <2>1. t.pc = "stage" /\ t.pos \in 1 .. Len(hooks[t.stage]) /\ hooks[t.stage] \in Seq(Hook)
    BY <1>1, <1>2 DEF NextHook, TypeOK, Task
  <2>2. t.pos + 1 \in Nat \ {0} /\ hooks[t.stage][t.pos] \in Hook /\ "hook" \in PCs
    BY <2>1 DEF PCs, Executing
  <2>3. Successor(t, [t EXCEPT !.pos = @ + 1])
    <3>1. [t EXCEPT !.pos = @ + 1] \in Task
      BY <1>1, <2>2, FieldUpdate
    <3>. QED
      BY <1>1, <2>1, <3>1 DEF Successor, Task, Executing
  <2>4. Successor(t, [t EXCEPT !.pc = "hook", !.hook = hooks[t.stage][t.pos], !.pos = @ + 1])
    <3>1. [t EXCEPT !.pc = "hook", !.hook = hooks[t.stage][t.pos], !.pos = @ + 1] \in Task
      BY <1>1, <2>2, FieldUpdate
    <3>. QED
      BY <1>1, <3>1 DEF Successor, Task, Executing
  <2>. QED
    BY <1>2, <2>1, <2>3, <2>4, BecomeStep DEF NextHook, Executing
<1>3. CASE LeaveStage(e)
  BY <1>1, <1>3, AfterStageType, BecomeStep DEF LeaveStage, Executing
<1>4. CASE EndBackoff(e)
  <2>1. [task[e] EXCEPT !.pc = "hook"] \in Task
    BY <1>1, FieldUpdate DEF PCs, Executing
  <2>2. Successor(task[e], [task[e] EXCEPT !.pc = "hook"])
    BY <1>1, <2>1 DEF Successor, Task, Executing
  <2>. QED
    BY <1>4, <2>2, BecomeStep DEF EndBackoff, Executing
<1>. QED
  BY <1>2, <1>3, <1>4 DEF StageStep

LEMMA HookSettlesInv ==
  ASSUME IInv, NEW e \in Event, HookSettles(e)
  PROVE  IInv'
<1>1. TypeOK /\ task[e] \in Task
  BY DEF IInv, TypeOK
<1>2. task[e].pc \in Executing
  BY DEF HookSettles, HookReturns, HookReturnsNone, HookRaises, HookTimesOut, Executing
<1>3. \A how \in Finished : Successor(task[e], Ended(how))
  BY EndedType DEF Successor
<1>4. CASE HookReturns(e)
  BY <1>1, <1>2, <1>4, SettledType, BecomeStep DEF HookReturns
<1>5. CASE HookReturnsNone(e)
  BY <1>1, <1>2, <1>3, <1>5, AfterStageType, BecomeStep DEF HookReturnsNone, Finished
<1>6. CASE HookRaises(e)
  BY <1>1, <1>2, <1>6, AfterRaiseType, BecomeStep DEF HookRaises
<1>7. CASE HookTimesOut(e)
  BY <1>1, <1>2, <1>3, <1>7, AfterStageType, BecomeStep DEF HookTimesOut, Finished
<1>. QED
  BY <1>4, <1>5, <1>6, <1>7 DEF HookSettles

LEMMA HalStepInv ==
  ASSUME IInv, NEW e \in Event, HalStep(e)
  PROVE  IInv'
<1>. DEFINE t == task[e]
            accepting == [t EXCEPT !.accepted = @ \cup {t.pos}]
<1>1. TypeOK /\ t \in Task
  BY DEF IInv, TypeOK
<1>2. t.pc \in Executing
  BY DEF HalStep, CameraReturns, MicrophoneReturns, Classified, SendFails, SendSucceeds,
         DisplayReturns, HalRaises, Executing, HalCalls
<1>3. \A how \in Finished : Successor(t, Ended(how))
  BY EndedType DEF Successor
<1>4. \A s \in Stage : Successor(t, EnterStage(t, s))
  BY <1>1, EnterStageType DEF Successor, Executing
<1>5. \A where \in Executing : Successor(t, Goto(t, where))
  BY <1>1, GotoType DEF Successor
<1>6. CASE CameraReturns(e)
  BY <1>2, <1>4, <1>5, <1>6, BecomeStep DEF CameraReturns, Stage, Executing, HalCalls
<1>7. CASE MicrophoneReturns(e)
  BY <1>2, <1>4, <1>7, BecomeStep DEF MicrophoneReturns, Stage
<1>8. CASE Classified(e)
  BY <1>2, <1>3, <1>4, <1>8, BecomeStep DEF Classified, Serialize, Stage, Finished
<1>9. CASE SendFails(e)
  <2>1. [t EXCEPT !.pos = @ + 1] \in Task
    BY <1>1, FieldUpdate, SMTT(30) DEF Task
  <2>2. Successor(t, [t EXCEPT !.pos = @ + 1])
    BY <1>1, <1>2, <2>1 DEF Successor, Task
  <2>. QED
    BY <1>2, <1>4, <1>9, <2>2, BecomeStep DEF SendFails, Stage
<1>10. CASE SendSucceeds(e)
  <2>1. t.accepted \cup {t.pos} \in SUBSET (Nat \ {0})
    BY <1>1 DEF Task
  <2>2. accepting \in Task
    BY <1>1, <2>1, FieldUpdate
  <2>3. accepting.sem = t.sem /\ EnterStage(accepting, "ACTUATE") \in Task
        /\ EnterStage(accepting, "ACTUATE").pc = "stage"
        /\ EnterStage(accepting, "ACTUATE").sem = accepting.sem
    BY <1>1, <2>2, EnterStageType DEF Task, Stage
  <2>4. Successor(t, EnterStage(accepting, "ACTUATE"))
    BY <2>3 DEF Successor, Executing
  <2>. QED
    BY <1>2, <1>10, <2>4, BecomeStep DEF SendSucceeds
<1>11. CASE DisplayReturns(e)
  BY <1>2, <1>4, <1>11, BecomeStep DEF DisplayReturns, Stage
<1>12. CASE HalRaises(e)
  BY <1>2, <1>3, <1>12, BecomeStep DEF HalRaises, Finished
<1>. QED
  BY <1>6, <1>7, <1>8, <1>9, <1>10, <1>11, <1>12 DEF HalStep

----------------------------------------------------------------------------
(* run(), stop(), the hook list and the semaphore.                         *)

LEMMA LoopInv ==
  ASSUME IInv, NEW l \in Run, LoopStep(l) \/ LoopAborts(l)
  PROVE  IInv'
<1>1. /\ loop \in [Run -> {"unstarted", "exited"} \cup Polling] /\ task \in [Event -> Task]
      /\ current \in 0 .. MaxRuns /\ l >= 1
      /\ (loop[l] \in Polling => l <= current)
  BY DEF IInv, TypeOK, SemaphoreInv, Polling
<1>2. CASE PollQuiet(l) \/ EndSleep(l) \/ LoopAborts(l)
  <2>1. /\ UNCHANGED <<config, current, permits, waiters, hooks, task>>
        /\ \E v \in {"exited"} \cup Polling : loop' = [loop EXCEPT ![l] = v]
        /\ running' \in BOOLEAN /\ loop[l] \in Polling
    BY <1>2 DEF PollQuiet, EndSleep, LoopAborts, Polling, IInv, TypeOK
  <2>2. TypeOK'
    BY <1>1, <2>1 DEF IInv, TypeOK
  <2>3. SemaphoreInv'
    BY <1>1, <2>1 DEF IInv, SemaphoreInv
  <2>4. \A g : Holders(g)' = Holders(g)
    BY <2>1 DEF Holders
  <2>. QED
    BY <2>1, <2>2, <2>3, <2>4 DEF IInv, PermitsAccounted
<1>3. ASSUME NEW e \in Event, PollTrigger(l, e)
      PROVE  IInv'
  <2>1. /\ UNCHANGED <<config, running, current, permits, waiters, hooks>>
        /\ loop' = [loop EXCEPT ![l] = "sleeping"] /\ l <= current
        /\ task' = [task EXCEPT ![e].pc = "scheduled"] /\ task[e].pc = "idle"
    BY <1>1, <1>3 DEF PollTrigger, Polling
  <2>2. [task[e] EXCEPT !.pc = "scheduled"] \in Task
    BY <1>1, FieldUpdate DEF PCs
  <2>3. TypeOK'
    BY <1>1, <2>1, <2>2 DEF IInv, TypeOK, Polling
  <2>4. /\ task'[e].pc = "scheduled" /\ task'[e].sem = task[e].sem
        /\ \A x \in Event \ {e} : task'[x] = task[x]
    BY <1>1, <2>1 DEF Task
  <2>5. SemaphoreInv'
    BY <1>1, <2>1, <2>4 DEF IInv, SemaphoreInv
  <2>6. \A g : Holders(g)' = Holders(g)
    BY <2>1, <2>4 DEF Holders, Executing, HalCalls
  <2>. QED
    BY <2>1, <2>3, <2>5, <2>6 DEF IInv, PermitsAccounted
<1>. QED
  BY <1>2, <1>3 DEF LoopStep

LEMMA StartRunInv ==
  ASSUME IInv, StartRun
  PROVE  IInv'
<1>1. /\ current' = current + 1 /\ current' \in Run /\ current \in Nat /\ running' = TRUE
      /\ loop' = [loop EXCEPT ![current + 1] = "reading"]
      /\ permits' = [permits EXCEPT ![current + 1] = ConcurrentTriggers]
      /\ UNCHANGED <<config, waiters, hooks, task>>
  BY SetupAssumption DEF StartRun, IInv, TypeOK
<1>2. TypeOK'
  BY <1>1 DEF IInv, TypeOK, Polling
<1>3. SemaphoreInv'
  <2>1. \A e \in Event : task[e].sem \in Nat
    BY DEF IInv, TypeOK, Task
  <2>. QED
    BY <1>1, <2>1 DEF IInv, TypeOK, SemaphoreInv
<1>4. \A g : Holders(g)' = Holders(g)
  BY <1>1 DEF Holders
<1>5. ASSUME NEW g \in 1 .. current'
      PROVE  permits'[g] + Cardinality(Holders(g)') = ConcurrentTriggers
  <2>1. CASE g = current + 1
    <3>1. Holders(g) = {}
      BY <1>1, <2>1 DEF Holders, IInv, SemaphoreInv, TypeOK, Task
    <3>2. Holders(g)' = {} /\ Cardinality({}) = 0
      BY <1>4, <3>1, FS_EmptySet
    <3>3. permits'[g] = ConcurrentTriggers
      BY <1>1, <2>1 DEF IInv, TypeOK
    <3>4. Cardinality(Holders(g)') = 0
      BY <3>2
    <3>. QED
      BY <3>3, <3>4
  <2>2. CASE g # current + 1
    <3>1. g \in 1 .. current /\ permits'[g] = permits[g]
      BY <1>1, <2>2 DEF IInv, TypeOK
    <3>. QED
      BY <1>4, <3>1 DEF IInv, PermitsAccounted
  <2>. QED
    BY <2>1, <2>2
<1>. QED
  BY <1>2, <1>3, <1>5 DEF IInv, PermitsAccounted

\* Taking an element out of a hook list leaves a hook list.
LEMMA RemoveAtType ==
  ASSUME NEW S, NEW list \in Seq(S), NEW at \in DOMAIN list
  PROVE  RemoveAt(list, at) \in Seq(S)
<1>1. SubSeq(list, 1, at - 1) \in Seq(S) /\ SubSeq(list, at + 1, Len(list)) \in Seq(S)
  OBVIOUS
<1>. QED
  BY <1>1 DEF RemoveAt

LEMMA HooksChangeInv ==
  ASSUME IInv, NEW c \in config.changes, AddHook(c[1], c[2]) \/ RemoveHook(c[1], c[2])
  PROVE  IInv'
<1>. DEFINE s == c[1]
            h == c[2]
<1>1. s \in Stage /\ h \in Hook
  BY SetupAssumption DEF IInv, TypeOK
<1>2. hooks \in [Stage -> Seq(Hook)] /\ task \in [Event -> Task]
  BY DEF IInv, TypeOK
<1>3. CASE AddHook(s, h)
  <2>1. /\ UNCHANGED <<config, running, loop, current, permits, waiters, task>>
        /\ hooks' = [hooks EXCEPT ![s] = Append(@, h)]
    BY <1>3 DEF AddHook, loopVars
  <2>2. TypeOK'
    BY <1>1, <1>2, <2>1 DEF IInv, TypeOK
  <2>3. SemaphoreInv' /\ \A g : Holders(g)' = Holders(g)
    BY <2>1 DEF IInv, SemaphoreInv, Holders
  <2>. QED
    BY <2>1, <2>2, <2>3 DEF IInv, PermitsAccounted
<1>4. CASE RemoveHook(s, h)
  <2>1. UNCHANGED <<config, running, loop, current, permits, waiters>>
    BY <1>4 DEF RemoveHook, loopVars
  <2>2. PICK at \in DOMAIN hooks[s] :
          LET rest == RemoveAt(hooks[s], at)
              InStage(t) == t.stage = s /\ t.pc \in {"stage", "hook", "backoff"}
          IN /\ hooks' = [hooks EXCEPT ![s] = rest]
             /\ task' = [e \in Event |->
                  IF InStage(task[e])
                  THEN [task[e] EXCEPT !.owed = @ \cap ToSet(rest),
                                       !.excused = @ \/ at < task[e].pos]
                  ELSE task[e]]
    BY <1>4 DEF RemoveHook
  <2>3. hooks' \in [Stage -> Seq(Hook)]
    BY <1>1, <1>2, <2>2, RemoveAtType
  <2>4. ASSUME NEW e \in Event
        PROVE  task'[e] \in Task /\ task'[e].pc = task[e].pc /\ task'[e].sem = task[e].sem
    <3>. DEFINE owed == task[e].owed \cap ToSet(RemoveAt(hooks[s], at))
                excused == task[e].excused \/ at < task[e].pos
    <3>1. task[e] \in Task /\ owed \in SUBSET Hook /\ excused \in BOOLEAN
      BY <1>2 DEF Task
    <3>2. [task[e] EXCEPT !.owed = owed, !.excused = excused] \in Task
      BY <3>1, FieldUpdate
    <3>3. \/ task'[e] = task[e]
          \/ task'[e] = [task[e] EXCEPT !.owed = owed, !.excused = excused]
      BY <2>2
    <3>. QED
      BY <3>1, <3>2, <3>3 DEF Task
  <2>5. TypeOK'
    <3>1. task' \in [Event -> Task]
      BY <2>2, <2>4
    <3>. QED
      BY <2>1, <2>3, <3>1 DEF IInv, TypeOK
  <2>6. SemaphoreInv'
    BY <2>1, <2>4 DEF IInv, SemaphoreInv
  <2>7. \A g : Holders(g)' = Holders(g)
    BY <2>4, HoldersUnchanged
  <2>. QED
    BY <2>1, <2>5, <2>6, <2>7 DEF IInv, PermitsAccounted
<1>. QED
  BY <1>3, <1>4

LEMMA EnqueueInv ==
  ASSUME IInv, NEW e \in Event, Enqueue(e)
  PROVE  IInv'
<1>1. /\ task \in [Event -> Task] /\ waiters \in [Run -> Seq(Event)] /\ current \in Run
      /\ task[e].pc = "scheduled"
  BY DEF IInv, TypeOK, SemaphoreInv, Enqueue
<1>2. /\ task' = [task EXCEPT ![e].pc = "queued", ![e].sem = current]
      /\ waiters' = [waiters EXCEPT ![current] = Append(@, e)]
      /\ UNCHANGED <<config, running, loop, current, permits, hooks>>
  BY DEF Enqueue, loopVars
<1>3. [task[e] EXCEPT !.pc = "queued", !.sem = current] \in Task
  <2>1. "queued" \in PCs /\ current \in 0 .. MaxRuns /\ task[e] \in Task
    BY <1>1 DEF PCs
  <2>. QED
    BY <2>1, FieldUpdate
<1>4. TypeOK'
  <2>1. task' = [task EXCEPT ![e] = [task[e] EXCEPT !.pc = "queued", !.sem = current]]
    BY <1>1, <1>2
  <2>2. task' \in [Event -> Task]
    BY <1>1, <1>3, <2>1
  <2>3. waiters' \in [Run -> Seq(Event)]
    BY <1>1, <1>2
  <2>. QED
    BY <1>2, <2>2, <2>3 DEF IInv, TypeOK
<1>5. /\ task'[e].pc = "queued" /\ task'[e].sem = current
      /\ \A x \in Event \ {e} : task'[x] = task[x]
  BY <1>1, <1>2 DEF Task
<1>6. SemaphoreInv'
  BY <1>1, <1>2, <1>5 DEF IInv, SemaphoreInv
<1>7. \A g : Holders(g)' = Holders(g)
  BY <1>1, <1>5 DEF Holders, Executing, HalCalls
<1>. QED
  BY <1>2, <1>4, <1>6, <1>7 DEF IInv, PermitsAccounted

\* A task that had no permit begins its first stage, with semaphore g's permit
\* (g = task[e].sem >= 1) or outside every semaphore (run_once).
LEMMA BeginStage ==
  ASSUME IInv, NEW e \in Event, task[e].pc \in {"idle", "queued"},
         task' = [task EXCEPT ![e] = EnterStage(@, "TRIGGER")]
  PROVE  /\ task' \in [Event -> Task]
         /\ task'[e].pc \in Executing /\ task'[e].sem = task[e].sem
         /\ task'[e].pc \notin {"idle", "scheduled", "queued"}
         /\ \A x \in Event \ {e} : task'[x] = task[x]
         /\ task[e].pc \notin Executing
<1>1. TypeOK /\ task \in [Event -> Task] /\ task[e] \in Task /\ "TRIGGER" \in Stage
  BY DEF IInv, TypeOK, Stage
<1>2. /\ EnterStage(task[e], "TRIGGER") \in Task
      /\ EnterStage(task[e], "TRIGGER").pc = "stage"
      /\ EnterStage(task[e], "TRIGGER").sem = task[e].sem
  BY <1>1, EnterStageType
<1>. QED
  BY <1>1, <1>2 DEF Executing, HalCalls

LEMMA AcquireInv ==
  ASSUME IInv, NEW e \in Event, Acquire(e)
  PROVE  IInv'
<1>. DEFINE s == task[e].sem
<1>1. /\ task \in [Event -> Task] /\ waiters \in [Run -> Seq(Event)] /\ permits \in [Run -> Nat]
      /\ task[e].pc = "queued" /\ s \in 1 .. current /\ s \in Run
  <2>1. task[e] \in Task /\ current \in 0 .. MaxRuns
    BY DEF IInv, TypeOK
  <2>2. s \in 0 .. MaxRuns
    BY <2>1 DEF Task
  <2>3. task[e].pc = "queued" /\ s >= 1 /\ s <= current
    BY DEF Acquire, IInv, SemaphoreInv
  <2>. QED
    BY <2>1, <2>2, <2>3 DEF IInv, TypeOK
<1>2. /\ permits[s] > 0 /\ waiters[s] # <<>>
      /\ permits' = [permits EXCEPT ![s] = @ - 1]
      /\ waiters' = [waiters EXCEPT ![s] = Tail(@)]
      /\ task' = [task EXCEPT ![e] = EnterStage(@, "TRIGGER")]
      /\ UNCHANGED <<config, running, loop, current, hooks>>
  BY DEF Acquire, loopVars
<1>3. /\ task' \in [Event -> Task]
      /\ task'[e].pc \in Executing /\ task'[e].sem = s
      /\ task'[e].pc \notin {"idle", "scheduled", "queued"}
      /\ \A x \in Event \ {e} : task'[x] = task[x]
      /\ task[e].pc \notin Executing
  BY <1>1, <1>2, BeginStage
<1>4. TypeOK'
  <2>1. permits' \in [Run -> Nat]
    BY <1>1, <1>2
  <2>2. waiters' \in [Run -> Seq(Event)]
    BY <1>1, <1>2
  <2>. QED
    BY <1>2, <1>3, <2>1, <2>2 DEF IInv, TypeOK
<1>5. SemaphoreInv'
  BY <1>2, <1>3 DEF IInv, SemaphoreInv
<1>6. ASSUME NEW g \in 1 .. current
      PROVE  permits'[g] + Cardinality(Holders(g)') = ConcurrentTriggers
  <2>1. /\ permits[g] + Cardinality(Holders(g)) = ConcurrentTriggers
        /\ permits[g] \in Nat /\ Cardinality(Holders(g)) \in Nat
    BY <1>1, HoldersFinite DEF IInv, PermitsAccounted, TypeOK
  <2>2. CASE g = s
    <3>1. Holders(g)' = Holders(g) \cup {e} /\ e \notin Holders(g)
      BY <1>1, <1>3, <2>2 DEF Holders
    <3>2. Cardinality(Holders(g)') = Cardinality(Holders(g)) + 1
      BY <3>1, HoldersFinite, FS_AddElement
    <3>3. permits'[g] = permits[g] - 1
      BY <1>1, <1>2, <2>2
    <3>. QED
      BY <2>1, <3>2, <3>3
  <2>3. CASE g # s
    <3>1. Holders(g)' = Holders(g)
      BY <1>1, <1>3, <2>3 DEF Holders
    <3>2. permits'[g] = permits[g]
      BY <1>1, <1>2, <2>3
    <3>. QED
      BY <2>1, <3>1, <3>2
  <2>. QED
    BY <2>2, <2>3
<1>. QED
  BY <1>2, <1>4, <1>5, <1>6 DEF IInv, PermitsAccounted

LEMMA RunOnceInv ==
  ASSUME IInv, NEW e \in Event, RunOnce(e)
  PROVE  IInv'
<1>1. /\ task[e].pc = "idle" /\ task[e].sem = 0
      /\ task' = [task EXCEPT ![e] = EnterStage(@, "TRIGGER")]
      /\ UNCHANGED <<config, running, loop, current, permits, waiters, hooks>>
  BY DEF RunOnce, IInv, SemaphoreInv, loopVars
<1>2. /\ task' \in [Event -> Task]
      /\ task'[e].sem = 0 /\ task'[e].pc \notin {"idle", "scheduled", "queued"}
      /\ \A x \in Event \ {e} : task'[x] = task[x]
  BY <1>1, BeginStage
<1>3. TypeOK'
  BY <1>1, <1>2 DEF IInv, TypeOK
<1>4. SemaphoreInv'
  BY <1>1, <1>2 DEF IInv, SemaphoreInv, TypeOK
<1>5. \A g \in 1 .. current : Holders(g)' = Holders(g)
  BY <1>1, <1>2 DEF Holders
<1>. QED
  BY <1>1, <1>3, <1>4, <1>5 DEF IInv, PermitsAccounted

----------------------------------------------------------------------------
LEMMA InitInv == Init => IInv
<1>. SUFFICES ASSUME Init PROVE IInv
  OBVIOUS
<1>1. TypeOK
  <2>1. config \in Setups /\ hooks \in [Stage -> Seq(Hook)]
    BY SetupAssumption DEF Init
  <2>2. task \in [Event -> Task]
    BY IdleTaskType DEF Init
  <2>3. permits \in [Run -> Nat] /\ waiters \in [Run -> Seq(Event)]
    BY DEF Init
  <2>4. loop \in [Run -> {"unstarted", "exited"} \cup Polling] /\ current \in 0 .. MaxRuns
    BY DEF Init
  <2>. QED
    BY <2>1, <2>2, <2>3, <2>4 DEF Init, TypeOK
<1>2. SemaphoreInv
  BY DEF Init, SemaphoreInv, IdleTask
<1>3. PermitsAccounted
  BY DEF Init, PermitsAccounted
<1>. QED
  BY <1>1, <1>2, <1>3 DEF IInv

LEMMA NextInv == IInv /\ [Next]_vars => IInv'
<1>. SUFFICES ASSUME IInv, [Next]_vars PROVE IInv'
  OBVIOUS
<1>1. CASE StartRun
  BY <1>1, StartRunInv
<1>2. CASE Stop
  BY <1>2 DEF Stop, IInv, TypeOK, SemaphoreInv, PermitsAccounted, Holders
<1>3. ASSUME NEW l \in Run, LoopStep(l) \/ LoopAborts(l)
      PROVE  IInv'
  BY <1>3, LoopInv
<1>4. ASSUME NEW c \in config.changes, AddHook(c[1], c[2]) \/ RemoveHook(c[1], c[2])
      PROVE  IInv'
  BY <1>4, HooksChangeInv
<1>5. ASSUME NEW e \in Event,
             \/ Enqueue(e) \/ Acquire(e) \/ RunOnce(e)
             \/ StageStep(e) \/ HookSettles(e) \/ HalStep(e)
      PROVE  IInv'
  BY <1>5, EnqueueInv, AcquireInv, RunOnceInv, StageStepInv, HookSettlesInv, HalStepInv
<1>6. CASE UNCHANGED vars
  BY <1>6 DEF vars, IInv, TypeOK, SemaphoreInv, PermitsAccounted, Holders
<1>. QED
  BY <1>1, <1>2, <1>3, <1>4, <1>5, <1>6 DEF Next

(* In every run of the orchestrator the loops, the semaphores, the hook    *)
(* lists and the tasks have their types: _execute_pipeline never indexes   *)
(* past a hook list and no semaphore goes below zero.                      *)
THEOREM TypeCorrect == Spec => []TypeOK
<1>1. IInv => TypeOK
  BY DEF IInv
<1>. QED
  BY <1>1, InitInv, NextInv, PTL DEF Spec

(* However pipelines end, every permit of every run()'s semaphore is free  *)
(* or held by exactly one executing pipeline.                              *)
THEOREM PermitsNeverLost == Spec => []PermitsAccounted
<1>1. IInv => PermitsAccounted
  BY DEF IInv
<1>. QED
  BY <1>1, InitInv, NextInv, PTL DEF Spec

\* The pipelines of one call of run() that execute at the same time are at
\* most config.concurrent_triggers.
WithinConcurrency == \A g \in 1 .. current : Cardinality(Holders(g)) <= ConcurrentTriggers

(* `async with self._semaphore` bounds the pipelines of each run().        *)
THEOREM ConcurrencyBounded == Spec => []WithinConcurrency
<1>1. IInv => WithinConcurrency
  <2>. SUFFICES ASSUME IInv, NEW g \in 1 .. current
                PROVE  Cardinality(Holders(g)) <= ConcurrentTriggers
    BY DEF WithinConcurrency
  <2>1. g \in Run /\ permits[g] \in Nat /\ Cardinality(Holders(g)) \in Nat
    BY HoldersFinite DEF IInv, TypeOK
  <2>. QED
    BY <2>1 DEF IInv, PermitsAccounted
<1>. QED
  BY <1>1, InitInv, NextInv, PTL DEF Spec

----------------------------------------------------------------------------
(* What one pipeline does, whatever the others do: its packet is delivered *)
(* at most once, and it leaves no hook of a stage out.                     *)

\* A packet that was accepted is behind the pipeline: it displays, or is in one
\* of the two stages after TRANSPORT.
Once(t) ==
  \/ t.accepted = {}
  \/ /\ \E x \in t.accepted : t.accepted = {x}
     /\ \/ t.pc = "display"
        \/ t.pc \in {"stage", "hook", "backoff"} /\ t.stage \in {"ACTUATE", "RESPONSE"}

\* The hooks the iteration will still come to, and the promise that those owed
\* are among them (or the one it awaits).
Ahead(t) == {hooks[t.stage][i] : i \in t.pos .. Len(hooks[t.stage])}
OwedAhead(t) ==
  t.pc \in {"stage", "hook", "backoff"} =>
    \/ t.excused \/ MaxAttempts = 0
    \/ t.owed \subseteq Ahead(t) \cup (IF t.pc = "stage" THEN {} ELSE {t.hook})

Good(t) == Once(t) /\ OwedAhead(t)
TaskInv == \A e \in Event : Good(task[e])

----------------------------------------------------------------------------
(* The records a task can become.                                          *)

LEMMA EndedGood == \A how \in Finished : Good(Ended(how))
BY DEF Good, Once, OwedAhead, Ended, IdleTask, Finished

LEMMA EnterStageGood ==
  ASSUME TypeOK, NEW t \in Task, NEW s \in Stage,
         \/ t.accepted = {}
         \/ s \in {"ACTUATE", "RESPONSE"} /\ \E x \in t.accepted : t.accepted = {x}
  PROVE  Good(EnterStage(t, s))
<1>. DEFINE n == EnterStage(t, s)
<1>1. /\ n.pc = "stage" /\ n.stage = s /\ n.pos = 1 /\ n.accepted = t.accepted
      /\ n.owed = ToSet(hooks[s])
  BY DEF EnterStage, Goto, Task
<1>2. hooks[s] \in Seq(Hook)
  BY DEF TypeOK
<1>3. ToSet(hooks[s]) \subseteq {hooks[s][i] : i \in 1 .. Len(hooks[s])}
  BY <1>2 DEF ToSet
<1>. HIDE DEF n
<1>4. OwedAhead(n)
  BY <1>1, <1>3 DEF OwedAhead, Ahead
<1>5. Once(n)
  BY <1>1 DEF Once
<1>. QED
  BY <1>4, <1>5 DEF Good, n

LEMMA GotoGood ==
  ASSUME NEW t \in Task, NEW where \in HalCalls,
         \/ t.accepted = {}
         \/ where = "display" /\ \E x \in t.accepted : t.accepted = {x}
  PROVE  Good(Goto(t, where))
<1>1. Goto(t, where).pc = where /\ Goto(t, where).accepted = t.accepted
  BY DEF Goto, Task
<1>. QED
  BY <1>1 DEF Good, Once, OwedAhead, HalCalls

LEMMA AfterStageGood ==
  ASSUME TypeOK, NEW t \in Task, t.pc \in {"stage", "hook"}, Good(t), NEW next \in AfterStage(t)
  PROVE  Good(next)
<1>1. t.stage \in Stage /\ (\/ t.accepted = {}
                            \/ /\ t.stage \in {"ACTUATE", "RESPONSE"}
                               /\ \E x \in t.accepted : t.accepted = {x})
  BY DEF Task, Good, Once
<1>2. CASE t.stage \in {"ACTUATE", "RESPONSE"}
  <2>1. t.accepted = {} \/ \E x \in t.accepted : t.accepted = {x}
    BY <1>1
  <2>2. Good(EnterStage(t, "RESPONSE"))
    BY <2>1, EnterStageGood DEF Stage
  <2>3. Good(Goto(t, "display"))
    BY <2>1, GotoGood DEF HalCalls
  <2>. QED
    BY <1>2, <2>2, <2>3, EndedGood DEF AfterStage, Finished
<1>3. CASE t.stage \notin {"ACTUATE", "RESPONSE"}
  <2>1. t.accepted = {}
    BY <1>1, <1>3
  <2>2. \A s \in Stage : Good(EnterStage(t, s))
    BY <2>1, EnterStageGood
  <2>3. \A w \in HalCalls : Good(Goto(t, w))
    BY <2>1, GotoGood
  <2>. QED
    BY <1>1, <1>3, <2>2, <2>3, EndedGood DEF AfterStage, Serialize, Stage, HalCalls, Finished
<1>. QED
  BY <1>2, <1>3

LEMMA SettledGood ==
  ASSUME NEW t \in Task, t.pc = "hook", Good(t)
  PROVE  Good(Settled(t))
<1>. DEFINE n == Settled(t)
<1>1. /\ n.pc = "stage" /\ n.stage = t.stage /\ n.pos = t.pos /\ n.accepted = t.accepted
      /\ n.owed = t.owed \ {t.hook} /\ n.excused = t.excused
  BY DEF Settled, Task
<1>. HIDE DEF n
<1>2. Once(n)
  BY <1>1 DEF Good, Once
<1>3. OwedAhead(n)
  BY <1>1 DEF Good, OwedAhead, Ahead
<1>. QED
  BY <1>2, <1>3 DEF Good, n

LEMMA AfterRaiseGood ==
  ASSUME NEW t \in Task, t.pc = "hook", Good(t)
  PROVE  Good(AfterRaise(t))
<1>. DEFINE n == [t EXCEPT !.pc = "backoff", !.attempt = @ + 1]
<1>1. /\ n.pc = "backoff" /\ n.stage = t.stage /\ n.pos = t.pos /\ n.accepted = t.accepted
      /\ n.owed = t.owed /\ n.excused = t.excused /\ n.hook = t.hook
  BY DEF Task
<1>2. Good(n)
  <2>. HIDE DEF n
  <2>. QED
    BY <1>1 DEF Good, Once, OwedAhead, Ahead
<1>. QED
  BY <1>2, SettledGood, EndedGood DEF AfterRaise, Finished

----------------------------------------------------------------------------
(* The steps.                                                              *)

\* A pipeline executes up to its next await.
LEMMA BecomeGood ==
  ASSUME IInv, TaskInv, NEW e \in Event, NEW next, Good(next), Become(e, next)
  PROVE  TaskInv'
<1>1. /\ task' = [task EXCEPT ![e] = next] /\ task \in [Event -> Task]
      /\ UNCHANGED <<config, hooks>>
  BY DEF Become, IInv, TypeOK
<1>2. \A x \in Event : task'[x] = IF x = e THEN next ELSE task[x]
  BY <1>1
<1>3. ASSUME NEW x \in Event
      PROVE  Good(task[x])'
  <2>1. Good(task'[x])
    BY <1>2 DEF TaskInv
  <2>. QED
    BY <1>1, <2>1 DEF Good, Once, OwedAhead, Ahead, MaxAttempts
<1>. QED
  BY <1>3 DEF TaskInv

LEMMA StageStepGood ==
  ASSUME IInv, TaskInv, NEW e \in Event, StageStep(e)
  PROVE  TaskInv'
<1>. DEFINE t == task[e]
<1>1. TypeOK /\ t \in Task /\ Good(t)
  BY DEF IInv, TypeOK, TaskInv
<1>2. CASE NextHook(e)
  <2>. DEFINE called == [t EXCEPT !.pc = "hook", !.hook = hooks[t.stage][t.pos], !.pos = @ + 1]
              passed == [t EXCEPT !.pos = @ + 1]
  <2>1. t.pc = "stage" /\ t.pos \in Nat /\ t.pos <= Len(hooks[t.stage])
        /\ Len(hooks[t.stage]) \in Nat
    BY <1>1, <1>2 DEF NextHook, Task, TypeOK
  <2>2. MaxAttempts = 0 => Good(passed)
    <3>1. passed.pc = "stage" /\ passed.stage = t.stage /\ passed.accepted = t.accepted
      BY <1>1, <2>1 DEF Task
    <3>. HIDE DEF passed
    <3>. QED
      BY <1>1, <2>1, <3>1 DEF Good, Once, OwedAhead
  <2>3. Good(called)
    <3>1. /\ called.pc = "hook" /\ called.stage = t.stage /\ called.pos = t.pos + 1
          /\ called.hook = hooks[t.stage][t.pos] /\ called.accepted = t.accepted
          /\ called.owed = t.owed /\ called.excused = t.excused
      BY <1>1 DEF Task
    <3>2. Ahead(t) \subseteq Ahead(called) \cup {called.hook}
      <4>. HIDE DEF called, t
      <4>. QED
        BY <2>1, <3>1 DEF Ahead
    <3>3. OwedAhead(called)
      <4>. HIDE DEF called, t
      <4>. QED
        BY <1>1, <2>1, <3>1, <3>2 DEF Good, OwedAhead
    <3>4. Once(called)
      <4>. HIDE DEF called, t
      <4>. QED
        BY <1>1, <2>1, <3>1 DEF Good, Once
    <3>. QED
      BY <3>3, <3>4 DEF Good
  <2>4. \/ MaxAttempts = 0 /\ Become(e, passed)
        \/ Become(e, called)
    BY <1>2 DEF NextHook
  <2>. HIDE DEF called, passed
  <2>. QED
    BY <2>2, <2>3, <2>4, BecomeGood
<1>3. CASE LeaveStage(e)
  BY <1>1, <1>3, AfterStageGood, BecomeGood DEF LeaveStage
<1>4. CASE EndBackoff(e)
  <2>. DEFINE n == [t EXCEPT !.pc = "hook"]
  <2>1. /\ t.pc = "backoff" /\ n.pc = "hook" /\ n.stage = t.stage /\ n.pos = t.pos
        /\ n.accepted = t.accepted /\ n.owed = t.owed /\ n.excused = t.excused /\ n.hook = t.hook
        /\ Become(e, n)
    BY <1>1, <1>4 DEF EndBackoff, Task
  <2>2. Good(n)
    <3>. HIDE DEF n, t
    <3>. QED
      BY <1>1, <2>1 DEF Good, Once, OwedAhead, Ahead
  <2>. QED
    BY <2>1, <2>2, BecomeGood
<1>. QED
  BY <1>2, <1>3, <1>4 DEF StageStep

LEMMA HookSettlesGood ==
  ASSUME IInv, TaskInv, NEW e \in Event, HookSettles(e)
  PROVE  TaskInv'
<1>1. TypeOK /\ task[e] \in Task /\ Good(task[e]) /\ task[e].pc = "hook"
  BY DEF IInv, TypeOK, TaskInv, HookSettles, HookReturns, HookReturnsNone, HookRaises, HookTimesOut
<1>2. CASE HookReturns(e)
  BY <1>1, <1>2, SettledGood, BecomeGood DEF HookReturns
<1>3. CASE HookReturnsNone(e)
  BY <1>1, <1>3, EndedGood, AfterStageGood, BecomeGood DEF HookReturnsNone, Finished
<1>4. CASE HookRaises(e)
  BY <1>1, <1>4, AfterRaiseGood, BecomeGood DEF HookRaises
<1>5. CASE HookTimesOut(e)
  BY <1>1, <1>5, EndedGood, AfterStageGood, BecomeGood DEF HookTimesOut, Finished
<1>. QED
  BY <1>2, <1>3, <1>4, <1>5 DEF HookSettles

LEMMA HalStepGood ==
  ASSUME IInv, TaskInv, NEW e \in Event, HalStep(e)
  PROVE  TaskInv'
<1>. DEFINE t == task[e]
<1>1. TypeOK /\ t \in Task /\ Good(t)
  BY DEF IInv, TypeOK, TaskInv
<1>2. t.pc \in HalCalls
  BY DEF HalStep, CameraReturns, MicrophoneReturns, Classified, SendFails, SendSucceeds,
         DisplayReturns, HalRaises, HalCalls
<1>3. t.accepted = {} \/ (t.pc = "display" /\ \E x \in t.accepted : t.accepted = {x})
  BY <1>1, <1>2 DEF Good, Once, HalCalls
<1>4. t.accepted = {} => \A s \in Stage : Good(EnterStage(t, s))
  BY <1>1, EnterStageGood
<1>5. t.accepted = {} => \A w \in HalCalls : Good(Goto(t, w))
  BY <1>1, GotoGood
<1>6. CASE CameraReturns(e)
  BY <1>3, <1>4, <1>5, <1>6, BecomeGood DEF CameraReturns, Stage, HalCalls
<1>7. CASE MicrophoneReturns(e)
  BY <1>3, <1>4, <1>7, BecomeGood DEF MicrophoneReturns, Stage
<1>8. CASE Classified(e)
  BY <1>3, <1>4, <1>8, EndedGood, BecomeGood DEF Classified, Serialize, Stage, Finished
<1>9. CASE SendFails(e)
  <2>. DEFINE n == [t EXCEPT !.pos = @ + 1]
  <2>1. n.pc = "transport" /\ n.accepted = {}
    BY <1>1, <1>3, <1>9 DEF SendFails, Task
  <2>2. Good(n)
    <3>. HIDE DEF n
    <3>. QED
      BY <2>1 DEF Good, Once, OwedAhead
  <2>3. Become(e, n) \/ Become(e, EnterStage(t, "ACTUATE"))
    BY <1>9 DEF SendFails
  <2>. HIDE DEF n
  <2>. QED
    BY <1>3, <1>4, <1>9, <2>2, <2>3, BecomeGood DEF SendFails, Stage
<1>10. CASE SendSucceeds(e)
  <2>. DEFINE n == [t EXCEPT !.accepted = @ \cup {t.pos}]
  <2>1. t.accepted \cup {t.pos} \in SUBSET (Nat \ {0})
    BY <1>1 DEF Task
  <2>2. n \in Task
    BY <1>1, <2>1, FieldUpdate
  <2>3. n.accepted = {t.pos} /\ Become(e, EnterStage(n, "ACTUATE"))
    BY <1>1, <1>3, <1>10 DEF SendSucceeds, Task
  <2>. HIDE DEF n
  <2>4. Good(EnterStage(n, "ACTUATE"))
    BY <1>1, <2>2, <2>3, EnterStageGood DEF Stage
  <2>. QED
    BY <2>3, <2>4, BecomeGood
<1>11. CASE DisplayReturns(e)
  <2>1. Good(EnterStage(t, "RESPONSE"))
    BY <1>1, <1>3, EnterStageGood DEF Stage
  <2>. QED
    BY <1>11, <2>1, BecomeGood DEF DisplayReturns
<1>12. CASE HalRaises(e)
  BY <1>12, EndedGood, BecomeGood DEF HalRaises, Finished
<1>. QED
  BY <1>6, <1>7, <1>8, <1>9, <1>10, <1>11, <1>12 DEF HalStep

----------------------------------------------------------------------------
(* The hook list changes under the iteration.                              *)

\* What stands from a position on still stands from there after an element at or
\* behind it was taken out, if it stands anywhere: the element taken out was the
\* first of its value.
LEMMA AheadOfRemoved ==
  ASSUME NEW S, NEW list \in Seq(S), NEW at \in DOMAIN list, NEW pos \in Nat \ {0}, pos <= at,
         \A i \in 1 .. at - 1 : list[i] # list[at],
         NEW i \in pos .. Len(list), list[i] \in ToSet(RemoveAt(list, at))
  PROVE  \E k \in pos .. Len(RemoveAt(list, at)) : RemoveAt(list, at)[k] = list[i]
<1>. DEFINE rest == RemoveAt(list, at)
<1>1. /\ rest \in Seq(S) /\ Len(rest) = Len(list) - 1
      /\ \A k \in 1 .. at - 1 : rest[k] = list[k]
      /\ \A k \in at .. Len(list) - 1 : rest[k] = list[k + 1]
  <2>. DEFINE a == SubSeq(list, 1, at - 1)
              b == SubSeq(list, at + 1, Len(list))
  <2>1. /\ a \in Seq(S) /\ b \in Seq(S) /\ Len(a) = at - 1 /\ Len(b) = Len(list) - at
        /\ \A k \in 1 .. at - 1 : a[k] = list[k]
        /\ \A k \in 1 .. Len(list) - at : b[k] = list[at + k]
    <3>1. at \in Nat /\ Len(list) \in Nat /\ at >= 1 /\ at <= Len(list)
      OBVIOUS
    <3>2. a \in Seq(S) /\ Len(a) = at - 1 /\ \A k \in 1 .. at - 1 : a[k] = list[k]
      BY <3>1
    <3>3. b \in Seq(S) /\ Len(b) = Len(list) - at
          /\ \A k \in 1 .. Len(list) - at : b[k] = list[at + k]
      BY <3>1
    <3>. QED
      BY <3>2, <3>3
  <2>2. rest = a \o b
    BY DEF RemoveAt
  <2>3. at \in Nat /\ Len(list) \in Nat /\ at >= 1 /\ at <= Len(list)
    OBVIOUS
  <2>. HIDE DEF a, b, rest
  <2>4. /\ rest \in Seq(S) /\ Len(rest) = Len(list) - 1
        /\ \A k \in 1 .. Len(a) : rest[k] = a[k]
        /\ \A k \in Len(a) + 1 .. Len(a) + Len(b) : rest[k] = b[k - Len(a)]
    <3>1. /\ a \o b \in Seq(S) /\ Len(a \o b) = Len(a) + Len(b)
          /\ \A k \in 1 .. Len(a) + Len(b) :
               (a \o b)[k] = IF k <= Len(a) THEN a[k] ELSE b[k - Len(a)]
      BY <2>1, ConcatProperties, ZenonT(40)
    <3>2. rest \in Seq(S) /\ Len(rest) = Len(list) - 1
      BY <2>1, <2>2, <2>3, <3>1
    <3>3. Len(a) \in Nat /\ Len(b) \in Nat
      BY <2>1
    <3>4. \A k \in 1 .. Len(a) : rest[k] = a[k]
      BY <2>2, <3>1, <3>3
    <3>5. \A k \in Len(a) + 1 .. Len(a) + Len(b) : rest[k] = b[k - Len(a)]
      BY <2>2, <3>1, <3>3
    <3>. QED
      BY <3>2, <3>4, <3>5
  <2>5. ASSUME NEW k \in at .. Len(list) - 1
        PROVE  rest[k] = list[k + 1]
    <3>. DEFINE j == k - (at - 1)
    <3>0. PICK n \in Nat : n = Len(list)
      BY <2>3
    <3>1. /\ k \in Len(a) + 1 .. Len(a) + Len(b) /\ k - Len(a) = j
          /\ j \in 1 .. Len(list) - at /\ at + j = k + 1
      <4>1. Len(a) = at - 1 /\ Len(b) = n - at /\ k \in at .. n - 1
        BY <2>1, <3>0
      <4>2. k \in Int /\ at <= k /\ k <= n - 1 /\ at \in Int
        BY <2>3, <4>1
      <4>3. (at - 1) + 1 = at /\ (at - 1) + (n - at) = n - 1
        BY <4>2
      <4>4. j \in 1 .. n - at /\ at + j = k + 1
        BY <4>2
      <4>. QED
        BY <3>0, <4>1, <4>3, <4>4
    <3>. HIDE DEF j
    <3>2. rest[k] = b[j] /\ b[j] = list[at + j]
      BY <2>1, <2>4, <3>1
    <3>. QED
      BY <3>1, <3>2
  <2>. QED
    BY <2>1, <2>4, <2>5
<1>. HIDE DEF rest
<1>2. at \in Nat /\ Len(list) \in Nat /\ at <= Len(list) /\ i \in Nat
  OBVIOUS
<1>3. CASE i < at
  <2>1. i \in 1 .. at - 1 /\ i \in pos .. Len(list) - 1
    BY <1>2, <1>3
  <2>. QED
    BY <1>1, <2>1 DEF rest
<1>4. CASE i > at
  <2>1. i - 1 \in pos .. Len(list) - 1 /\ i - 1 \in at .. Len(list) - 1
    BY <1>2, <1>4
  <2>2. rest[i - 1] = list[i]
    BY <1>1, <2>1
  <2>. QED
    BY <1>1, <2>1, <2>2 DEF rest
<1>5. CASE i = at
  <2>1. PICK k \in 1 .. Len(rest) : rest[k] = list[at]
    BY <1>1, <1>5 DEF ToSet, rest
  <2>2. ~(k < at)
    BY <1>1, <1>2, <2>1
  <2>. QED
    BY <1>1, <1>2, <1>5, <2>1, <2>2 DEF rest
<1>. QED
  BY <1>2, <1>3, <1>4, <1>5

LEMMA HooksChangeGood ==
  ASSUME IInv, TaskInv, NEW c \in config.changes, AddHook(c[1], c[2]) \/ RemoveHook(c[1], c[2])
  PROVE  TaskInv'
<1>. DEFINE s == c[1]
            h == c[2]
<1>1. /\ s \in Stage /\ h \in Hook /\ hooks \in [Stage -> Seq(Hook)] /\ task \in [Event -> Task]
  BY SetupAssumption DEF IInv, TypeOK
<1>2. CASE AddHook(s, h)
  <2>1. hooks' = [hooks EXCEPT ![s] = Append(@, h)] /\ UNCHANGED <<config, task>>
    BY <1>2 DEF AddHook
  <2>2. ASSUME NEW e \in Event
        PROVE  Good(task[e])'
    <3>1. /\ Good(task[e]) /\ task'[e] = task[e] /\ task[e].stage \in Stage
          /\ task[e].pos \in Nat \ {0}
      BY <1>1, <2>1 DEF TaskInv, Task
    <3>2. \A i \in task[e].pos .. Len(hooks[task[e].stage]) :
            /\ i \in task[e].pos .. Len(hooks'[task[e].stage])
            /\ hooks'[task[e].stage][i] = hooks[task[e].stage][i]
      BY <1>1, <2>1, <3>1
    <3>3. Ahead(task[e]) \subseteq Ahead(task[e])'
      BY <3>1, <3>2 DEF Ahead
    <3>. QED
      BY <2>1, <3>1, <3>3 DEF Good, Once, OwedAhead, MaxAttempts
  <2>. QED
    BY <2>2 DEF TaskInv
<1>3. CASE RemoveHook(s, h)
  <2>1. PICK at \in DOMAIN hooks[s] :
          /\ hooks[s][at] = h
          /\ \A i \in 1 .. at - 1 : hooks[s][i] # h
          /\ hooks' = [hooks EXCEPT ![s] = RemoveAt(hooks[s], at)]
          /\ UNCHANGED config
          /\ task' = [e \in Event |->
               IF task[e].stage = s /\ task[e].pc \in {"stage", "hook", "backoff"}
               THEN [task[e] EXCEPT !.owed = @ \cap ToSet(RemoveAt(hooks[s], at)),
                                    !.excused = @ \/ at < task[e].pos]
               ELSE task[e]]
    BY <1>3 DEF RemoveHook
  <2>. DEFINE rest == RemoveAt(hooks[s], at)
  <2>2. ASSUME NEW e \in Event
        PROVE  Good(task[e])'
    <3>. DEFINE t == task[e]
    <3>1. t \in Task /\ Good(t)
      BY <1>1 DEF TaskInv
    <3>2. CASE t.stage = s /\ t.pc \in {"stage", "hook", "backoff"}
      <4>. DEFINE n == [t EXCEPT !.owed = @ \cap ToSet(rest), !.excused = @ \/ at < t.pos]
      <4>1. task'[e] = n /\ hooks'[s] = rest
        BY <1>1, <2>1, <3>2
      <4>2. /\ n.pc = t.pc /\ n.stage = s /\ n.pos = t.pos /\ n.hook = t.hook
            /\ n.accepted = t.accepted /\ n.owed = t.owed \cap ToSet(rest)
            /\ n.excused = (t.excused \/ at < t.pos)
        BY <3>1, <3>2 DEF Task
      <4>3. MaxAttempts' = MaxAttempts
        BY <2>1 DEF MaxAttempts
      <4>. DEFINE awaited == IF t.pc = "stage" THEN {} ELSE {t.hook}
      <4>4. ASSUME ~n.excused, MaxAttempts # 0, NEW x \in n.owed, x \notin awaited
            PROVE  x \in {rest[k] : k \in n.pos .. Len(rest)}
        <5>1. x \in ToSet(rest) /\ x \in Ahead(t)
          BY <3>1, <3>2, <4>2, <4>4 DEF Good, OwedAhead
        <5>2. PICK i \in t.pos .. Len(hooks[s]) : x = hooks[s][i]
          BY <3>2, <5>1 DEF Ahead
        <5>3. t.pos \in Nat \ {0} /\ at \in Nat /\ t.pos <= at
          <6>1. t.pos \in Nat \ {0} /\ at \in Nat
            BY <1>1, <3>1 DEF Task
          <6>2. ~(at < t.pos)
            BY <4>2, <4>4
          <6>. QED
            BY <6>1, <6>2
        <5>4. \E k \in t.pos .. Len(rest) : rest[k] = hooks[s][i]
          <6>1. hooks[s] \in Seq(Hook) /\ hooks[s][i] \in ToSet(RemoveAt(hooks[s], at))
            BY <1>1, <5>1, <5>2
          <6>2. \A j \in 1 .. at - 1 : hooks[s][j] # hooks[s][at]
            BY <2>1
          <6>3. at \in DOMAIN hooks[s]
            OBVIOUS
          <6>. DEFINE list == hooks[s]
                      pos == t.pos
          <6>4. /\ list \in Seq(Hook) /\ at \in DOMAIN list /\ pos \in Nat \ {0} /\ pos <= at
                /\ \A j \in 1 .. at - 1 : list[j] # list[at]
                /\ i \in pos .. Len(list) /\ list[i] \in ToSet(RemoveAt(list, at))
            BY <5>2, <5>3, <6>1, <6>2, <6>3
          <6>. HIDE DEF list, pos
          <6>5. \E k \in pos .. Len(RemoveAt(list, at)) : RemoveAt(list, at)[k] = list[i]
            BY <6>4, AheadOfRemoved
          <6>. QED
            BY <6>5 DEF list, pos
        <5>. QED
          BY <4>2, <5>2, <5>4
      <4>5. OwedAhead(task[e])'
        <5>. HIDE DEF n, rest
        <5>1. Ahead(task[e])' = {rest[k] : k \in n.pos .. Len(rest)}
          BY <4>1, <4>2 DEF Ahead
        <5>. QED
          BY <4>1, <4>2, <4>3, <4>4, <5>1 DEF OwedAhead
      <4>6. Once(task[e])'
        <5>. HIDE DEF n
        <5>. QED
          BY <3>1, <3>2, <4>1, <4>2 DEF Good, Once
      <4>. QED
        BY <4>5, <4>6 DEF Good
    <3>3. CASE t.stage # s \/ t.pc \notin {"stage", "hook", "backoff"}
      <4>1. task'[e] = t /\ MaxAttempts' = MaxAttempts /\ (t.stage # s => hooks'[t.stage] = hooks[t.stage])
        BY <1>1, <2>1, <3>1, <3>3 DEF MaxAttempts, Task
      <4>. QED
        BY <3>1, <3>3, <4>1 DEF Good, Once, OwedAhead, Ahead
    <3>. QED
      BY <3>2, <3>3
  <2>. QED
    BY <2>2 DEF TaskInv
<1>. QED
  BY <1>2, <1>3

\* Steps that change one task which is in no stage before, and begins one or not.
LEMMA BeginGood ==
  ASSUME IInv, TaskInv, NEW e \in Event, NEW next, Good(next),
         task' = [task EXCEPT ![e] = next], UNCHANGED <<config, hooks>>
  PROVE  TaskInv'
<1>1. \A x \in Event : task'[x] = IF x = e THEN next ELSE task[x]
  BY DEF IInv, TypeOK
<1>2. ASSUME NEW x \in Event
      PROVE  Good(task[x])'
  <2>1. Good(task'[x])
    BY <1>1 DEF TaskInv
  <2>. QED
    BY <2>1 DEF Good, Once, OwedAhead, Ahead, MaxAttempts
<1>. QED
  BY <1>2 DEF TaskInv

LEMMA QueueGood ==
  ASSUME IInv, TaskInv, NEW e \in Event,
         \/ \E l \in Run : PollTrigger(l, e)
         \/ Enqueue(e) \/ Acquire(e) \/ RunOnce(e)
  PROVE  TaskInv'
<1>. DEFINE t == task[e]
<1>1. /\ task \in [Event -> Task] /\ t \in Task /\ TypeOK /\ Good(t)
      /\ t.pc \in {"idle", "scheduled", "queued"}
  BY DEF IInv, TypeOK, TaskInv, PollTrigger, Enqueue, Acquire, RunOnce
<1>2. t.accepted = {}
  BY <1>1 DEF Good, Once
<1>3. UNCHANGED <<config, hooks>>
  BY DEF PollTrigger, Enqueue, Acquire, RunOnce
<1>4. CASE \E l \in Run : PollTrigger(l, e)
  <2>. DEFINE n == [t EXCEPT !.pc = "scheduled"]
  <2>1. task' = [task EXCEPT ![e] = n] /\ n.pc = "scheduled" /\ n.accepted = {}
    BY <1>1, <1>2, <1>4 DEF PollTrigger, Task
  <2>. HIDE DEF n
  <2>2. Good(n)
    BY <2>1 DEF Good, Once, OwedAhead
  <2>. QED
    BY <1>3, <2>1, <2>2, BeginGood
<1>5. CASE Enqueue(e)
  <2>. DEFINE n == [t EXCEPT !.pc = "queued", !.sem = current]
  <2>1. task' = [task EXCEPT ![e] = n] /\ n.pc = "queued" /\ n.accepted = {}
    BY <1>1, <1>2, <1>5 DEF Enqueue, Task
  <2>. HIDE DEF n
  <2>2. Good(n)
    BY <2>1 DEF Good, Once, OwedAhead
  <2>. QED
    BY <1>3, <2>1, <2>2, BeginGood
<1>6. CASE Acquire(e) \/ RunOnce(e)
  <2>1. task' = [task EXCEPT ![e] = EnterStage(t, "TRIGGER")]
    BY <1>6 DEF Acquire, RunOnce
  <2>2. Good(EnterStage(t, "TRIGGER"))
    BY <1>1, <1>2, EnterStageGood DEF Stage
  <2>. QED
    BY <1>3, <2>1, <2>2, BeginGood
<1>. QED
  BY <1>4, <1>5, <1>6

----------------------------------------------------------------------------
LEMMA InitGood == Init => TaskInv
<1>1. IdleTask.accepted = {} /\ IdleTask.pc = "idle"
  BY DEF IdleTask
<1>. QED
  BY <1>1 DEF Init, TaskInv, Good, Once, OwedAhead

LEMMA NextGood == IInv /\ TaskInv /\ [Next]_vars => TaskInv'
<1>. SUFFICES ASSUME IInv, TaskInv, [Next]_vars PROVE TaskInv'
  OBVIOUS
<1>1. ASSUME UNCHANGED <<config, hooks, task>>
      PROVE  TaskInv'
  BY <1>1 DEF TaskInv, Good, Once, OwedAhead, Ahead, MaxAttempts
<1>2. CASE StartRun \/ Stop
  BY <1>1, <1>2 DEF StartRun, Stop
<1>3. ASSUME NEW l \in Run, LoopStep(l) \/ LoopAborts(l)
      PROVE  TaskInv'
  <2>1. CASE PollQuiet(l) \/ EndSleep(l) \/ LoopAborts(l)
    BY <1>1, <2>1 DEF PollQuiet, EndSleep, LoopAborts
  <2>2. ASSUME NEW e \in Event, PollTrigger(l, e)
        PROVE  TaskInv'
    BY <2>2, QueueGood
  <2>. QED
    BY <1>3, <2>1, <2>2 DEF LoopStep
<1>4. ASSUME NEW c \in config.changes, AddHook(c[1], c[2]) \/ RemoveHook(c[1], c[2])
      PROVE  TaskInv'
  BY <1>4, HooksChangeGood
<1>5. ASSUME NEW e \in Event,
             \/ Enqueue(e) \/ Acquire(e) \/ RunOnce(e)
             \/ StageStep(e) \/ HookSettles(e) \/ HalStep(e)
      PROVE  TaskInv'
  BY <1>5, QueueGood, StageStepGood, HookSettlesGood, HalStepGood
<1>6. CASE UNCHANGED vars
  BY <1>1, <1>6 DEF vars
<1>. QED
  BY <1>2, <1>3, <1>4, <1>5, <1>6 DEF Next

LEMMA SpecGood == Spec => [](IInv /\ TaskInv)
<1>1. Init => IInv /\ TaskInv
  BY InitInv, InitGood
<1>2. IInv /\ TaskInv /\ [Next]_vars => (IInv /\ TaskInv)'
  BY NextInv, NextGood
<1>. QED
  BY <1>1, <1>2, PTL DEF Spec

(* One packet, one delivery, whatever transports, hooks and HALs fail: the *)
(* `break` after the transport that accepted it ends the loop for good.    *)
THEOREM PacketsDeliveredOnce == Spec => []AtMostOneDelivery
<1>1. IInv /\ TaskInv => AtMostOneDelivery
  <2>. SUFFICES ASSUME IInv, TaskInv, NEW e \in Event
                PROVE  /\ Cardinality(task[e].accepted) <= 1
                       /\ task[e].pc = "transport" => task[e].accepted = {}
    BY DEF AtMostOneDelivery
  <2>1. Once(task[e])
    BY DEF TaskInv, Good
  <2>2. task[e].pc = "transport" => task[e].accepted = {}
    BY <2>1 DEF Once
  <2>3. CASE task[e].accepted = {}
    BY <2>2, <2>3, FS_EmptySet
  <2>4. CASE \E x \in task[e].accepted : task[e].accepted = {x}
    <3>1. PICK x \in task[e].accepted : task[e].accepted = {x}
      BY <2>4
    <3>2. Cardinality({x}) = 1
      BY FS_Singleton
    <3>. QED
      BY <2>2, <3>1, <3>2
  <2>. QED
    BY <2>1, <2>3, <2>4 DEF Once
<1>. QED
  BY <1>1, SpecGood, PTL

(* _run_stage calls every hook registered since the stage began, although  *)
(* add_hook and remove_hook change the list it iterates over.              *)
THEOREM NoHookLeftOut == Spec => []StageHooksComplete
<1>1. IInv /\ TaskInv => StageHooksComplete
  <2>. SUFFICES ASSUME IInv, TaskInv, NEW e \in Event, task[e].pc = "stage",
                       task[e].pos > Len(hooks[task[e].stage])
                PROVE  task[e].owed = {} \/ task[e].excused \/ MaxAttempts = 0
    BY DEF StageHooksComplete
  <2>1. /\ OwedAhead(task[e]) /\ task[e] \in Task /\ hooks[task[e].stage] \in Seq(Hook)
    BY DEF TaskInv, Good, IInv, TypeOK, Task
  <2>2. task[e].pos \in Nat /\ Len(hooks[task[e].stage]) \in Nat
    BY <2>1 DEF Task
  <2>3. Ahead(task[e]) = {}
    BY <2>2 DEF Ahead
  <2>. QED
    BY <2>1, <2>3 DEF OwedAhead
<1>. QED
  BY <1>1, SpecGood, PTL

============================================================================
