--------------------------- MODULE TriggerArbiter ---------------------------
(***************************************************************************)
(* triggers/arbiter.py: events pushed by any number of detector threads    *)
(* become at most one emission per dedup window.  push() and the flush of  *)
(* a timer hold the lock from start to end, so each is one action; a timer *)
(* thread that found itself not cancelled has yet to get the lock, and the *)
(* callback of an emission runs in a thread of its own.                    *)
(*                                                                         *)
(* One assumption about time: a timer's thread has flushed less than a     *)
(* window after its deadline.  Nobody holds the lock for longer than a few *)
(* statements, and the window is half a second.  A flush that came later   *)
(* would emit what was held since the emission before it, cooldown or not: *)
(* _flush_confidence does not look at the time.                            *)
(*                                                                         *)
(* Abstracted: milliseconds (one unit of the clock is any fraction of the  *)
(* window), an event's text (only whether _is_audio holds of its id).      *)
(***************************************************************************)
EXTENDS Naturals, Sequences, FiniteSets, SequencesExt

CONSTANTS
  Event,        \* events the detectors push, each once
  Audio,        \* those whose id says audio, snd or mic
  Confidence,   \* trigger_confidence of each, in hundredths
  Policies,     \* the values of config.policy to consider
  Window,       \* config.dedup_window_ms
  MaxPending,   \* config.max_pending
  MaxTime       \* bound on the clock; pushes stop in time for every timer to expire

Policy == {"FIRST_WINS", "AUDIO_PRIORITY", "VISUAL_PRIORITY", "HIGHEST_CONFIDENCE"}

ASSUME ArbiterAssumption ==
  /\ Audio \subseteq Event /\ Confidence \in [Event -> 0 .. 100] /\ Policies \subseteq Policy
  /\ Window \in Nat \ {0} /\ MaxPending \in Nat /\ MaxTime \in Nat

VARIABLES
  policy,     \* config.policy
  now,        \* time.monotonic()
  lastEmit,   \* self._last_emit_ms
  pending,    \* self._pending
  timers,     \* every flush timer started; the last is self._window_timer
  emitting,   \* emitted events whose callback thread has not called _on_trigger
  delivered,  \* what _on_trigger received, in order
  emissions,  \* history: what _emit was called with, and when that was due
  opened      \* history: each event pushed outside the cooldown, with the
              \* number of emissions before it
vars == <<policy, now, lastEmit, pending, timers, emitting, delivered, emissions, opened>>

pushed == DOMAIN opened
Emitted == {emissions[i].event : i \in DOMAIN emissions}

Init ==
  /\ policy \in Policies
  /\ now = Window          \* the host has been up for longer than a window
  /\ lastEmit = 0
  /\ pending = <<>>
  /\ timers = <<>>
  /\ emitting = {}
  /\ delivered = <<>>
  /\ emissions = <<>>
  /\ opened = <<>>

----------------------------------------------------------------------------
\* Deliberate fault: the time of the emission is not recorded.
Emit_NoCooldown(e, due) ==
  /\ pending' = <<>>
  /\ emitting' = emitting \cup {e}
  /\ emissions' = Append(emissions, [event |-> e, due |-> due, at |-> now])
  /\ UNCHANGED lastEmit

\* _emit, called with the lock held, for an emission due at a given time.
Emit(e, due) ==
  /\ lastEmit' = now
  /\ pending' = <<>>
  /\ emitting' = emitting \cup {e}
  /\ emissions' = Append(emissions, [event |-> e, due |-> due, at |-> now])

\* _is_audio_last: the source of the last emission is not recorded.
IsAudioLast == FALSE

\* _schedule_confidence_flush: cancel() has no effect on a timer that fired.
ScheduleFlush ==
  LET cancelled == [i \in DOMAIN timers |->
                      IF i = Len(timers) /\ timers[i].pc = "armed"
                      THEN [timers[i] EXCEPT !.pc = "cancelled"] ELSE timers[i]]
  IN timers' = Append(cancelled, [deadline |-> now + Window, pc |-> "armed"])

Cooling == now - lastEmit < Window

\* push() within the cooldown.
PushCooling(e) ==
  /\ Cooling
  /\ \/ /\ policy = "FIRST_WINS"
        /\ UNCHANGED <<lastEmit, pending, emitting, emissions>>
     \/ /\ policy = "AUDIO_PRIORITY"
        /\ IF e \in Audio /\ ~IsAudioLast THEN Emit(e, now)
           ELSE UNCHANGED <<lastEmit, pending, emitting, emissions>>
     \/ /\ policy = "VISUAL_PRIORITY"
        /\ IF e \notin Audio /\ IsAudioLast THEN Emit(e, now)
           ELSE UNCHANGED <<lastEmit, pending, emitting, emissions>>
     \/ /\ policy = "HIGHEST_CONFIDENCE"
        /\ pending' = IF Len(pending) < MaxPending THEN Append(pending, e) ELSE pending
        /\ UNCHANGED <<lastEmit, emitting, emissions>>
  /\ UNCHANGED timers

\* Deliberate fault: the event is appended and no flush is scheduled.
PushOpen_NoFlush(e) ==
  /\ ~Cooling
  /\ \/ /\ policy = "HIGHEST_CONFIDENCE"
        /\ pending' = Append(pending, e)
        /\ UNCHANGED <<timers, lastEmit, emitting, emissions>>
     \/ /\ policy # "HIGHEST_CONFIDENCE"
        /\ Emit(e, now)
        /\ UNCHANGED timers

\* push() outside the cooldown: here max_pending is not looked at.
PushOpen(e) ==
  /\ ~Cooling
  /\ \/ /\ policy = "HIGHEST_CONFIDENCE"
        /\ pending' = Append(pending, e)
        /\ ScheduleFlush
        /\ UNCHANGED <<lastEmit, emitting, emissions>>
     \/ /\ policy # "HIGHEST_CONFIDENCE"
        /\ Emit(e, now)
        /\ UNCHANGED timers

Push(e) ==
  /\ e \notin pushed
  /\ now + 2 * Window <= MaxTime
  /\ PushCooling(e) \/ PushOpen(e)
  /\ opened' = [x \in pushed \cup {e} |->
                  IF x \in pushed THEN opened[x]
                  ELSE [open |-> ~Cooling, before |-> Len(emissions)]]
  /\ UNCHANGED <<policy, now, delivered>>

----------------------------------------------------------------------------
\* The timer's wait ends without a cancel: from here cancel() is too late.
TimerFires(i) ==
  /\ timers[i].pc = "armed"
  /\ now >= timers[i].deadline
  /\ timers' = [timers EXCEPT ![i].pc = "firing"]
  /\ UNCHANGED <<policy, now, lastEmit, pending, emitting, delivered, emissions, opened>>

\* max() takes the first of the events with the highest confidence.
Best ==
  LET top == {i \in DOMAIN pending : \A j \in DOMAIN pending :
                                       Confidence[pending[j]] <= Confidence[pending[i]]}
  IN pending[CHOOSE i \in top : \A j \in top : i <= j]

\* _flush_confidence gets the lock.
Flush(i) ==
  /\ timers[i].pc = "firing"
  /\ timers' = [timers EXCEPT ![i].pc = "done"]
  /\ IF pending = <<>>
     THEN UNCHANGED <<lastEmit, pending, emitting, emissions>>
     ELSE Emit(Best, timers[i].deadline)
  /\ UNCHANGED <<policy, now, delivered, opened>>

\* The callback threads are independent: they may run in any order.
Callback(e) ==
  /\ e \in emitting
  /\ emitting' = emitting \ {e}
  /\ delivered' = Append(delivered, e)
  /\ UNCHANGED <<policy, now, lastEmit, pending, timers, emissions, opened>>

Prompt == \A i \in DOMAIN timers :
            timers[i].pc \in {"armed", "firing"} => now + 1 < timers[i].deadline + Window

Tick ==
  /\ now < MaxTime
  /\ Prompt
  /\ now' = now + 1
  /\ UNCHANGED <<policy, lastEmit, pending, timers, emitting, delivered, emissions, opened>>

TimerThread(i) == TimerFires(i) \/ Flush(i)

Next ==
  \/ Tick
  \/ \E e \in Event : Push(e) \/ Callback(e)
  \/ \E i \in DOMAIN timers : TimerThread(i)

(***************************************************************************)
(* Time passes and threads that can run do.  Nothing makes a detector push.*)
(***************************************************************************)
Fairness ==
  /\ WF_vars(Tick)
  /\ \A e \in Event : WF_vars(Callback(e))
  /\ WF_vars(\E i \in DOMAIN timers : TimerThread(i))

Spec == Init /\ [][Next]_vars /\ Fairness

----------------------------------------------------------------------------
(* Type invariant, with what the callback receives: every emission, once.  *)
TypeOK ==
  /\ policy \in Policies
  /\ now \in Nat /\ lastEmit \in Nat /\ lastEmit <= now
  /\ pending \in Seq(Event)
  /\ timers \in Seq([deadline : Nat, pc : {"armed", "cancelled", "firing", "done"}])
  /\ emitting \subseteq Event
  /\ delivered \in Seq(Event)
  /\ emissions \in Seq([event : Event, due : Nat, at : Nat])
  /\ pushed \subseteq Event
  /\ ToSet(delivered) \cup emitting = Emitted

(* The promise of the class docstring, "a dedup_window_ms cooldown         *)
(* suppresses additional events": whatever thread emits, emissions are a   *)
(* window apart and no event is emitted twice.  Two qualifications come    *)
(* from the code: under AUDIO_PRIORITY any audio event preempts, and a     *)
(* timer thread that waits for the lock while another push re-arms the     *)
(* timer shortens the window by its delay (which Prompt bounds).           *)
Dedup == INSTANCE TriggerDedup WITH
           clock <- now,
           lastDue <- IF emissions = <<>> THEN 0 ELSE emissions[Len(emissions)].due,
           emitted <- Emitted,
           preempting <- IF policy = "AUDIO_PRIORITY" THEN Audio ELSE {}
Deduplicates == Dedup!Spec

(* An event pushed outside the cooldown is not lost: it is emitted, or one *)
(* emitted after it arrived was at least as confident.                     *)
OpenEvents == {e \in pushed : opened[e].open}
Answered ==
  {e \in pushed : \E i \in DOMAIN emissions :
                    /\ i > opened[e].before
                    /\ Confidence[emissions[i].event] >= Confidence[e]}
OpenEventAnswered == \A e \in Event : e \in OpenEvents ~> e \in Answered

============================================================================
