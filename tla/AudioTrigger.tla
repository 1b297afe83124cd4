---------------------------- MODULE AudioTrigger ----------------------------
(***************************************************************************)
(* triggers/audio_trigger.py: AudioTriggerDetector.                        *)
(*                                                                         *)
(* start() begins a thread that records one burst after another and drives *)
(* the states IDLE, DETECTING, TRIGGERED and COOLDOWN from its loudness;   *)
(* stop() clears _running and joins that thread for at most three seconds, *)
(* while a burst may take four.  A restart in between therefore leaves two *)
(* threads that drive one state: each access to it is locked, the decision *)
(* made between two accesses is not.                                       *)
(*                                                                         *)
(* Time is counted in ticks: age is what _elapsed_in_state_ms returns, and *)
(* is not counted past CoolTicks.  The sound card records for one program  *)
(* at a time; mic is the one that has it.                                  *)
(***************************************************************************)
EXTENDS Naturals, FiniteSets

CONSTANTS Loops,      \* the threads start() may create, one per call
          MinTicks,   \* min_duration_ms
          CoolTicks,  \* cooldown_ms
          Nobody

ASSUME TicksAssumption == /\ MinTicks \in Nat /\ CoolTicks \in Nat
                          /\ MinTicks <= CoolTicks

VARIABLES running,  \* _running
          thread,   \* _thread, Nobody before the first start
          loop,     \* what each thread is about to do
          seen,     \* the burst's loudness and the state it read
          astate,   \* _state
          age,      \* ticks since _state_entered_ms
          mic       \* who records from the sound card

States == {"IDLE", "DETECTING", "TRIGGERED", "COOLDOWN"}

Unseen == [loud |-> FALSE, state |-> "IDLE"]

triggerVars == <<running, thread, loop, seen, astate, age, mic>>

TriggerInit == /\ running = FALSE /\ thread = Nobody
               /\ loop = [l \in Loops |-> "unborn"]
               /\ seen = [l \in Loops |-> Unseen]
               /\ astate = "IDLE" /\ age = 0
               /\ mic = Nobody

Live == {l \in Loops : loop[l] \notin {"unborn", "dead"}}

-----------------------------------------------------------------------------
(* start() and the two halves of stop().                                   *)

\* start() does nothing while _running.
Start(l) == /\ ~running /\ loop[l] = "unborn"
            /\ running' = TRUE
            /\ thread' = l
            /\ loop' = [loop EXCEPT ![l] = "top"]
            /\ UNCHANGED <<seen, astate, age, mic>>

ClearRunning == /\ running' = FALSE
                /\ UNCHANGED <<thread, loop, seen, astate, age, mic>>

\* join(timeout=3.0): the thread has ended, or is held up in a burst.
Joined == thread \in Live => loop[thread] = "burst"

-----------------------------------------------------------------------------
(* One thread.                                                             *)

Goto(l, pc) == loop' = [loop EXCEPT ![l] = pc]

\* Deliberate fault: _running is not looked at.
Top_Deaf(l) ==
    /\ loop[l] = "top"
    /\ \/ mic = Nobody /\ Goto(l, "burst") /\ mic' = l
       \/ mic # Nobody /\ Goto(l, "top") /\ mic' = mic
    /\ UNCHANGED <<running, thread, seen, astate, age>>

\* while self._running; arecord fails at once when the card is taken.
Top(l) == /\ loop[l] = "top"
          /\ \/ ~running /\ Goto(l, "dead") /\ mic' = mic
             \/ running /\ mic = Nobody /\ Goto(l, "burst") /\ mic' = l
             \/ running /\ mic # Nobody /\ Goto(l, "top") /\ mic' = mic
          /\ UNCHANGED <<running, thread, seen, astate, age>>

\* The burst ends: heard, and the state read under its lock, or failed or
\* timed out (0.5 s, then the next one).
Burst(l, loud) == /\ loop[l] = "burst"
                  /\ mic' = Nobody
                  /\ Goto(l, "decide")
                  /\ seen' = [seen EXCEPT ![l] = [loud |-> loud, state |-> astate]]
                  /\ UNCHANGED <<running, thread, astate, age>>

BurstFails(l) == /\ loop[l] = "burst"
                 /\ mic' = Nobody
                 /\ Goto(l, "top")
                 /\ UNCHANGED <<running, thread, seen, astate, age>>

\* Deliberate fault: the cooldown ends without waiting.
Wanted_Eager(state, loud, elapsed) ==
    CASE state = "IDLE"      -> IF loud THEN "DETECTING" ELSE state
      [] state = "DETECTING" -> IF ~loud THEN "IDLE"
                                ELSE IF elapsed >= MinTicks THEN "TRIGGERED" ELSE state
      [] state = "COOLDOWN"  -> "IDLE"
      [] state = "TRIGGERED" -> "COOLDOWN"

\* The state a burst asks for, from the state read, the loudness and the age.
Wanted(state, loud, elapsed) ==
    CASE state = "IDLE"      -> IF loud THEN "DETECTING" ELSE state
      [] state = "DETECTING" -> IF ~loud THEN "IDLE"
                                ELSE IF elapsed >= MinTicks THEN "TRIGGERED" ELSE state
      [] state = "COOLDOWN"  -> IF elapsed >= CoolTicks THEN "IDLE" ELSE state
      [] state = "TRIGGERED" -> "COOLDOWN"

Enter(s) == astate' = s /\ age' = 0

\* _transition: the state is written only when it is to change.
Decide(l) ==
    LET wanted == Wanted(seen[l].state, seen[l].loud, age) IN
    /\ loop[l] = "decide"
    /\ IF wanted = seen[l].state THEN UNCHANGED <<astate, age>> ELSE Enter(wanted)
    /\ Goto(l, IF wanted = "TRIGGERED" THEN "fire" ELSE "top")
    /\ seen' = [seen EXCEPT ![l] = Unseen]
    /\ UNCHANGED <<running, thread, mic>>

\* _fire starts the callback's thread; what that does is the composition's.
Fire(l) == /\ loop[l] = "fire"
           /\ Goto(l, "cool")
           /\ UNCHANGED <<running, thread, seen, astate, age, mic>>

Cool(l) == /\ loop[l] = "cool"
           /\ Enter("COOLDOWN")
           /\ Goto(l, "top")
           /\ UNCHANGED <<running, thread, seen, mic>>

Later(t) == IF t < CoolTicks THEN t + 1 ELSE t

=============================================================================
