------------------------ MODULE DistillerContextLoop ------------------------
(***************************************************************************)
(* distiller_context_loop.py: DistillerContextLoop, over the detector of   *)
(* AudioTrigger, the ContextBuilder of core/context_builder.py and the     *)
(* Distiller's microphone, e-ink panel and speaker.                        *)
(*                                                                         *)
(* Every trigger is handled in a thread of its own: it records, looks,     *)
(* scans, posts the context to the gateway and renders the answer in two   *)
(* further threads, or an "Offline" card itself.  A handler takes longer   *)
(* than the cooldown, so several are in flight: they share the microphone  *)
(* with each other and with the detector.                                  *)
(*                                                                         *)
(* Handlers is the number of handlers in flight; a slot is used again.     *)
(***************************************************************************)
EXTENDS AudioTrigger

CONSTANT Handlers

\* Who may record from the sound card are threads of either kind, or nobody.
ASSUME SlotsAssumption == Loops \cap Handlers = {} /\ Nobody \notin Loops \cup Handlers

VARIABLES hasMic,     \* mic_hal is not None
          hasDisplay, \* display_hal is not None
          runner,     \* run()
          stopEvent,  \* _stop_event
          handler,    \* _on_audio_trigger, one per slot
          show,       \* its display_hal.show, in a thread or its own
          overlap,    \* two detector threads were alive at once
          quiet,      \* ticks since a trigger fired
          late        \* triggers fired since _running was cleared

handling == <<handler, show>>
control == <<hasMic, hasDisplay, runner, stopEvent>>
history == <<overlap, quiet, late>>
vars == <<triggerVars, handling, control, history>>

Init == /\ TriggerInit
        /\ hasMic \in BOOLEAN /\ hasDisplay \in BOOLEAN /\ runner = "out" /\ stopEvent = FALSE
        /\ handler = [h \in Handlers |-> "free"]
        /\ show = [h \in Handlers |-> "idle"]
        /\ overlap = FALSE /\ quiet = CoolTicks /\ late = 0

-----------------------------------------------------------------------------
(* run() and stop().                                                       *)

\* The threads not started yet, which are taken in some fixed order.
Unborn == {l \in Loops : loop[l] = "unborn"}

\* run returns at once without a microphone.
Run == /\ runner = "out" /\ hasMic
       /\ runner' = "blocked"
       /\ Unborn # {} /\ Start(CHOOSE l \in Unborn : TRUE)
       /\ overlap' = (overlap \/ Live # {})
       /\ late' = 0
       /\ UNCHANGED <<handling, hasMic, hasDisplay, stopEvent, quiet>>

\* The event was set, or Ctrl-C was pressed: finally self.stop().
Leave == /\ runner = "blocked"
         /\ runner' = "joining" /\ stopEvent' = TRUE
         /\ ClearRunning
         /\ UNCHANGED <<handling, hasMic, hasDisplay, history>>

Left == /\ runner = "joining" /\ Joined
        /\ runner' = "out"
        /\ UNCHANGED <<triggerVars, handling, hasMic, hasDisplay, stopEvent, history>>

\* stop() from another thread; that it waits too concerns only its caller.
Stop == /\ ~stopEvent
        /\ stopEvent' = TRUE
        /\ ClearRunning
        /\ UNCHANGED <<handling, hasMic, hasDisplay, runner, history>>

-----------------------------------------------------------------------------
(* The detector's threads, and the clock.                                  *)

Listen(l) == /\ \/ Top(l) \/ Burst(l, TRUE) \/ Decide(l) \/ Cool(l)
             /\ UNCHANGED <<handling, control, history>>

Unheard(l) == BurstFails(l) \/ Burst(l, FALSE)
BurstLost(l) == Unheard(l) /\ UNCHANGED <<handling, control, history>>

Free(h) == handler[h] = "free" /\ show[h] = "idle"

FireInto(l, h) == /\ Free(h)
                  /\ Fire(l)
                  /\ handler' = [handler EXCEPT ![h] = "audio"]
                  /\ quiet' = 0
                  /\ late' = IF running THEN late ELSE late + 1
                  /\ UNCHANGED <<show, control, overlap>>

Tick == /\ age < CoolTicks \/ quiet < CoolTicks
        /\ age' = Later(age) /\ quiet' = Later(quiet)
        /\ UNCHANGED <<running, thread, loop, seen, astate, mic>>
        /\ UNCHANGED <<handling, control, overlap, late>>

-----------------------------------------------------------------------------
(* _on_audio_trigger: context_builder.build, one sensor after the other.   *)

At(h, pc) == handler[h] = pc
Goes(h, pc) == handler' = [handler EXCEPT ![h] = pc]
OnlyHandler == UNCHANGED <<running, thread, loop, seen, astate, age, control, history>>

\* Deliberate fault: arecord without its timeout, on a card that hangs.
BuildAudio_Hangs(h) ==
    /\ \/ At(h, "audio") /\ mic = Nobody /\ mic' = h /\ Goes(h, "record")
       \/ At(h, "audio") /\ mic # Nobody /\ mic' = mic /\ Goes(h, "rest")
    /\ OnlyHandler /\ UNCHANGED show

\* _build_audio: arecord again; a card that is taken gives audio = None.
BuildAudio(h) == /\ \/ At(h, "audio") /\ mic = Nobody /\ mic' = h /\ Goes(h, "record")
                    \/ At(h, "audio") /\ mic # Nobody /\ mic' = mic /\ Goes(h, "rest")
                    \/ At(h, "record") /\ mic' = Nobody /\ Goes(h, "rest")
                 /\ OnlyHandler /\ UNCHANGED show

\* The rest: _build_visual and _build_proximity catch what a capture or a
\* scan raises, and the channel is None; _post_to_gateway answers within ten
\* seconds.  With a text the card is drawn in a thread (beside one that speaks
\* it), with None the handler draws an "Offline" card itself; without a panel
\* nothing is drawn.
Render(h) == /\ At(h, "rest") /\ Goes(h, "free")
             /\ show' = IF hasDisplay THEN [show EXCEPT ![h] = "draw"] ELSE show
             /\ OnlyHandler /\ UNCHANGED mic

\* Or the gateway's "response" is a number or an object and not a text: the
\* handler's response_text[:100] raises, which it logs, and nothing is drawn.
NoText(h) == /\ \/ At(h, "rest") /\ Goes(h, "data")
                \/ At(h, "data") /\ Goes(h, "free")
             /\ OnlyHandler /\ UNCHANGED <<mic, show>>

\* DistillerEinkDisplayHAL.show: drawn, or failed and logged.
Draw(h) == /\ show[h] = "draw"
           /\ show' = [show EXCEPT ![h] = "idle"]
           /\ UNCHANGED <<triggerVars, control, history, handler>>

Work(h) == BuildAudio(h) \/ Render(h) \/ NoText(h)

Next == \/ Run \/ Leave \/ Left \/ Stop \/ Tick
        \/ \E l \in Loops : Listen(l) \/ BurstLost(l) \/ \E h \in Handlers : FireInto(l, h)
        \/ \E h \in Handlers : Work(h) \/ Draw(h)

(***************************************************************************)
(* Threads are scheduled, and every blocking call ends: arecord, aplay and *)
(* urlopen have timeouts.  Nobody has to call run or stop.                 *)
(***************************************************************************)
Fairness == /\ WF_vars(Tick) /\ WF_vars(Left)
            /\ \A l \in Loops : /\ WF_vars(Listen(l) \/ BurstLost(l))
                                /\ WF_vars(\E h \in Handlers : FireInto(l, h))
            /\ \A h \in Handlers : WF_vars(Work(h)) /\ WF_vars(Draw(h))

Spec == Init /\ [][Next]_vars /\ Fairness

-----------------------------------------------------------------------------
(* Properties.                                                             *)

\* Every variable keeps the values its comment names, and the microphone
\* belongs to whoever is recording.
TypeOK ==
    /\ running \in BOOLEAN /\ thread \in Loops \cup {Nobody}
    /\ loop \in [Loops -> {"unborn", "top", "burst", "decide", "fire", "cool", "dead"}]
    /\ seen \in [Loops -> [loud : BOOLEAN, state : States]]
    /\ astate \in States /\ age \in 0..CoolTicks /\ quiet \in 0..CoolTicks
    /\ runner \in {"out", "blocked", "joining"}
    /\ handler \in [Handlers -> {"free", "audio", "record", "rest", "data"}]
    /\ show \in [Handlers -> {"idle", "draw"}]
    /\ \A l \in Loops : loop[l] = "burst" <=> mic = l
    /\ \A h \in Handlers : handler[h] = "record" <=> mic = h
    /\ late \in Nat /\ {hasMic, hasDisplay, stopEvent, overlap} \subseteq BOOLEAN

Fires(l) == loop[l] = "fire" /\ loop'[l] = "cool"

\* While a restart has not left two threads of the detector behind, two
\* triggers are a cooldown apart, across stops and starts too: the state
\* outlives the thread that set it.
CooldownHolds == [][(\E l \in Loops : Fires(l)) => quiet >= CoolTicks \/ overlap]_vars

\* A burst that was being recorded when stop() cleared _running may still
\* fire, though stop() has returned; nothing fires after that one.
OneLateTrigger == ~overlap => late <= 1

\* With a panel every trigger ends in a card, the gateway's or the "Offline"
\* one, whatever the sensors do, and though the microphone is another's.  The
\* one error that ends a handler without a card is an answer that is no text.
TriggerShown == \A h \in Handlers :
    hasDisplay /\ handler[h] = "audio" ~> show[h] = "draw" \/ handler[h] = "data"

\* Speech that goes on, with a detector that runs and bursts that can be
\* recorded, fires again and again, though the handlers of earlier triggers
\* take the microphone from it.
SpeechNoticed == (<>[]running /\ <>[][\A l \in Loops : ~Unheard(l)]_vars)
                     => []<>(quiet = 0)

\* Nothing that is said is lost on the way: speech while the trigger listens
\* is noticed, and a trigger ends in a card unless the answer is no text.
TriggersServed == SpeechNoticed /\ TriggerShown
=============================================================================
