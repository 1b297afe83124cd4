---------------------------- MODULE PiAudioOutput ----------------------------
(***************************************************************************)
(* hal/pi3_reference.py: PiAudioOutput.                                    *)
(*                                                                         *)
(* play() stops the sound that plays and starts a thread, which writes the *)
(* sound to one file all sounds share, has aplay play it and polls both    *)
(* aplay and an event that stop() sets.  The thread, the event and the     *)
(* process are attributes: a thread that stop() gave up joining polls,     *)
(* terminates and forgets the aplay of the next one.                       *)
(*                                                                         *)
(* play() holds a lock, and so does the stop() inside it; the stop() of    *)
(* another thread does not.                                                *)
(***************************************************************************)
EXTENDS Naturals, FiniteSets

CONSTANTS Sounds,  \* the sounds played, each with a thread and an aplay of its own
          NoSound

ASSUME AudioAssumption == NoSound \notin Sounds

VARIABLES worker,      \* _worker, per sound
          thread,      \* _thread
          stopEvt,     \* _stop_evt
          proc,        \* _proc
          sounding,    \* sounds whose aplay runs
          file,        \* the sound in the shared file
          voice,       \* the sound each aplay was given
          stop,        \* stop(), inside play() and in another thread
          silenced,    \* that stop() has returned, and no play() begun since
          audioGaveUp  \* a join timed out, or a stop() raised

audioVars == <<worker, thread, stopEvt, proc, sounding, file, voice, stop, silenced, audioGaveUp>>

Places == {"play", "other"}

AudioInit == /\ worker = [s \in Sounds |-> "unborn"]
             /\ thread = NoSound /\ proc = NoSound /\ file = NoSound
             /\ stopEvt = FALSE /\ sounding = {}
             /\ voice = [s \in Sounds |-> NoSound]
             /\ stop = [p \in Places |-> "out"]
             /\ silenced = FALSE /\ audioGaveUp = FALSE

Alive(s) == s # NoSound /\ worker[s] \notin {"unborn", "ended"}

-----------------------------------------------------------------------------
(* play() and stop().                                                      *)

Sleeps == UNCHANGED <<stopEvt, proc, sounding, file, voice>>

\* Deliberate fault: the thread that is there is not looked at.
Play_Over == /\ stop["play"] = "out"
             /\ \E s \in Sounds : worker[s] = "unborn"
             /\ stop' = [stop EXCEPT !["play"] = "start"]
             /\ silenced' = FALSE
             /\ Sleeps /\ UNCHANGED <<worker, thread, audioGaveUp>>

Play == /\ stop["play"] = "out"
        /\ \E s \in Sounds : worker[s] = "unborn"
        /\ stop' = [stop EXCEPT !["play"] = IF Alive(thread) THEN "set" ELSE "start"]
        /\ silenced' = FALSE
        /\ Sleeps /\ UNCHANGED <<worker, thread, audioGaveUp>>

StartThread(s) == /\ stop["play"] = "start" /\ worker[s] = "unborn"
                  /\ worker' = [worker EXCEPT ![s] = "begin"]
                  /\ thread' = s
                  /\ stop' = [stop EXCEPT !["play"] = "out"]
                  /\ Sleeps /\ UNCHANGED <<silenced, audioGaveUp>>

Stop == /\ stop["other"] = "out"
        /\ stop' = [stop EXCEPT !["other"] = "set"]
        /\ Sleeps /\ UNCHANGED <<worker, thread, silenced, audioGaveUp>>

Steps(p, from, to) == stop[p] = from /\ stop' = [stop EXCEPT ![p] = to]

SetEvent(p) == /\ Steps(p, "set", "check")
               /\ stopEvt' = TRUE
               /\ UNCHANGED <<worker, thread, proc, sounding, file, voice, silenced, audioGaveUp>>

\* if self._proc is not None ...
CheckProc(p) == /\ Steps(p, "check", IF proc = NoSound THEN "join" ELSE "poll")
                /\ Sleeps /\ UNCHANGED <<worker, thread, silenced, audioGaveUp>>

\* ... and self._proc.poll() is None: the thread may have cleared it since,
\* and None has no poll.
Terminate(p) == /\ Steps(p, "poll", IF proc # NoSound THEN "join" ELSE "out")
                /\ sounding' = sounding \ {proc}
                /\ audioGaveUp' = (audioGaveUp \/ proc = NoSound)
                /\ UNCHANGED <<worker, thread, stopEvt, proc, file, voice, silenced>>

\* join(timeout=0.5).
Join(p, timeout) == /\ Steps(p, "join", IF p = "play" THEN "start" ELSE "out")
                    /\ timeout <=> Alive(thread)
                    /\ audioGaveUp' = (audioGaveUp \/ timeout)
                    /\ silenced' = (p = "other" /\ stop["play"] = "out")
                    /\ Sleeps /\ UNCHANGED <<worker, thread>>

-----------------------------------------------------------------------------
(* _worker.                                                                *)

Works(s, from, to) == worker[s] = from /\ worker' = [worker EXCEPT ![s] = to]
OnlyWorker == UNCHANGED <<thread, stop, silenced, audioGaveUp>>

\* A stop() before this is forgotten.
Begin(s) == /\ Works(s, "begin", "write") /\ stopEvt' = FALSE
            /\ OnlyWorker /\ UNCHANGED <<proc, sounding, file, voice>>

WriteFile(s) == /\ Works(s, "write", "spawn") /\ file' = s
                /\ OnlyWorker /\ UNCHANGED <<stopEvt, proc, sounding, voice>>

Spawn(s) == /\ Works(s, "spawn", "poll")
            /\ proc' = s /\ sounding' = sounding \cup {s}
            /\ voice' = [voice EXCEPT ![s] = file]
            /\ OnlyWorker /\ UNCHANGED <<stopEvt, file>>

\* No aplay, no file to write: the exception ends the thread.
SpawnFails(s) == /\ \/ Works(s, "write", "ended") \/ Works(s, "spawn", "ended")
                 /\ OnlyWorker /\ Sleeps

\* while self._proc.poll() is None, of whichever process _proc is.
PollAplay(s) == /\ Works(s, "poll", CASE proc = NoSound -> "ended"
                                      [] proc \in sounding /\ ~stopEvt -> "poll"
                                      [] OTHER -> "forget")
                /\ sounding' = IF stopEvt THEN sounding \ {proc} ELSE sounding
                /\ OnlyWorker /\ UNCHANGED <<stopEvt, proc, file, voice>>

Forget(s) == /\ Works(s, "forget", "ended") /\ proc' = NoSound
             /\ OnlyWorker /\ UNCHANGED <<stopEvt, sounding, file, voice>>

AplayEnds(s) == /\ s \in sounding /\ sounding' = sounding \ {s}
                /\ OnlyWorker /\ UNCHANGED <<worker, stopEvt, proc, file, voice>>

AudioNext == \/ Play \/ Stop
             \/ \E p \in Places : \/ SetEvent(p) \/ CheckProc(p) \/ Terminate(p)
                                  \/ \E timeout \in BOOLEAN : Join(p, timeout)
             \/ \E s \in Sounds : \/ StartThread(s) \/ Begin(s) \/ WriteFile(s) \/ Spawn(s)
                                  \/ SpawnFails(s) \/ PollAplay(s) \/ Forget(s) \/ AplayEnds(s)

AudioSpec == AudioInit /\ [][AudioNext]_audioVars

-----------------------------------------------------------------------------
(* Properties.                                                             *)

\* Every variable keeps the values its comment names.
AudioTypeOK ==
    /\ worker \in [Sounds -> {"unborn", "begin", "write", "spawn", "poll", "forget", "ended"}]
    /\ {thread, proc, file} \subseteq Sounds \cup {NoSound} /\ sounding \subseteq Sounds
    /\ stop \in [Places -> {"out", "set", "check", "poll", "join", "start"}]

\* As long as every stop() had the thread end in its half second, one sound
\* plays at a time, each aplay was given its own sound though the file is
\* shared, and nothing plays once a stop() that ran alone has returned.
OneSound == ~audioGaveUp => /\ Cardinality(sounding) <= 1
                       /\ \A s \in sounding : voice[s] = s
                       /\ silenced => sounding = {}

=============================================================================
