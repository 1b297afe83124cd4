--------------------------- MODULE MicrophoneHals ---------------------------
(***************************************************************************)
(* The microphone HALs that keep audio between the device and get_buffer:  *)
(*                                                                         *)
(*   "reachy"     Reachy mini and Reachy 2: a thread polls the robot and   *)
(*                puts what it gets into a queue, the oldest making room   *)
(*   "pi"         a ring the driver's callback writes and nobody empties   *)
(*   "openglass"  a list the BLE notifications append to, likewise         *)
(*   "g2"         a queue of BLE notifications; a full one drops the new   *)
(*   "rayban"     the same, of websocket messages                          *)
(*   "ios"        a list of POSTed chunks without a bound                  *)
(*                                                                         *)
(* A frame is the number of its place in the device's audio.  One thread   *)
(* calls get_buffer, another start_recording and stop_recording.           *)
(***************************************************************************)
EXTENDS Naturals, Sequences, SequencesExt

CONSTANTS MicKinds,   \* the microphones considered
          Pollers,    \* threads start_recording() may create, one per call
          Capacity,   \* frames a buffer holds
          MaxFrames   \* bound on the frames, and on the list without one

ASSUME MicAssumption == Capacity \in Nat \ {0}

VARIABLES mic,        \* which microphone this is
          frame,      \* frames the device has handed out
          buffer,     \* _buffer, _ring, _audio_buffer
          recording,  \* _recording
          pollRun,    \* _run
          poller,     \* _poll_loop, per thread: its place and the frame it holds
          latest,     \* _thread, as a set
          stopping,   \* stop_recording() waits in join
          taken,      \* what get_buffer has collected, and how much it wants
          heard,      \* frames get_buffer has returned, in order
          twin        \* two polling threads were alive at once

micVars == <<mic, frame, buffer, recording, pollRun, poller, latest, stopping,
             taken, heard, twin>>

NotReading == [want |-> 0, frames |-> << >>]

MicInit == /\ mic \in MicKinds
           /\ frame = 0 /\ buffer = << >>
           /\ recording = FALSE /\ pollRun = FALSE /\ stopping = FALSE /\ twin = FALSE
           /\ poller = [p \in Pollers |-> [pc |-> "unborn", held |-> 0]]
           /\ latest = {} /\ taken = NotReading /\ heard = << >>

Awake == {p \in Pollers : poller[p].pc \notin {"unborn", "dead"}}
Newest(s, n) == IF Len(s) <= n THEN s ELSE SubSeq(s, Len(s) - n + 1, Len(s))

-----------------------------------------------------------------------------
(* start_recording and stop_recording.  What the device answers is ignored.*)

StartRecording ==
    /\ ~recording /\ ~stopping
    /\ recording' = TRUE
    /\ IF mic = "reachy"
       THEN \E p \in Pollers :
               /\ poller[p].pc = "unborn"
               /\ poller' = [poller EXCEPT ![p].pc = "top"]
               /\ latest' = {p} /\ pollRun' = TRUE
               /\ twin' = (twin \/ Awake # {})
       ELSE UNCHANGED <<poller, latest, pollRun, twin>>
    /\ UNCHANGED <<mic, frame, buffer, stopping, taken, heard>>

\* The Reachys clear _run whether or not they record, and wait two seconds.
StopPolling == /\ mic = "reachy" /\ ~stopping
               /\ pollRun' = FALSE /\ stopping' = TRUE
               /\ UNCHANGED <<mic, frame, buffer, recording, poller, latest, taken, heard, twin>>

\* join returns: the thread has ended, or get_audio_sample holds it up.
StopReturns == /\ stopping
               /\ latest \cap Awake = {} \/ \E p \in latest : poller[p].pc = "get"
               /\ stopping' = FALSE /\ recording' = FALSE
               /\ UNCHANGED <<mic, frame, buffer, pollRun, poller, latest, taken, heard, twin>>

\* The others: the notifications may go on; only OpenGlass lets go of what it has.
StopRecording == /\ mic # "reachy" /\ recording
                 /\ recording' = FALSE
                 /\ buffer' = IF mic = "openglass" THEN << >> ELSE buffer
                 /\ UNCHANGED <<mic, frame, pollRun, poller, latest, stopping, taken, heard, twin>>

-----------------------------------------------------------------------------
(* Audio arrives.                                                          *)

At(p, from, to) == poller[p].pc = from /\ poller' = [poller EXCEPT ![p].pc = to]
OnlyBuffer == UNCHANGED <<mic, frame, recording, pollRun, latest, stopping, taken, heard, twin>>

\* The HALs something else drives: a callback, a notification, a message.
Push == /\ mic # "reachy" /\ frame < MaxFrames
        /\ mic = "pi" => recording
        /\ frame' = frame + 1
        /\ buffer' = CASE mic \in {"pi", "openglass"} -> Newest(Append(buffer, frame'), Capacity)
                       [] mic \in {"g2", "rayban"} /\ Len(buffer) >= Capacity -> buffer
                       [] OTHER -> Append(buffer, frame')
        /\ UNCHANGED <<mic, recording, pollRun, poller, latest, stopping, taken, heard, twin>>

\* while self._run: samples = get_audio_sample()
PollTests(p) == /\ pollRun /\ At(p, "top", "get")
                /\ OnlyBuffer /\ UNCHANGED buffer

Poll(p) == /\ poller[p].pc = "get" /\ frame < MaxFrames
           /\ frame' = frame + 1
           /\ poller' = [poller EXCEPT ![p] = [pc |-> "put", held |-> frame']]
           /\ UNCHANGED <<mic, buffer, recording, pollRun, latest, stopping, taken, heard, twin>>

PollEnds(p) == /\ ~pollRun /\ At(p, "top", "dead")
               /\ OnlyBuffer /\ UNCHANGED buffer

Put(p) == /\ Len(buffer) < Capacity /\ At(p, "put", "top")
          /\ buffer' = Append(buffer, poller[p].held)
          /\ OnlyBuffer

\* queue.Full ...
PutRefused(p) == /\ Len(buffer) >= Capacity /\ At(p, "put", "full")
                 /\ OnlyBuffer /\ UNCHANGED buffer

\* ... and the oldest goes.  get_buffer may have made room since, or left nothing:
\* queue.Empty, passed over.
MakeRoom(p) == /\ At(p, "full", "again")
               /\ buffer' = IF buffer = << >> THEN buffer ELSE Tail(buffer)
               /\ OnlyBuffer

\* A second Full is an exception like any other: the frame is lost.
PutAgain(p) == /\ At(p, "again", "top")
               /\ buffer' = IF Len(buffer) < Capacity THEN Append(buffer, poller[p].held)
                            ELSE buffer
               /\ OnlyBuffer

-----------------------------------------------------------------------------
(* get_buffer.                                                             *)

NotBuffer == UNCHANGED <<mic, frame, recording, pollRun, poller, latest, stopping, twin>>

\* The rings give copies of their newest frames.
Look(n) == /\ mic \in {"pi", "openglass"} /\ buffer # << >>
           /\ heard' = Newest(buffer, n)
           /\ NotBuffer /\ UNCHANGED <<buffer, taken>>

\* One element of the list or queue, whatever the duration; silence without.
TakeOne == /\ mic \in {"ios", "rayban"} /\ buffer # << >>
           /\ buffer' = Tail(buffer) /\ heard' = Append(heard, Head(buffer))
           /\ NotBuffer /\ UNCHANGED taken

Ask(n) == /\ mic \in {"reachy", "g2"} /\ taken = NotReading
          /\ taken' = [want |-> n, frames |-> << >>]
          /\ NotBuffer /\ UNCHANGED <<buffer, heard>>

Collect == /\ taken.want > Len(taken.frames) /\ buffer # << >>
           /\ taken' = [taken EXCEPT !.frames = Append(@, Head(buffer))]
           /\ buffer' = Tail(buffer)
           /\ NotBuffer /\ UNCHANGED heard

\* Deliberate fault: the frame of which the duration cuts something off goes back.
Deliver_PutsBack ==
    /\ taken # NotReading
    /\ taken.want = Len(taken.frames) \/ buffer = << >>
    /\ heard' = heard \o taken.frames /\ taken' = NotReading
    /\ buffer' = IF taken.frames = << >> \/ Len(buffer) >= Capacity THEN buffer
                 ELSE Append(buffer, Last(taken.frames))
    /\ NotBuffer

\* Enough, or queue.Empty.  What exceeds the duration is cut off the last frame.
Deliver == /\ taken # NotReading
           /\ taken.want = Len(taken.frames) \/ buffer = << >>
           /\ heard' = heard \o taken.frames /\ taken' = NotReading
           /\ NotBuffer /\ UNCHANGED buffer

MicNext == \/ StartRecording \/ StopPolling \/ StopReturns \/ StopRecording
           \/ Push \/ TakeOne \/ Collect \/ Deliver
           \/ \E p \in Pollers : PollTests(p) \/ Poll(p) \/ PollEnds(p) \/ Put(p) \/ PutRefused(p)
                                 \/ MakeRoom(p) \/ PutAgain(p)
           \/ \E n \in 1..Capacity : Look(n) \/ Ask(n)

MicSpec == MicInit /\ [][MicNext]_micVars

-----------------------------------------------------------------------------
(* Properties.                                                             *)

\* Every variable keeps the values its comment names, and what should be
\* bounded is.
MicTypeOK == /\ mic \in MicKinds /\ frame \in 0..MaxFrames
             /\ \A i \in DOMAIN buffer : buffer[i] \in 1..frame
             /\ mic # "ios" => Len(buffer) <= Capacity
             /\ \A p \in Pollers : poller[p].held \in 0..frame
             /\ taken.want \in 0..Capacity /\ Len(taken.frames) <= taken.want

\* While a restart has not left two polling threads behind, the audio that
\* get_buffer returns is in the order it was spoken and nothing is in it twice,
\* though it is put and taken while the queue overflows (a ring gives copies: no
\* frame is twice in one answer, and any may be in the next again); the newest
\* frame is never the one a Reachy lost to an overflow, and is what a ring that
\* holds anything ends with.
Waiting == \E p \in Pollers : poller[p].pc \in {"put", "full", "again"}
AudioInOrder ==
    ~twin => /\ \A i \in 1..(Len(heard) - 1) : heard[i] < heard[i + 1]
             /\ (mic = "reachy" /\ ~Waiting /\ frame > 0)
                    => frame \in Range(buffer) \cup Range(taken.frames) \cup Range(heard)
             /\ (mic \in {"pi", "openglass"} /\ buffer # << >>) => Last(buffer) = frame

=============================================================================
