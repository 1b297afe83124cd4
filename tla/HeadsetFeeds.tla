---------------------------- MODULE HeadsetFeeds ----------------------------
(***************************************************************************)
(* The two headsets that are on the network:                               *)
(*                                                                         *)
(*   "rayban"  hal/rayban_server.py: the app posts frames over HTTP, one   *)
(*             thread per post, into a slot with an event; sound for the   *)
(*             glasses goes through a queue that the handler of every      *)
(*             websocket empties                                           *)
(*   "avp"     profiles/apple_vision_pro.py: one websocket of the client   *)
(*             fills a queue of frames (and one of poses, in the same way) *)
(*             and empties one of overlays                                 *)
(*                                                                         *)
(* The microphone queue of the Ray-Bans is in MicrophoneHals.              *)
(***************************************************************************)
EXTENDS Naturals, Sequences, FiniteSets, SequencesExt

CONSTANTS HeadsetKinds,
          Posters,               \* threads that bring a frame
          Readers,               \* threads that wait for one
          Sockets,               \* websockets that may be opened
          FrameSlots, OutSlots,  \* sizes of the queues
          MaxSceneFrames, MaxChunks   \* bounds on the frames, and on the chunks sent out

ASSUME HeadsetAssumption == IsFiniteSet(Sockets)

VARIABLES headset,  \* which headset this is
          frames,   \* frames that have come
          slot,     \* _frame; 0 for None
          event,    \* _event
          poster,   \* RayBanFrameBuffer.put: the frame it has stored; 0 outside
          reader,   \* RayBanFrameBuffer.get
          seen,     \* the newest frame a reader has been given
          frameQ,   \* _frame_queue
          outQ,     \* audio_out_queue, _out_queue
          chunks,   \* chunks offered
          refused,  \* those for which the queue was full
          socket,   \* each websocket's send_loop and the chunk in its hand
          wornOut,  \* chunks taken for a websocket that broke
          chunksSent \* chunks the device has got, in order

headsetVars == <<headset, frames, slot, event, poster, reader, seen, frameQ, outQ, chunks,
                 refused, socket, wornOut, chunksSent>>

HeadsetInit == /\ headset \in HeadsetKinds
               /\ frames = 0 /\ slot = 0 /\ event = FALSE /\ seen = 0
               /\ poster = [p \in Posters |-> 0] /\ reader = [r \in Readers |-> "out"]
               /\ frameQ = << >> /\ outQ = << >> /\ chunks = 0 /\ refused = {}
               /\ socket = [w \in Sockets |-> [pc |-> "unborn", chunk |-> 0]]
               /\ wornOut = {} /\ chunksSent = << >>

Open == {w \in Sockets : socket[w].pc \notin {"unborn", "closed"}}

-----------------------------------------------------------------------------
(* Frames in.                                                              *)

NotIn == UNCHANGED <<headset, outQ, chunks, refused, socket, wornOut, chunksSent>>

\* put: the slot is written under the lock ...
PutFrame(p) == /\ headset = "rayban" /\ poster[p] = 0 /\ frames < MaxSceneFrames
               /\ frames' = frames + 1 /\ slot' = frames'
               /\ poster' = [poster EXCEPT ![p] = frames']
               /\ NotIn /\ UNCHANGED <<event, reader, seen, frameQ>>

\* ... and the event set after it.
SetFrameEvent(p) == /\ poster[p] # 0 /\ poster' = [poster EXCEPT ![p] = 0]
                    /\ event' = TRUE
                    /\ NotIn /\ UNCHANGED <<frames, slot, reader, seen, frameQ>>

\* get: wait, clear, and read under the lock.
Waited(r) == /\ reader[r] = "out" /\ event
             /\ reader' = [reader EXCEPT ![r] = "clear"]
             /\ NotIn /\ UNCHANGED <<frames, slot, event, poster, seen, frameQ>>

Clear(r) == /\ reader[r] = "clear" /\ reader' = [reader EXCEPT ![r] = "read"]
            /\ event' = FALSE
            /\ NotIn /\ UNCHANGED <<frames, slot, poster, seen, frameQ>>

ReadFrame(r) == /\ reader[r] = "read" /\ reader' = [reader EXCEPT ![r] = "out"]
                /\ seen' = IF slot > seen THEN slot ELSE seen
                /\ NotIn /\ UNCHANGED <<frames, slot, event, poster, frameQ>>

\* The Vision Pro's websocket: a full queue drops the new frame.
Message == /\ headset = "avp" /\ Open # {} /\ frames < MaxSceneFrames
           /\ frames' = frames + 1
           /\ frameQ' = IF Len(frameQ) < FrameSlots THEN Append(frameQ, frames') ELSE frameQ
           /\ NotIn /\ UNCHANGED <<slot, event, poster, reader, seen>>

\* get_latest_frame(): of what is there, the oldest.
GetFrame == /\ headset = "avp" /\ frameQ # << >>
            /\ seen' = Head(frameQ) /\ frameQ' = Tail(frameQ)
            /\ NotIn /\ UNCHANGED <<frames, slot, event, poster, reader>>

-----------------------------------------------------------------------------
(* Chunks out.                                                             *)

NotOut == UNCHANGED <<headset, frames, slot, event, poster, reader, seen, frameQ>>

\* send_audio_to_glasses(), send_overlay()
Offer == /\ chunks < MaxChunks /\ chunks' = chunks + 1
         /\ IF Len(outQ) < OutSlots
            THEN outQ' = Append(outQ, chunks') /\ UNCHANGED refused
            ELSE refused' = refused \cup {chunks'} /\ UNCHANGED outQ
         /\ NotOut /\ UNCHANGED <<socket, wornOut, chunksSent>>

\* A handler for every connection of the glasses; the Vision Pro is called once.
ConnectSocket(w) == /\ socket[w].pc = "unborn"
                    /\ headset = "avp" => \A v \in Sockets : socket[v].pc = "unborn"
                    /\ socket' = [socket EXCEPT ![w].pc = "top"]
                    /\ NotOut /\ UNCHANGED <<outQ, chunks, refused, wornOut, chunksSent>>

\* Deliberate fault: the chunk stays in the queue until it has been sent.
Take_Peeks(w) == /\ socket[w].pc \in {"top", "broken"} /\ outQ # << >>
                 /\ socket' = [socket EXCEPT ![w] = [pc |-> IF @.pc = "top" THEN "send" ELSE "fail",
                                                     chunk |-> Head(outQ)]]
                 /\ NotOut /\ UNCHANGED <<outQ, chunks, refused, wornOut, chunksSent>>

\* get_nowait(), and an await with the chunk in hand
Take(w) == /\ socket[w].pc \in {"top", "broken"} /\ outQ # << >>
           /\ socket' = [socket EXCEPT ![w] = [pc |-> IF @.pc = "top" THEN "send" ELSE "fail",
                                               chunk |-> Head(outQ)]]
           /\ outQ' = Tail(outQ)
           /\ NotOut /\ UNCHANGED <<chunks, refused, wornOut, chunksSent>>

Sent(w) == /\ socket[w].pc = "send" /\ chunksSent' = Append(chunksSent, socket[w].chunk)
           /\ socket' = [socket EXCEPT ![w] = [pc |-> "top", chunk |-> 0]]
           /\ NotOut /\ UNCHANGED <<outQ, chunks, refused, wornOut>>

\* send() raises: the server's loop takes that for an empty queue and takes the
\* next chunk, until the handler is cancelled; the client's loop has ended.
SendFails(w) == /\ socket[w].pc \in {"send", "fail"}
                /\ wornOut' = wornOut \cup {socket[w].chunk}
                /\ socket' = [socket EXCEPT
                      ![w] = [pc |-> IF headset = "rayban" THEN "broken" ELSE "deaf", chunk |-> 0]]
                /\ NotOut /\ UNCHANGED <<outQ, chunks, refused, chunksSent>>

\* The websocket is seen to be closed: send_task.cancel(), at an await.
SocketClosed(w) == /\ w \in Open
                   /\ wornOut' = wornOut \cup ({socket[w].chunk} \ {0})
                   /\ socket' = [socket EXCEPT ![w] = [pc |-> "closed", chunk |-> 0]]
                   /\ NotOut /\ UNCHANGED <<outQ, chunks, refused, chunksSent>>

HeadsetNext == \/ \E p \in Posters : PutFrame(p) \/ SetFrameEvent(p)
               \/ \E r \in Readers : Waited(r) \/ Clear(r) \/ ReadFrame(r)
               \/ Message \/ GetFrame \/ Offer
               \/ \E w \in Sockets : ConnectSocket(w) \/ Take(w) \/ Sent(w) \/ SendFails(w) \/ SocketClosed(w)

HeadsetSpec == HeadsetInit /\ [][HeadsetNext]_headsetVars

-----------------------------------------------------------------------------
(* Properties.                                                             *)

\* Every variable keeps the values its comment names.
HeadsetTypeOK == /\ headset \in HeadsetKinds /\ {frames, slot, seen} \subseteq 0..MaxSceneFrames
                 /\ Len(frameQ) <= FrameSlots /\ Len(outQ) <= OutSlots
                 /\ \A w \in Sockets : socket[w].chunk \in 0..chunks

\* No frame of the Ray-Bans is slept through: while the newest one has been given
\* to nobody, the event is set, or a poster is about to set it, or a reader that
\* has cleared it has still to look.
FrameNoticed == (headset = "rayban" /\ slot > seen)
                  => \/ event
                     \/ \E p \in Posters : poster[p] # 0
                     \/ \E r \in Readers : reader[r] = "read"

\* A chunk offered is in exactly one place: refused, queued, in the hand of one
\* websocket, lost with a broken one, or with the device; and as long as the
\* device had one connection, it got them in the order they were offered.
ChunksAccounted ==
    LET inHand == {socket[w].chunk : w \in Open} \ {0}
    IN  /\ refused \cup Range(outQ) \cup inHand \cup wornOut \cup Range(chunksSent) = 1..chunks
        /\ Cardinality(refused) + Len(outQ) + Cardinality(inHand) + Cardinality(wornOut)
             + Len(chunksSent) = chunks
        /\ Cardinality({w \in Sockets : socket[w].pc # "unborn"}) <= 1
             => \A i \in 1..(Len(chunksSent) - 1) : chunksSent[i] < chunksSent[i + 1]

\* A Ray-Ban reader is not left asleep over an unread frame (that it may be
\* overwritten in the slot before it is read is what the slot is for), and no chunk
\* for a device goes missing, but what the queue refused or a broken socket took.
\* Of the frames that wait for the callers of the Vision Pro nothing is said.
FeedsKept == FrameNoticed /\ ChunksAccounted

=============================================================================
