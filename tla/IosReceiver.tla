---------------------------- MODULE IosReceiver ----------------------------
(***************************************************************************)
(* profiles/ios_companion.py: the HTTP server the iPhone app posts to, the *)
(* three HALs it feeds and the profile that starts and stops them.         *)
(*                                                                         *)
(* The server takes one connection at a time, in a thread that runs        *)
(* serve_forever (ServeForever, Accept, ServerEnds: the standard library). *)
(* stop() asks it to end and waits; the request is a flag that the thread  *)
(* clears when it ends, so a stop() too many ends the next thread, and a   *)
(* start() too many leaves a thread that stop() does not wait for.         *)
(***************************************************************************)
EXTENDS Naturals, Sequences, SequencesExt

CONSTANTS Servers,   \* the threads that start() may make
          NoServer,
          MaxPosts,  \* bound on the posts of the app, numbered as they are sent
          MaxIosCalls  \* bound on the calls of initialize() and shutdown()

ASSUME IosAssumption == NoServer \notin Servers

VARIABLES post,        \* what each post sent so far is: see PostKinds
          answer,      \* its status code; 0 for a connection closed without one
          backlog,     \* connections not accepted yet
          server,      \* each thread: its place and the post it works on
          asked,       \* __shutdown_request of the server
          isShutDown,  \* __is_shut_down
          iosThread,   \* _thread
          profile,     \* initialize() and shutdown(): the place of the one caller
          held,        \* what the HALs hold: _buffer, _latest_frame, _buffer
          applied,     \* posts whose payload went to a HAL or callback, in order
          iosUp,       \* the last call was initialize()
          misused,     \* initialize() twice, or shutdown() without it
          iosCalls

iosVars == <<post, answer, backlog, server, asked, isShutDown, iosThread, profile, held,
             applied, iosUp, misused, iosCalls>>

Hals == {"imu", "camera", "audio"}

\* The app's posts, one that no endpoint is for, one whose signature is not
\* right, one that is not JSON or fails validate(), one that is JSON but no
\* object, and a frame that is not base64.
PostKinds == Hals \cup {"location", "unknown", "unsigned", "malformed", "list", "undecodable"}

IosInit == /\ post = << >> /\ answer = << >> /\ backlog = << >>
           /\ server = [s \in Servers |-> [pc |-> "unborn", post |-> 0]]
           /\ asked = FALSE /\ isShutDown = FALSE /\ iosThread = NoServer
           /\ profile = "idle" /\ held = [h \in Hals |-> << >>]
           /\ applied = << >> /\ iosUp = FALSE /\ misused = FALSE /\ iosCalls = 0

Unanswered == 1

-----------------------------------------------------------------------------
(* The app, and the pipeline that reads the HALs.                          *)

NotApp == UNCHANGED <<server, asked, isShutDown, iosThread, profile, held, applied, iosUp, misused, iosCalls>>

SendPost(kind) == /\ Len(post) < MaxPosts
                  /\ post' = Append(post, kind) /\ answer' = Append(answer, Unanswered)
                  /\ backlog' = Append(backlog, Len(post'))
                  /\ NotApp

\* read_sample(), get_buffer(): the oldest; capture_frame() leaves the frame.
ReadHal(h) == /\ h # "camera" /\ held[h] # << >>
              /\ held' = [held EXCEPT ![h] = Tail(@)]
              /\ UNCHANGED <<post, answer, backlog, server, asked, isShutDown, iosThread, profile,
                             applied, iosUp, misused, iosCalls>>

-----------------------------------------------------------------------------
(* serve_forever.                                                          *)

OnlyServer == UNCHANGED <<post, iosThread, profile, iosUp, misused, iosCalls>>
ServerAt(s, pc) == server[s].pc = pc
Goes(s, pc, n) == server' = [server EXCEPT ![s] = [pc |-> pc, post |-> n]]

ServeForever(s) == /\ ServerAt(s, "start") /\ Goes(s, "top", 0)
                   /\ isShutDown' = FALSE
                   /\ OnlyServer /\ UNCHANGED <<answer, backlog, asked, held, applied>>

Accept(s) == /\ ServerAt(s, "top") /\ ~asked /\ backlog # << >>
             /\ Goes(s, "post", Head(backlog)) /\ backlog' = Tail(backlog)
             /\ OnlyServer /\ UNCHANGED <<answer, asked, isShutDown, held, applied>>

ServerEnds(s) == /\ ServerAt(s, "top") /\ asked /\ Goes(s, "ended", 0)
                 /\ asked' = FALSE /\ isShutDown' = TRUE
                 /\ OnlyServer /\ UNCHANGED <<answer, backlog, held, applied>>

-----------------------------------------------------------------------------
(* do_POST.                                                                *)

Close(s, code) == /\ Goes(s, "top", 0)
                  /\ answer' = [answer EXCEPT ![server[s].post] = code]
                  /\ OnlyServer /\ UNCHANGED <<backlog, asked, isShutDown>>

\* _respond(): a write to a phone that has gone raises, and so does that of the
\* 500 after it; the connection is closed without an answer.
Respond(s, code) == Close(s, code) \/ Close(s, 0)

\* The path, the signature, json.loads and validate(), in this order.  What is
\* no object has no get(), and nothing catches that.
DoPost(s) ==
    LET kind == post[server[s].post]
    IN  /\ ServerAt(s, "post")
        /\ \/ kind = "unknown" /\ Respond(s, 404)
           \/ kind = "unsigned" /\ Respond(s, 401)
           \/ kind = "malformed" /\ Respond(s, 400)
           \/ kind = "list" /\ Close(s, 0)
           \/ /\ kind \in Hals \cup {"location", "undecodable"}
              /\ Goes(s, "handle", server[s].post)
              /\ OnlyServer /\ UNCHANGED <<answer, backlog, asked, isShutDown>>
        /\ UNCHANGED <<held, applied>>

\* push_sample, push_frame, push_chunk: the newest frame replaces the one before.
Pushed(h, n) == [held EXCEPT ![h] = IF h = "camera" THEN <<n>> ELSE Append(@, n)]

\* _handle_imu, _handle_camera, _handle_audio, _handle_location ...
HandleSensor(s) ==
    LET n == server[s].post
    IN  /\ ServerAt(s, "handle") /\ post[n] # "undecodable"
        /\ held' = IF post[n] \in Hals THEN Pushed(post[n], n) ELSE held
        /\ applied' = Append(applied, n)
        /\ Goes(s, "answer", n)
        /\ OnlyServer /\ UNCHANGED <<answer, backlog, asked, isShutDown>>

\* ... and only then is it answered.
AnswerSensor(s) == /\ ServerAt(s, "answer") /\ Respond(s, 200)
                   /\ UNCHANGED <<held, applied>>

\* The conversion raises, or the application's location callback.
HandleRaises(s) == /\ ServerAt(s, "handle") /\ post[server[s].post] \in {"undecodable", "location"}
                   /\ Respond(s, 500) /\ UNCHANGED <<held, applied>>

-----------------------------------------------------------------------------
(* The profile.                                                            *)

OnlyProfile == UNCHANGED <<post, answer, backlog, applied>>

\* initialize(), and receiver.start() at the end of it
InitializeIos(s) == /\ profile = "idle" /\ ServerAt(s, "unborn") /\ iosCalls < MaxIosCalls
                    /\ Goes(s, "start", 0) /\ iosThread' = s
                    /\ iosCalls' = iosCalls + 1 /\ iosUp' = TRUE /\ misused' = (misused \/ iosUp)
                    /\ OnlyProfile /\ UNCHANGED <<asked, isShutDown, profile, held>>

\* shutdown(): receiver.stop(), which begins with HTTPServer.shutdown()
Shutdown == /\ profile = "idle" /\ iosCalls < MaxIosCalls
            /\ profile' = "wait" /\ asked' = TRUE
            /\ iosCalls' = iosCalls + 1 /\ iosUp' = FALSE /\ misused' = (misused \/ ~iosUp)
            /\ OnlyProfile /\ UNCHANGED <<server, isShutDown, iosThread, held>>

StopWaited == /\ profile = "wait" /\ isShutDown
              /\ profile' = "join"
              /\ OnlyProfile /\ UNCHANGED <<server, asked, isShutDown, iosThread, held, iosUp, misused, iosCalls>>

\* Deliberate fault: the thread is not joined.  An event left from the stop()
\* before lets this one pass while the thread has not begun.
StopJoined_Not ==
    /\ profile = "join" /\ profile' = "imu"
    /\ OnlyProfile /\ UNCHANGED <<server, asked, isShutDown, iosThread, held, iosUp, misused, iosCalls>>

\* join(timeout=3): the thread has ended, or a post keeps it longer.
StopJoined == /\ profile = "join" /\ profile' = "imu"
              /\ iosThread # NoServer => server[iosThread].pc \in {"ended", "post", "handle", "answer"}
              /\ OnlyProfile /\ UNCHANGED <<server, asked, isShutDown, iosThread, held, iosUp, misused, iosCalls>>

HalsShutdown(h, next) ==
    /\ profile = h /\ profile' = next
    /\ held' = [held EXCEPT ![h] = << >>]
    /\ OnlyProfile /\ UNCHANGED <<server, asked, isShutDown, iosThread, iosUp, misused, iosCalls>>

IosNext == \/ \E kind \in PostKinds : SendPost(kind)
           \/ \E h \in Hals : ReadHal(h)
           \/ \E s \in Servers : \/ ServeForever(s) \/ Accept(s) \/ ServerEnds(s)
                                 \/ DoPost(s) \/ HandleSensor(s) \/ AnswerSensor(s)
                                 \/ HandleRaises(s) \/ InitializeIos(s)
           \/ Shutdown \/ StopWaited \/ StopJoined
           \/ HalsShutdown("imu", "camera") \/ HalsShutdown("camera", "audio")
           \/ HalsShutdown("audio", "idle")

IosSpec == IosInit /\ [][IosNext]_iosVars

-----------------------------------------------------------------------------
(* Properties.                                                             *)

\* Every variable keeps the values its comment names.
IosTypeOK == /\ Len(post) <= MaxPosts /\ Len(answer) = Len(post)
             /\ \A h \in Hals : \A i \in DOMAIN held[h] : post[held[h][i]] = h
             /\ Len(held["camera"]) <= 1
             /\ profile \in Hals \cup {"idle", "wait", "join"}
             /\ iosCalls \in 0..MaxIosCalls

\* The app's retries rest on its answers: the payload of a post answered 200 has
\* arrived, once, and that of a post answered with an error has not; of one whose
\* connection was closed without an answer the app can know neither, and a retry
\* (a post of its own here) may bring it a second time.  And while nobody has
\* started the receiver twice, payloads arrive in the order they were sent.
AnswersTrue == /\ \A n \in DOMAIN post : answer[n] \notin {0, Unanswered}
                                           => (answer[n] = 200 <=> n \in Range(applied))
               /\ IsInjective(applied)
               /\ ~misused => \A i \in 1..(Len(applied) - 1) : applied[i] < applied[i + 1]

\* Calls that take turns: after initialize() there is a thread to serve, and
\* after shutdown() no thread works on a post and the HALs hold nothing.
StopsWhatStarted ==
    (~misused /\ profile = "idle" /\ iosCalls > 0)
      => IF iosUp THEN \E s \in Servers : server[s].pc \notin {"unborn", "ended"}
         ELSE /\ \A s \in Servers : server[s].pc \in {"unborn", "ended"}
              /\ held = [h \in Hals |-> << >>]

\* The receiver says what it did, and does what it was told.
ReceiverSound == AnswersTrue /\ StopsWhatStarted

=============================================================================
