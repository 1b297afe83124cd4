--------------------------- MODULE TransportHals ---------------------------
(***************************************************************************)
(* The connection state of the transport HALs and the callback that is     *)
(* told of it.                                                             *)
(*                                                                         *)
(* They all assign the state and then call the callback, without a lock,   *)
(* from whichever thread connects or disconnects.  They differ in what     *)
(* Class says: whether connect() has a link to build and a CONNECTING to   *)
(* announce; whether the callback's exceptions are caught; whether         *)
(* disconnect() tells the callback at all; and whether initialize() puts a *)
(* simulated transport in their place, which then has the state and the    *)
(* callback (hal/simulator.py: SimulatedTransport).                        *)
(*                                                                         *)
(* send() looks at the socket where there is one, never at the state: most *)
(* post over HTTP whether connected or not, two report success and send    *)
(* nothing, and a simulated transport keeps the payload for receive().     *)
(* The frames of the socket are in WiFiClient.                             *)
(***************************************************************************)
EXTENDS Naturals, Sequences, Functions

CONSTANTS TransportKinds,  \* the classes considered
          Callers,         \* threads that connect and disconnect
          MaxCalls         \* bound on their calls

ASSUME TransportAssumption ==
    TransportKinds \subseteq {"pi", "reachy", "reachy2", "oakd", "frame", "g2", "attachment",
                             "rayban", "avp", "openglass", "go2",
                             "rayban_mock", "avp_mock", "openglass_mock", "go2_mock"}

VARIABLES hal,     \* the class
          state,   \* what get_state() returns
          sim,     \* _sim is not None
          cb,      \* there is a callback in the HAL, and in its _sim
          linked,  \* there is a socket, or there are clients for the arms
          looped,  \* payloads in the simulated transport's queue
          sent,    \* what became of the last payload: see Send
          caller,  \* per thread: the steps still to make, the state to tell
          told,    \* what the callback has been told last
          crossed, \* two calls ran at once, on this _sim if there is one
          calls    \* calls begun

transportVars == <<hal, state, sim, cb, linked, looped, sent, caller, told, crossed, calls>>

Silent == "none"
Connected == "CONNECTED"
Disconnected == "DISCONNECTED"
Connecting == "CONNECTING"

-----------------------------------------------------------------------------
(* The classes.                                                            *)

\* builds: connect() makes a link.  locks: it does so under a lock.  guarded: the
\* callback's exceptions are caught.  saysBye: disconnect() tells the callback.
\* mock: initialize() makes a simulated transport.  sends: how send() goes out.
Plain == [builds |-> FALSE, locks |-> FALSE, guarded |-> FALSE, saysBye |-> TRUE,
          mock |-> FALSE, sends |-> "http"]
PiWiFiTransport == [Plain EXCEPT !.builds = TRUE, !.locks = TRUE, !.guarded = TRUE, !.sends = "socket"]
ReachyTransportHAL == Plain
Reachy2TransportHAL == Plain
OakDTransportHAL == Plain
FrameTransportHAL == Plain
G2TransportHAL == [Plain EXCEPT !.builds = TRUE]
AttachmentTransport == [Plain EXCEPT !.guarded = TRUE]
Quiet(mock) == [Plain EXCEPT !.saysBye = FALSE, !.mock = mock]
RayBanTransportHal(mock) == Quiet(mock)
VisionProTransportHal(mock) == [Quiet(mock) EXCEPT !.sends = "nothing"]
OpenGlassTransportHal(mock) == [Quiet(mock) EXCEPT !.sends = "nothing"]
Go2TransportHal(mock) == Quiet(mock)

Class(kind) == CASE kind = "pi" -> PiWiFiTransport
                 [] kind = "reachy" -> ReachyTransportHAL
                 [] kind = "reachy2" -> Reachy2TransportHAL
                 [] kind = "oakd" -> OakDTransportHAL
                 [] kind = "frame" -> FrameTransportHAL
                 [] kind = "g2" -> G2TransportHAL
                 [] kind = "attachment" -> AttachmentTransport
                 [] kind = "rayban" -> RayBanTransportHal(FALSE)
                 [] kind = "avp" -> VisionProTransportHal(FALSE)
                 [] kind = "openglass" -> OpenGlassTransportHal(FALSE)
                 [] kind = "go2" -> Go2TransportHal(FALSE)
                 [] kind = "rayban_mock" -> RayBanTransportHal(TRUE)
                 [] kind = "avp_mock" -> VisionProTransportHal(TRUE)
                 [] kind = "openglass_mock" -> OpenGlassTransportHal(TRUE)
                 [] kind = "go2_mock" -> Go2TransportHal(TRUE)

NoCall == [todo |-> << >>, tell |-> Silent]

TransportInit == /\ hal \in {Class(kind) : kind \in TransportKinds}
                 /\ state = Disconnected /\ sim = FALSE
                 /\ cb = [hal |-> FALSE, sim |-> FALSE]
                 /\ linked = FALSE /\ looped = 0 /\ sent = "none"
                 /\ caller = [c \in Callers |-> NoCall]
                 /\ told = Silent /\ crossed = FALSE /\ calls = 0

Busy == {c \in Callers : caller[c] # NoCall}
Listened == IF sim THEN cb.sim ELSE cb.hal

-----------------------------------------------------------------------------
(* The operations.                                                         *)

\* A new SimulatedTransport, disconnected, that knows no callback.
Initialize == /\ hal.mock /\ calls < MaxCalls /\ Busy = {}
              /\ sim' = TRUE /\ state' = Disconnected
              /\ cb' = [cb EXCEPT !.sim = FALSE]
              /\ looped' = 0 /\ sent' = "none"
              /\ told' = Silent /\ crossed' = FALSE /\ calls' = calls + 1
              /\ UNCHANGED <<hal, linked, caller>>

SetStateCallback == /\ Busy = {}
                    /\ cb' = [hal |-> TRUE, sim |-> sim]
                    /\ told' = Silent
                    /\ UNCHANGED <<hal, state, sim, linked, looped, sent, caller, crossed, calls>>

NotLink == UNCHANGED <<hal, sim, cb, linked, looped, sent>>

Begins(c, todo) == /\ caller[c] = NoCall /\ calls < MaxCalls
                   /\ calls' = calls + 1
                   /\ caller' = [caller EXCEPT ![c].todo = todo]
                   /\ crossed' = (crossed \/ Busy # {})
                   /\ NotLink /\ UNCHANGED <<state, told>>

Connect(c) ==
    /\ hal.locks => \A d \in Callers : "unlock" \notin Range(caller[d].todo)
    /\ Begins(c, IF sim \/ ~hal.builds THEN <<Connected>>
                 ELSE IF hal.locks THEN <<Connecting, "link", "unlock">>
                 ELSE <<Connecting, "link">>)

Disconnect(c) == Begins(c, IF sim \/ ~hal.builds THEN <<Disconnected>>
                           ELSE <<"close", Disconnected>>)

Does(c, token) == /\ caller[c].tell = Silent
                  /\ caller[c].todo # << >> /\ Head(caller[c].todo) = token

\* The socket, or the arms of the glasses: up, or not, and then an old one stays.
BuildLink(c) == /\ Does(c, "link")
                /\ \E up \in BOOLEAN :
                      /\ linked' = (up \/ linked)
                      /\ caller' = [caller EXCEPT ![c].todo[1] =
                                       IF up THEN Connected ELSE Disconnected]
                /\ UNCHANGED <<hal, state, sim, cb, looped, sent, told, crossed, calls>>

CloseLink(c) == /\ Does(c, "close")
                /\ linked' = FALSE /\ caller' = [caller EXCEPT ![c].todo = Tail(@)]
                /\ UNCHANGED <<hal, state, sim, cb, looped, sent, told, crossed, calls>>

Unlock(c) == /\ Does(c, "unlock")
             /\ caller' = [caller EXCEPT ![c].todo = Tail(@)]
             /\ NotLink /\ UNCHANGED <<state, told, crossed, calls>>

\* _set_state's first half.  The HALs that do not say goodbye assign alone,
\* unless a simulated transport does it for them.
Tells(s) == sim \/ hal.saysBye \/ s # Disconnected

\* Deliberate fault: the callback is called before the state is assigned, and
\* what it raises keeps the assignment from being made.
Assign_After(c, s) ==
    /\ Does(c, s)
    /\ \E raised \in BOOLEAN :
          /\ state' = IF Listened /\ raised THEN state ELSE s
          /\ told' = IF Listened THEN s ELSE told
    /\ caller' = [caller EXCEPT ![c] = [todo |-> Tail(@.todo), tell |-> Silent]]
    /\ NotLink /\ UNCHANGED <<crossed, calls>>

Assign(c, s) == /\ Does(c, s)
                /\ state' = s
                /\ caller' = [caller EXCEPT ![c] = [todo |-> Tail(@.todo),
                                                    tell |-> IF Tells(s) THEN s ELSE Silent]]
                /\ NotLink /\ UNCHANGED <<told, crossed, calls>>

\* And its second: an exception of the callback ends the call, or is caught.
Tell(c, raises) ==
    LET caught == ~raises \/ ~Listened \/ (hal.guarded /\ ~sim) IN
    /\ caller[c].tell # Silent
    /\ told' = IF Listened THEN caller[c].tell ELSE told
    /\ caller' = [caller EXCEPT ![c] = [todo |-> IF caught THEN @.todo ELSE << >>,
                                        tell |-> Silent]]
    /\ NotLink /\ UNCHANGED <<state, crossed, calls>>

-----------------------------------------------------------------------------
(* send and receive.                                                       *)

OnlyPayload == UNCHANGED <<hal, state, sim, cb, linked, caller, told, crossed, calls>>

\* "ok": reported sent, and it was.  "claimed": reported sent, and it was not.
\* "failed": reported failed, or raised.  "late": the same, though it arrived.
Send == /\ IF sim THEN looped' = (IF looped < MaxCalls THEN looped + 1 ELSE looped) /\ sent' = "ok"
           ELSE /\ sent' \in CASE hal.sends = "nothing" -> {"claimed"}
                              [] hal.sends = "socket" /\ ~linked -> {"failed"}
                              [] OTHER -> {"ok", "failed", "late"}
                /\ UNCHANGED looped
        /\ OnlyPayload

\* The simulated transport gives back what was sent through it; nothing ever
\* fills the queues of the others.
Receive == /\ sim /\ looped > 0 /\ looped' = looped - 1
           /\ OnlyPayload /\ UNCHANGED sent

TransportNext == \/ Initialize \/ SetStateCallback \/ Send \/ Receive
                 \/ \E c \in Callers :
                      \/ Connect(c) \/ Disconnect(c) \/ BuildLink(c) \/ CloseLink(c) \/ Unlock(c)
                      \/ \E s \in {Connected, Disconnected, Connecting} : Assign(c, s)
                      \/ \E raises \in BOOLEAN : Tell(c, raises)

TransportSpec == TransportInit /\ [][TransportNext]_transportVars

-----------------------------------------------------------------------------
(* Properties.                                                             *)

\* Every variable keeps the values its comment names.
States == {Connected, Disconnected, Connecting}
TransportTypeOK ==
    /\ state \in States /\ told \in States \cup {Silent}
    /\ cb \in [hal : BOOLEAN, sim : BOOLEAN] /\ {sim, crossed} \subseteq BOOLEAN
    /\ \A c \in Callers : caller[c].tell \in States \cup {Silent}
    /\ sim => hal.mock
    /\ looped \in 0..MaxCalls /\ sent \in {"none", "ok", "claimed", "failed", "late"}

\* Between calls that did not run at once, the callback heard last what get_state
\* says, whether or not it raised, but for the goodbye of the HALs that do not say
\* it; and a HAL that builds a link says CONNECTED only when it has one.
StateTold ==
    (Busy = {} /\ ~crossed) =>
        /\ told # Silent => told = state \/ (state = Disconnected /\ ~Tells(Disconnected))
        /\ (hal.builds /\ state = Connected) => linked

=============================================================================
