------------------------------ MODULE PiBleLink ------------------------------
(***************************************************************************)
(* hal/pi3_reference.py: PiBLETransport.                                   *)
(*                                                                         *)
(* Every operation is a coroutine on one event loop, and its caller waits  *)
(* for the result for a while: fut.result(timeout) gives up on it and does *)
(* not cancel it.  A send writes its chunks one await at a time, each to   *)
(* whatever _client is by then; nothing keeps the coroutines of two        *)
(* callers, or of one that gave up, from taking turns.                     *)
(*                                                                         *)
(* What the device notifies (_notify_queue, receive) is not modelled.      *)
(***************************************************************************)
EXTENDS Naturals, Sequences

CONSTANTS Users,  \* the threads that call
          Jobs,   \* the coroutines that may be started
          Radio,  \* the BleakClients that may be made
          NoLink,
          Chunks  \* chunks in a payload

ASSUME BleAssumption == Chunks \in Nat \ {0} /\ NoLink \notin Radio \cup Jobs

VARIABLES bleState,    \* _state
          client,      \* _client
          up,          \* the clients that are connected
          dropped,     \* a connected client has lost its device
          job,         \* each coroutine: what it does and how far it is
          call,        \* what each thread waits for
          air,         \* the chunks written: of which send, which one, to which client
          sentOk,      \* sends that returned success
          bleCrossed,  \* coroutines that were not alone on the loop
          bleGaveUp    \* a caller gave up on one

bleVars == <<bleState, client, up, dropped, job, call, air, sentOk, bleCrossed, bleGaveUp>>

Unborn == [kind |-> "none", pc |-> "unborn", sent |-> 0, link |-> NoLink]

BleInit == /\ bleState = "DISCONNECTED" /\ client = NoLink
           /\ up = {} /\ dropped = FALSE
           /\ job = [j \in Jobs |-> Unborn]
           /\ call = [u \in Users |-> {}]
           /\ air = << >> /\ sentOk = {} /\ bleCrossed = {} /\ bleGaveUp = FALSE

OnLoop == {j \in Jobs : job[j].pc \notin {"unborn", "done", "failed"}}
Made == {job[j].link : j \in Jobs}

-----------------------------------------------------------------------------
(* The callers.                                                            *)

\* _run_coro: a coroutine of its own for the call.
RunCoro(u, j, op, kind) ==
    /\ job[j] = Unborn
    /\ job' = [job EXCEPT ![j] = [Unborn EXCEPT !.kind = kind, !.pc = "run"]]
    /\ call' = [call EXCEPT ![u] = {<<op, j>>}]
    /\ bleCrossed' = IF OnLoop = {} THEN bleCrossed ELSE bleCrossed \cup OnLoop \cup {j}
    /\ UNCHANGED <<client, up, dropped, air, sentOk, bleGaveUp>>

BleSend(u, j) == /\ call[u] = {} /\ bleState = "CONNECTED" /\ client # NoLink
                 /\ RunCoro(u, j, "send", "send") /\ UNCHANGED bleState

\* Nothing asks whether there is a connection already.
BleConnect(u, j) == /\ call[u] = {}
                    /\ RunCoro(u, j, "connect", "connect") /\ UNCHANGED bleState

\* A failed attempt is followed by the next, without an end.
Reconnect(u, j) == /\ call[u] = {} /\ bleState' = "RECONNECTING"
                   /\ RunCoro(u, j, "reconnect", "connect")

Retry(u, j) == /\ <<"reconnect", NoLink>> \in call[u]
               /\ RunCoro(u, j, "reconnect", "connect") /\ UNCHANGED bleState

\* disconnect(), shutdown()
BleDisconnect(u, j) == /\ call[u] = {} /\ client # NoLink
                       /\ RunCoro(u, j, "disconnect", "disconnect") /\ UNCHANGED bleState

DisconnectNothing(u) ==
    /\ call[u] = {} /\ client = NoLink /\ bleState' = "DISCONNECTED"
    /\ UNCHANGED <<client, up, dropped, job, call, air, sentOk, bleCrossed, bleGaveUp>>

\* fut.result(): a send may find that it took more than half a second.
Returns(u, op, j) ==
    /\ <<op, j>> \in call[u] /\ j \in Jobs /\ job[j].pc = "done"
    /\ call' = [call EXCEPT ![u] = {}]
    /\ IF op = "disconnect" THEN client' = NoLink /\ bleState' = "DISCONNECTED"
       ELSE UNCHANGED <<client, bleState>>
    /\ sentOk' \in IF op = "send" THEN {sentOk, sentOk \cup {j}} ELSE {sentOk}
    /\ UNCHANGED <<up, dropped, job, air, bleCrossed, bleGaveUp>>

\* It failed, or it has not ended in time and goes on.
Raises(u, op, j) ==
    /\ <<op, j>> \in call[u] /\ j \in Jobs /\ job[j].pc # "done"
    /\ call' = [call EXCEPT ![u] = IF op = "reconnect" THEN {<<op, NoLink>>} ELSE {}]
    /\ bleState' = IF op \in {"connect", "reconnect"} THEN "DISCONNECTED" ELSE bleState
    /\ bleGaveUp' = (bleGaveUp \/ job[j].pc # "failed")
    /\ UNCHANGED <<client, up, dropped, job, air, sentOk, bleCrossed>>

-----------------------------------------------------------------------------
(* The coroutines.                                                         *)

Calling == UNCHANGED <<call, sentOk, bleCrossed, bleGaveUp>>
JobGoes(j, to) == job' = [job EXCEPT ![j].pc = to]

\* _connect() up to its first await
ConnectBegins(j) == /\ job[j].kind = "connect" /\ job[j].pc = "run" /\ JobGoes(j, "connecting")
                    /\ bleState' = "CONNECTING"
                    /\ Calling /\ UNCHANGED <<client, up, dropped, air>>

BleConnected(j, l) == /\ job[j].pc = "connecting" /\ l \notin Made
                      /\ job' = [job EXCEPT ![j].pc = "notify", ![j].link = l]
                      /\ up' = up \cup {l}
                      /\ Calling /\ UNCHANGED <<bleState, client, dropped, air>>

\* start_notify.  A client that was there before is not closed.
Subscribed(j) == /\ job[j].pc = "notify" /\ job[j].link \in up /\ JobGoes(j, "done")
                 /\ client' = job[j].link /\ bleState' = "CONNECTED"
                 /\ Calling /\ UNCHANGED <<up, dropped, air>>

\* Either await of _connect() raises; a client that is connected stays so.
ConnectFails(j) == /\ job[j].pc \in {"connecting", "notify"} /\ JobGoes(j, "failed")
                   /\ Calling /\ UNCHANGED <<bleState, client, up, dropped, air>>

\* Deliberate fault: range(0, len(payload) - chunk_size, chunk_size).
WriteChunk_Short(j) ==
    /\ job[j].kind = "send" /\ job[j].pc = "run" /\ client \in up
    /\ air' = Append(air, [job |-> j, chunk |-> job[j].sent + 1, link |-> client])
    /\ job' = [job EXCEPT ![j].sent = @ + 1,
                          ![j].pc = IF job[j].sent + 1 >= Chunks - 1 THEN "done" ELSE "run"]
    /\ Calling /\ UNCHANGED <<bleState, client, up, dropped>>

\* write_gatt_char on what _client is now
WriteChunk(j) ==
    /\ job[j].kind = "send" /\ job[j].pc = "run" /\ client \in up
    /\ air' = Append(air, [job |-> j, chunk |-> job[j].sent + 1, link |-> client])
    /\ job' = [job EXCEPT ![j].sent = @ + 1,
                          ![j].pc = IF job[j].sent + 1 = Chunks THEN "done" ELSE "run"]
    /\ Calling /\ UNCHANGED <<bleState, client, up, dropped>>

WriteFails(j) == /\ job[j].kind = "send" /\ job[j].pc = "run" /\ client \notin up
                 /\ JobGoes(j, "failed")
                 /\ Calling /\ UNCHANGED <<bleState, client, up, dropped, air>>

\* _disconnect(): what goes wrong is logged.
Closed(j) == /\ job[j].kind = "disconnect" /\ job[j].pc = "run" /\ JobGoes(j, "done")
             /\ up' = up \ {client}
             /\ Calling /\ UNCHANGED <<bleState, client, dropped, air>>

\* The device goes away; nobody tells the transport.
Drop(l) == /\ l \in up /\ up' = up \ {l} /\ dropped' = TRUE
           /\ Calling /\ UNCHANGED <<bleState, client, job, air>>

BleNext == \/ \E u \in Users, j \in Jobs :
                \/ BleSend(u, j) \/ BleConnect(u, j) \/ Reconnect(u, j) \/ Retry(u, j) \/ BleDisconnect(u, j)
                \/ \E op \in {"send", "connect", "reconnect", "disconnect"} :
                      Returns(u, op, j) \/ Raises(u, op, j)
           \/ \E u \in Users : DisconnectNothing(u)
           \/ \E j \in Jobs : \/ ConnectBegins(j) \/ Subscribed(j) \/ ConnectFails(j)
                              \/ WriteChunk(j) \/ WriteFails(j) \/ Closed(j)
                              \/ \E l \in Radio : BleConnected(j, l)
           \/ \E l \in Radio : Drop(l)

BleSpec == BleInit /\ [][BleNext]_bleVars

-----------------------------------------------------------------------------
(* Properties.                                                             *)

\* Every variable keeps the values its comment names.
BleTypeOK ==
    /\ bleState \in {"DISCONNECTED", "CONNECTING", "CONNECTED", "RECONNECTING"}
    /\ up \subseteq Radio /\ client \in Radio \cup {NoLink}
    /\ \A j \in Jobs : job[j].sent \in 0..Chunks
    /\ sentOk \subseteq Jobs /\ bleCrossed \subseteq Jobs

\* Where the chunks of send j are in the air, whether they are there in order,
\* and whether nothing came between them and no other client took them.
Writes(j) == {i \in DOMAIN air : air[i].job = j}

InOrder(j) == \A a, b \in Writes(j) : a < b => air[a].chunk < air[b].chunk
Together(j) == \A a, b \in Writes(j) : /\ air[a].link = air[b].link
                                       /\ a + air[b].chunk = b + air[a].chunk

\* A send that reported success has written every chunk, once and in order; if
\* its coroutine had the loop to itself, one right after the other and to one
\* device.  And a transport on which no call gave up and no two coroutines met
\* says CONNECTED only of a client that has been connected.
SendWhole ==
    /\ \A j \in sentOk : /\ {air[i].chunk : i \in Writes(j)} = 1..Chunks /\ InOrder(j)
                         /\ j \notin bleCrossed => Together(j)
    /\ (~bleGaveUp /\ ~dropped /\ bleCrossed = {} /\ OnLoop = {} /\ call = [u \in Users |-> {}])
          => (bleState = "CONNECTED" => client \in up)

=============================================================================
