----------------------- MODULE AgentResponseListener -----------------------
(***************************************************************************)
(* core/response.py: agent responses arrive in any thread and are routed   *)
(* to a HAL, then given to the callbacks, while the application registers  *)
(* and removes callbacks and the SDK registers and deregisters the         *)
(* listener.  Nothing is locked: an action is what a thread does between   *)
(* two accesses to the listener's fields, or one HAL call or callback.     *)
(*                                                                         *)
(* Abstracted: a response's content and type, so that routing it is a call *)
(* of some HAL, which renders it or raises; the executor that              *)
(* on_agent_event_async hands the call to (a thread like any other).       *)
(***************************************************************************)
EXTENDS Naturals, Sequences, FiniteSets, SequencesExt

CONSTANTS
  Response,     \* the responses the agent sends, each once
  Handler,      \* callbacks the application may register
  MaxHandlers   \* bound on the number registered at a time

ASSUME ListenerAssumption == MaxHandlers \in Nat

VARIABLES
  active,    \* self._active
  handlers,  \* self._callbacks
  event      \* on_agent_event of each response
listenerVars == <<active, handlers, event>>

(***************************************************************************)
(* One call of on_agent_event: where it is, the copy of the callback list  *)
(* it iterates over and the next element, and a history field: the         *)
(* callbacks registered ever since the response was accepted that have not *)
(* been called.                                                            *)
(***************************************************************************)
Call == [pc : {"coming", "routing", "calling", "done", "dropped"},
         list : Seq(Handler), pos : Nat \ {0}, owed : SUBSET Handler]

ListenerInit ==
  /\ active = FALSE
  /\ handlers = <<>>
  /\ event = [r \in Response |-> [pc |-> "coming", list |-> <<>>, pos |-> 1, owed |-> {}]]

----------------------------------------------------------------------------
Register == active' = TRUE
Deregister == active' = FALSE

AddCallback(c) ==
  /\ Len(handlers) < MaxHandlers
  /\ handlers' = Append(handlers, c)
  /\ UNCHANGED <<active, event>>

\* list.remove takes the first c out; a c that is not there is ignored.
RemoveCallback(c) ==
  \E at \in DOMAIN handlers :
    /\ handlers[at] = c /\ \A i \in 1 .. at - 1 : handlers[i] # c
    /\ handlers' = RemoveAt(handlers, at)
    /\ event' = [r \in Response |-> [event[r] EXCEPT !.owed = @ \cap ToSet(handlers')]]
    /\ UNCHANGED active

----------------------------------------------------------------------------
(* on_agent_event.                                                         *)

Arrive(r) ==
  /\ event[r].pc = "coming"
  /\ event' = IF active THEN [event EXCEPT ![r].pc = "routing", ![r].owed = ToSet(handlers)]
              ELSE [event EXCEPT ![r].pc = "dropped"]
  /\ UNCHANGED <<active, handlers>>

\* The HAL renders the response or raises, and is done with either way; then
\* the callback list is copied.
Route(r) ==
  /\ event[r].pc = "routing"
  /\ event' = [event EXCEPT ![r].pc = "calling", ![r].list = handlers]
  /\ UNCHANGED <<active, handlers>>

\* Deliberate fault: the iteration is over the list itself.
CallBack_Live(r) ==
  /\ event[r].pc = "calling"
  /\ event' = [event EXCEPT ![r] =
       IF @.pos <= Len(handlers) THEN [@ EXCEPT !.pos = @ + 1, !.owed = @ \ {handlers[event[r].pos]}]
       ELSE [@ EXCEPT !.pc = "done"]]
  /\ UNCHANGED <<active, handlers>>

\* The next callback of the copy is called (if it raises, that is logged), or
\* there is none.
CallBack(r) ==
  LET call == event[r] IN
  /\ call.pc = "calling"
  /\ event' = [event EXCEPT ![r] =
       IF call.pos <= Len(call.list)
       THEN [call EXCEPT !.pos = @ + 1, !.owed = @ \ {call.list[call.pos]}]
       ELSE [call EXCEPT !.pc = "done"]]
  /\ UNCHANGED <<active, handlers>>

HandleEvent(r) == Route(r) \/ CallBack(r)

----------------------------------------------------------------------------
ListenerTypeOK ==
  /\ active \in BOOLEAN
  /\ handlers \in Seq(Handler)
  /\ event \in [Response -> Call]

(* A response that was accepted reaches every callback that was registered *)
(* when it came and stays registered, whatever the HAL or other callbacks  *)
(* raise, and although callbacks are added and removed meanwhile.          *)
CallbacksReached == \A r \in Response : event[r].pc = "done" => event[r].owed = {}
============================================================================
