----------------------------- MODULE MultiDevice -----------------------------
(***************************************************************************)
(* core/multi_device.py: DeviceRegistry and MultiDeviceOrchestrator.route. *)
(*                                                                         *)
(* The registry is a dict from device ids to handles that nothing locks:   *)
(* register() tests and then writes, route() walks the dict once for each  *)
(* capability the response needs, and Python raises when the size of a     *)
(* dict changes under an iterator.  The application registers, unregisters *)
(* and sets the status of handles while responses are routed.              *)
(*                                                                         *)
(* slots is the dict in insertion order; a deleted entry leaves a hole.    *)
(***************************************************************************)
EXTENDS Naturals, Sequences, SequencesExt, FiniteSets

CONSTANTS Handles,       \* the DeviceHandles
          DeviceId,      \* [Handles -> the device ids]
          Capabilities,  \* [Handles -> SUBSET of the capabilities]
          Clients,       \* threads that register
          Routers,       \* threads that route
          MaxSlots,      \* bound on the registrations
          Hole, Nothing

VARIABLES slots,       \* _handles
          status,      \* DeviceHandle.status
          registering, \* what a client's register() has tested and not yet written
          route        \* the state of each route()

fleetVars == <<slots, status, registering, route>>

\* DEGRADED counts as active, INACTIVE and ERROR as pending.
Statuses == {"pending", "active"}
ResponseTypes == {"TEXT", "IMAGE", "AUDIO", "ACTUATE", "HEARTBEAT"}

\* _ROUTING_TABLE; HEARTBEAT needs nothing, and is one pass over all.
Needs(type) == CASE type = "TEXT"      -> <<"display", "audio_output">>
                 [] type = "IMAGE"     -> <<"display">>
                 [] type = "AUDIO"     -> <<"audio_output">>
                 [] type = "ACTUATE"   -> <<"actuator">>
                 [] type = "HEARTBEAT" -> <<"any">>

Has(h, need) == need = "any" \/ need \in Capabilities[h]

Present == Range(slots) \ {Hole}
Size == Cardinality({i \in DOMAIN slots : slots[i] # Hole})
IsActive(h) == status[h] = "active"
Active == {h \in Present : IsActive(h)}

\* always, ever: the handles registered and active all through the route, and
\* at some time in it; moved: the dict was written to meanwhile.
Idle == [pc |-> "idle", type |-> "TEXT", pass |-> 1, pos |-> 0, size |-> 0,
         targets |-> << >>, always |-> {}, ever |-> {}, moved |-> FALSE]

FleetInit == /\ slots = << >>
             /\ status = [h \in Handles |-> "pending"]
             /\ registering = [c \in Clients |-> Nothing]
             /\ route = [r \in Routers |-> Idle]

-----------------------------------------------------------------------------
(* The registry.                                                           *)

\* What the routes in progress have seen of the registry.
Witness(active, moved) ==
    [r \in Routers |-> [route[r] EXCEPT !.always = @ \cap active, !.ever = @ \cup active,
                                        !.moved = @ \/ moved]]

\* register(): the test raises ValueError for an id that is there ...
CheckId(c, h) == /\ registering[c] = Nothing
                 /\ \A g \in Present : DeviceId[g] # DeviceId[h]
                 /\ Len(slots) + Cardinality({d \in Clients : registering[d] # Nothing})
                      < MaxSlots
                 /\ registering' = [registering EXCEPT ![c] = h]
                 /\ UNCHANGED <<slots, status, route>>

\* ... and the write puts the handle in the place of one with its id.
Write(c) ==
    LET h == registering[c]
        held == {i \in DOMAIN slots : slots[i] # Hole /\ DeviceId[slots[i]] = DeviceId[h]} IN
    /\ h # Nothing
    /\ slots' = IF held = {} THEN Append(slots, h)
                ELSE [i \in DOMAIN slots |-> IF i \in held THEN h ELSE slots[i]]
    /\ route' = Witness({g \in Range(slots') \ {Hole} : IsActive(g)}, TRUE)
    /\ registering' = [registering EXCEPT ![c] = Nothing]
    /\ UNCHANGED status

Unregister(h) == /\ h \in Present
                 /\ slots' = [i \in DOMAIN slots |-> IF slots[i] = h THEN Hole ELSE slots[i]]
                 /\ route' = Witness(Active \ {h}, TRUE)
                 /\ UNCHANGED <<status, registering>>

\* The application's: nothing in the module assigns status after PENDING.
SetStatus(h, s) == /\ status[h] # s
                   /\ status' = [status EXCEPT ![h] = s]
                   /\ route' = Witness({g \in Present : status'[g] = "active"}, FALSE)
                   /\ UNCHANGED <<slots, registering>>

-----------------------------------------------------------------------------
(* route(): get_by_capability for each capability, list_active in it.      *)

StartPass(r, n) == [r EXCEPT !.pc = "walk", !.pass = n, !.pos = 0, !.size = Size]

Begin(r, type) ==
    /\ route[r].pc \in {"idle", "done", "raised"}
    /\ route' = [route EXCEPT ![r] = [StartPass(Idle, 1) EXCEPT !.type = type, !.always = Active,
                                                                !.ever = Active]]
    /\ UNCHANGED <<slots, status, registering>>

\* Deliberate fault: no set of the ids already chosen.
Unseen_Always(r, h) == TRUE

\* The ids that are seen already; the one pass of a HEARTBEAT keeps none.
Unseen(r, h) == route[r].type # "HEARTBEAT" =>
                    \A g \in Range(route[r].targets) : DeviceId[g] # DeviceId[h]

\* The iterator's next: raises, ends the pass, or gives an entry.
Walk(r) ==
    LET me == route[r]
        need == Needs(me.type)[me.pass]
        ahead == {i \in DOMAIN slots : i > me.pos /\ slots[i] # Hole}
        next == CHOOSE i \in ahead : \A j \in ahead : i <= j IN
    /\ me.pc = "walk"
    /\ route' = [route EXCEPT ![r] =
         IF me.size # Size THEN [me EXCEPT !.pc = "raised"]
         ELSE IF ahead = {}
              THEN IF me.pass < Len(Needs(me.type)) THEN StartPass(me, me.pass + 1)
                   ELSE [me EXCEPT !.pc = "done"]
         ELSE IF IsActive(slots[next]) /\ Has(slots[next], need) /\ Unseen(r, slots[next])
              THEN [me EXCEPT !.pos = next, !.targets = Append(@, slots[next])]
         ELSE [me EXCEPT !.pos = next]]
    /\ UNCHANGED <<slots, status, registering>>

FleetNext == \/ \E c \in Clients : Write(c) \/ \E h \in Handles : CheckId(c, h)
             \/ \E h \in Handles : Unregister(h) \/ \E s \in Statuses : SetStatus(h, s)
             \/ \E r \in Routers : Walk(r) \/ \E type \in ResponseTypes : Begin(r, type)

FleetSpec == FleetInit /\ [][FleetNext]_fleetVars

-----------------------------------------------------------------------------
(* Properties.                                                             *)

\* Every variable keeps the values its comment names, and no id is twice in
\* the dict.
FleetTypeOK ==
    /\ slots \in Seq(Handles \cup {Hole}) /\ status \in [Handles -> Statuses]
    /\ registering \in [Clients -> Handles \cup {Nothing}]
    /\ \A r \in Routers : /\ route[r].pc \in {"idle", "walk", "done", "raised"}
                          /\ route[r].type \in ResponseTypes
                          /\ route[r].targets \in Seq(Handles)
    /\ \A g, h \in Present : DeviceId[g] = DeviceId[h] => g = h

\* A route that returns names no device id twice, though a text is for displays
\* and speakers and the application may put another handle under an id between
\* the two passes (a heartbeat, which checks no ids, only if the registry was not
\* written to meanwhile); no handle that was not registered, active and able to
\* take the response at some time in the route; and, unless the registry was
\* written to, all that were so all the time.
CanTake(h, type) == \E i \in DOMAIN Needs(type) : Has(h, Needs(type)[i])
NamedOnce(me) == \A i, j \in DOMAIN me.targets :
                    DeviceId[me.targets[i]] = DeviceId[me.targets[j]] => i = j
RouteExact ==
    \A r \in Routers : route[r].pc = "done" =>
        LET me == route[r] IN
        /\ me.type # "HEARTBEAT" \/ ~me.moved => NamedOnce(me)
        /\ \A h \in Range(me.targets) : h \in me.ever /\ CanTake(h, me.type)
        /\ ~me.moved => \A h \in me.always : CanTake(h, me.type) => h \in Range(me.targets)

=============================================================================
