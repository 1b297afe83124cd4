------------------------ MODULE EmbodimentSDKProofs ------------------------
(***************************************************************************)
(* The thread-based SDK and the listener it registers, for any number of   *)
(* transports, starts, responses and callbacks: responses are accepted     *)
(* only while all HALs are up, the thread stop() joins reads no IMU that   *)
(* is shut down, and a response reaches every callback it is owed to.      *)
(***************************************************************************)
EXTENDS EmbodimentSDK, SequenceTheorems, TLAPS

Hal == ({"imu", "camera", "microphone", "display"} \X {1}) \cup ({"transport"} \X (1 .. NumTransports))

----------------------------------------------------------------------------
(* The orders in which HALs are initialised and shut down.                 *)

LEMMA ConcatTypeLen ==
  ASSUME NEW S, NEW a \in Seq(S), NEW b \in Seq(S)
  PROVE  a \o b \in Seq(S) /\ Len(a \o b) = Len(a) + Len(b)
BY ConcatProperties

LEMMA IfType ==
  \A hal \in {"microphone", "display"} :
    If(hal) \in Seq(Hal) /\ (Len(If(hal)) = IF hal \in setup.hals THEN 1 ELSE 0)
<1>. SUFFICES ASSUME NEW hal \in {"microphone", "display"}
              PROVE  If(hal) \in Seq(Hal) /\ Len(If(hal)) = IF hal \in setup.hals THEN 1 ELSE 0
  OBVIOUS
<1>1. <<hal, 1>> \in Hal
  BY DEF Hal
<1>. HIDE DEF Hal
<1>2. << <<hal, 1>> >> \in Seq(Hal) /\ Len(<< <<hal, 1>> >>) = 1
  BY <1>1
<1>3. <<>> \in Seq(Hal) /\ Len(<<>>) = 0
  BY EmptySeq
<1>. QED
  BY <1>2, <1>3 DEF If

LEMMA TransportsType == Transports \in Seq(Hal) /\ Len(Transports) = NumTransports
<1>1. NumTransports \in Nat
  BY SDKAssumption
<1>2. \A i \in 1 .. NumTransports : <<"transport", i>> \in Hal
  BY DEF Hal
<1>3. Transports \in [1 .. NumTransports -> Hal]
  BY <1>2 DEF Transports
<1>. QED
  BY <1>1, <1>3

LEMMA Orders ==
  /\ StartOrder \in Seq(Hal) /\ StopOrder \in Seq(Hal)
  /\ Len(StartOrder) \in Nat /\ Len(StopOrder) = Len(StartOrder)
<1>. DEFINE first == << <<"imu", 1>>, <<"camera", 1>> >>
            second == << <<"camera", 1>>, <<"imu", 1>> >>
            mic == If("microphone")
            display == If("display")
            transports == Transports
<1>1. /\ first \in Seq(Hal) /\ Len(first) = 2
      /\ second \in Seq(Hal) /\ Len(second) = 2
  BY DEF Hal
<1>2. /\ mic \in Seq(Hal) /\ display \in Seq(Hal) /\ transports \in Seq(Hal)
      /\ Len(mic) \in Nat /\ Len(display) \in Nat /\ Len(transports) \in Nat
  BY IfType, TransportsType, LenProperties
<1>3. StartOrder = first \o mic \o display \o transports
      /\ StopOrder = mic \o second \o transports \o display
  BY DEF StartOrder, StopOrder
<1>. HIDE DEF first, second, mic, display, transports
<1>4. first \o mic \in Seq(Hal) /\ Len(first \o mic) = 2 + Len(mic)
  BY <1>1, <1>2, ConcatTypeLen
<1>5. first \o mic \o display \in Seq(Hal)
      /\ Len(first \o mic \o display) = 2 + Len(mic) + Len(display)
  BY <1>2, <1>4, ConcatTypeLen
<1>6. first \o mic \o display \o transports \in Seq(Hal)
      /\ Len(first \o mic \o display \o transports) = 2 + Len(mic) + Len(display) + Len(transports)
  BY <1>2, <1>5, ConcatTypeLen
<1>7. mic \o second \in Seq(Hal) /\ Len(mic \o second) = Len(mic) + 2
  BY <1>1, <1>2, ConcatTypeLen
<1>8. mic \o second \o transports \in Seq(Hal)
      /\ Len(mic \o second \o transports) = Len(mic) + 2 + Len(transports)
  BY <1>2, <1>7, ConcatTypeLen
<1>9. mic \o second \o transports \o display \in Seq(Hal)
      /\ Len(mic \o second \o transports \o display) = Len(mic) + 2 + Len(transports) + Len(display)
  BY <1>2, <1>8, ConcatTypeLen
<1>. QED
  BY <1>2, <1>3, <1>6, <1>9

\* A sequence that begins with a sequence begins as that one does.
LEMMA ConcatFirst ==
  ASSUME NEW S, NEW a \in Seq(S), NEW b \in Seq(S), a # <<>>
  PROVE  a \o b \in Seq(S) /\ a \o b # <<>> /\ (a \o b)[1] = a[1]
<1>. DEFINE ab == a \o b
<1>1. /\ ab \in Seq(S) /\ Len(ab) = Len(a) + Len(b)
      /\ \A i \in 1 .. Len(a) + Len(b) : ab[i] = IF i <= Len(a) THEN a[i] ELSE b[i - Len(a)]
  BY ConcatProperties
<1>2. Len(a) \in Nat \ {0} /\ Len(b) \in Nat
  BY EmptySeq, LenProperties
<1>. HIDE DEF ab
<1>3. 1 \in 1 .. Len(a) + Len(b) /\ 1 <= Len(a) /\ Len(ab) # 0
  BY <1>1, <1>2
<1>4. ab[1] = a[1]
  BY <1>1, <1>3
<1>5. ab # <<>>
  BY <1>3, EmptySeq
<1>. QED
  BY <1>1, <1>4, <1>5 DEF ab

LEMMA ImuManaged == <<"imu", 1>> \in Managed
<1>. DEFINE first == << <<"imu", 1>>, <<"camera", 1>> >>
            a == first \o If("microphone")
            b == a \o If("display")
            c == b \o Transports
<1>1. first \in Seq(Hal) /\ first # <<>> /\ first[1] = <<"imu", 1>>
  BY DEF Hal
<1>2. If("microphone") \in Seq(Hal) /\ If("display") \in Seq(Hal) /\ Transports \in Seq(Hal)
  BY IfType, TransportsType
<1>. HIDE DEF first
<1>3. a \in Seq(Hal) /\ a # <<>> /\ a[1] = first[1]
  BY <1>1, <1>2, ConcatFirst
<1>. HIDE DEF a
<1>4. b \in Seq(Hal) /\ b # <<>> /\ b[1] = a[1]
  BY <1>2, <1>3, ConcatFirst
<1>. HIDE DEF b
<1>5. c \in Seq(Hal) /\ c # <<>> /\ c[1] = b[1]
  BY <1>2, <1>4, ConcatFirst
<1>. HIDE DEF c
<1>6. 1 \in DOMAIN c
  BY <1>5, EmptySeq, LenProperties
<1>7. StartOrder = c
  BY DEF StartOrder, a, b, c, first
<1>. QED
  BY <1>1, <1>3, <1>4, <1>5, <1>6, <1>7 DEF Managed, ToSet

\* The orders are of the registry, which never changes.
LEMMA OrdersFixed == setup' = setup => StartOrder' = StartOrder /\ Managed' = Managed
BY DEF StartOrder, Managed, If, Transports


----------------------------------------------------------------------------
(* The listener.  What a response owes is in the rest of its copy of the   *)
(* callbacks, or in the list it has yet to copy.                            *)
OwedInList(call) ==
  \/ call.pc = "coming" /\ call.pos = 1
  \/ call.pc = "routing" /\ call.pos = 1 /\ call.owed \subseteq ToSet(handlers)
  \/ call.pc = "calling" /\ call.owed \subseteq {call.list[i] : i \in call.pos .. Len(call.list)}
  \/ call.pc = "done" /\ call.owed = {}
  \/ call.pc = "dropped"

ListenerInv == ListenerTypeOK /\ \A r \in Response : OwedInList(event[r])

LEMMA ListenerInvInit == ListenerInit => ListenerInv
<1>. SUFFICES ASSUME ListenerInit PROVE ListenerInv
  OBVIOUS
<1>1. [pc |-> "coming", list |-> <<>>, pos |-> 1, owed |-> {}] \in Call
  BY EmptySeq DEF Call
<1>. QED
  BY <1>1, EmptySeq DEF ListenerInit, ListenerInv, ListenerTypeOK, OwedInList

LEMMA AddCallbackInv == \A c \in Handler : ListenerInv /\ AddCallback(c) => ListenerInv'
<1>. SUFFICES ASSUME NEW c \in Handler, ListenerInv, AddCallback(c) PROVE ListenerInv'
  OBVIOUS
<1>1. handlers \in Seq(Handler) /\ handlers' = Append(handlers, c) /\ active' = active /\ event' = event
  BY DEF ListenerInv, ListenerTypeOK, AddCallback
<1>2. /\ handlers' \in Seq(Handler) /\ Len(handlers') = Len(handlers) + 1
      /\ \A i \in 1 .. Len(handlers) : handlers'[i] = handlers[i]
  BY <1>1
<1>3. ToSet(handlers) \subseteq ToSet(handlers')
  <2>1. Len(handlers) \in Nat /\ DOMAIN handlers = 1 .. Len(handlers)
        /\ DOMAIN handlers' = 1 .. Len(handlers')
    BY <1>1, <1>2
  <2>2. \A i \in DOMAIN handlers : i \in DOMAIN handlers' /\ handlers'[i] = handlers[i]
    BY <2>1, <1>2
  <2>. QED
    BY <2>2 DEF ToSet
<1>4. ASSUME NEW r \in Response PROVE OwedInList(event[r])'
  BY <1>1, <1>3 DEF ListenerInv, OwedInList
<1>. QED
  BY <1>1, <1>2, <1>4 DEF ListenerInv, ListenerTypeOK

\* A list with one element taken out is a list of the same kind.
LEMMA RemoveAtType ==
  ASSUME NEW S, NEW s \in Seq(S), NEW at \in DOMAIN s
  PROVE  RemoveAt(s, at) \in Seq(S)
<1>1. Len(s) \in Nat /\ at \in 1 .. Len(s) /\ \A i \in 1 .. Len(s) : s[i] \in S
  BY LenProperties, ElementOfSeq
<1>2. SubSeq(s, 1, at - 1) \in Seq(S)
  <2>1. \A i \in 1 .. at - 1 : s[i] \in S
    BY <1>1
  <2>2. 1 \in Int /\ at - 1 \in Int
    BY <1>1
  <2>. QED
    BY <2>1, <2>2, SubSeqProperties
<1>3. SubSeq(s, at + 1, Len(s)) \in Seq(S)
  <2>1. \A i \in at + 1 .. Len(s) : s[i] \in S
    BY <1>1
  <2>2. at + 1 \in Int /\ Len(s) \in Int
    BY <1>1
  <2>. QED
    BY <2>1, <2>2, SubSeqProperties
<1>. QED
  BY <1>2, <1>3, ConcatProperties DEF RemoveAt

LEMMA RemoveCallbackInv == \A c \in Handler : ListenerInv /\ RemoveCallback(c) => ListenerInv'
<1>. SUFFICES ASSUME NEW c \in Handler, ListenerInv, RemoveCallback(c) PROVE ListenerInv'
  OBVIOUS
<1>1. PICK at \in DOMAIN handlers : handlers' = RemoveAt(handlers, at)
  BY DEF RemoveCallback
<1>2. /\ event' = [r \in Response |-> [event[r] EXCEPT !.owed = @ \cap ToSet(handlers')]]
      /\ active' = active /\ active \in BOOLEAN /\ event \in [Response -> Call]
  BY DEF RemoveCallback, ListenerInv, ListenerTypeOK
<1>3. handlers' \in Seq(Handler)
  BY <1>1, RemoveAtType DEF ListenerInv, ListenerTypeOK
<1>4. ASSUME NEW r \in Response
      PROVE  event'[r] \in Call /\ OwedInList(event[r])'
  <2>1. /\ event[r] \in Call /\ event'[r].pc = event[r].pc /\ event'[r].pos = event[r].pos
        /\ event'[r].list = event[r].list /\ event'[r].owed = event[r].owed \cap ToSet(handlers')
        /\ event'[r] \in Call
    BY <1>2 DEF Call
  <2>. QED
    BY <2>1 DEF ListenerInv, OwedInList
<1>5. event' \in [Response -> Call]
  BY <1>2, <1>4
<1>. QED
  BY <1>2, <1>3, <1>4, <1>5 DEF ListenerInv, ListenerTypeOK

\* The four steps of on_agent_event change one call each.
LEMMA EventInv ==
  ASSUME ListenerInv, NEW r \in Response, NEW call \in Call, OwedInList(call),
         event' = [event EXCEPT ![r] = call], UNCHANGED <<active, handlers>>
  PROVE  ListenerInv'
<1>1. event' \in [Response -> Call]
  BY DEF ListenerInv, ListenerTypeOK
<1>2. ASSUME NEW q \in Response PROVE OwedInList(event[q])'
  BY DEF ListenerInv, ListenerTypeOK, OwedInList
<1>. QED
  BY <1>1, <1>2 DEF ListenerInv, ListenerTypeOK

LEMMA ToSetType == ASSUME NEW S, NEW s \in Seq(S) PROVE ToSet(s) \subseteq S
BY LenProperties, ElementOfSeq DEF ToSet

LEMMA ArriveInv == \A r \in Response : ListenerInv /\ Arrive(r) => ListenerInv'
<1>. SUFFICES ASSUME NEW r \in Response, ListenerInv, Arrive(r) PROVE ListenerInv'
  OBVIOUS
<1>1. event[r] \in Call /\ event[r].pc = "coming" /\ event[r].pos = 1 /\ ToSet(handlers) \subseteq Handler
      /\ event \in [Response -> Call]
  BY ToSetType DEF ListenerInv, ListenerTypeOK, OwedInList, Arrive
<1>2. CASE active
  <2>. DEFINE n == [event[r] EXCEPT !.pc = "routing", !.owed = ToSet(handlers)]
  <2>1. n \in Call /\ n.pc = "routing" /\ n.pos = 1 /\ n.owed = ToSet(handlers)
    BY <1>1 DEF Call
  <2>2. event' = [event EXCEPT ![r] = n]
    BY <1>1, <1>2 DEF Arrive
  <2>. HIDE DEF n
  <2>. QED
    BY <2>1, <2>2, EventInv DEF OwedInList, Arrive
<1>3. CASE ~active
  <2>. DEFINE n == [event[r] EXCEPT !.pc = "dropped"]
  <2>1. n \in Call /\ n.pc = "dropped"
    BY <1>1 DEF Call
  <2>2. event' = [event EXCEPT ![r] = n]
    BY <1>1, <1>3 DEF Arrive
  <2>. HIDE DEF n
  <2>. QED
    BY <2>1, <2>2, EventInv DEF OwedInList, Arrive
<1>. QED
  BY <1>2, <1>3

LEMMA RouteInv == \A r \in Response : ListenerInv /\ Route(r) => ListenerInv'
<1>. SUFFICES ASSUME NEW r \in Response, ListenerInv, Route(r) PROVE ListenerInv'
  OBVIOUS
<1>1. /\ event[r] \in Call /\ event[r].pc = "routing" /\ event[r].pos = 1
      /\ event[r].owed \subseteq ToSet(handlers) /\ handlers \in Seq(Handler)
      /\ event \in [Response -> Call]
  BY DEF ListenerInv, ListenerTypeOK, OwedInList, Route
<1>. DEFINE n == [event[r] EXCEPT !.pc = "calling", !.list = handlers]
<1>2. n \in Call /\ n.pc = "calling" /\ n.pos = 1 /\ n.owed = event[r].owed /\ n.list = handlers
  BY <1>1 DEF Call
<1>3. event' = [event EXCEPT ![r] = n]
  BY <1>1 DEF Route
<1>4. ToSet(handlers) = {handlers[i] : i \in 1 .. Len(handlers)}
  BY <1>1, LenProperties DEF ToSet
<1>. HIDE DEF n
<1>5. OwedInList(n)
  BY <1>1, <1>2, <1>4 DEF OwedInList
<1>. QED
  BY <1>2, <1>3, <1>5, EventInv DEF Route

LEMMA CallBackInv == \A r \in Response : ListenerInv /\ CallBack(r) => ListenerInv'
<1>. SUFFICES ASSUME NEW r \in Response, ListenerInv, CallBack(r) PROVE ListenerInv'
  OBVIOUS
<1>. DEFINE c == event[r]
<1>1. /\ c \in Call /\ c.pc = "calling" /\ c.list \in Seq(Handler) /\ c.pos \in Nat \ {0}
      /\ c.owed \subseteq {c.list[i] : i \in c.pos .. Len(c.list)}
      /\ event \in [Response -> Call] /\ Len(c.list) \in Nat
  BY LenProperties DEF ListenerInv, ListenerTypeOK, OwedInList, CallBack, Call
<1>2. CASE c.pos <= Len(c.list)
  <2>. DEFINE n == [c EXCEPT !.pos = @ + 1, !.owed = @ \ {c.list[c.pos]}]
              rest == c.owed \ {c.list[c.pos]}
  <2>1. n = [c EXCEPT !.pos = c.pos + 1, !.owed = rest]
    BY <1>1 DEF Call
  <2>2. event' = [event EXCEPT ![r] = n]
    BY <1>1, <1>2 DEF CallBack
  <2>6. rest \subseteq Handler /\ c.pos + 1 \in Nat \ {0} /\ rest = c.owed \ {c.list[c.pos]}
    BY <1>1 DEF Call
  <2>. HIDE DEF n, rest
  <2>5. /\ n \in Call /\ n.pc = "calling" /\ n.pos = c.pos + 1 /\ n.list = c.list /\ n.owed = rest
    BY <1>1, <2>1, <2>6 DEF Call
  <2>3. ASSUME NEW x \in n.owed PROVE \E i \in n.pos .. Len(n.list) : x = n.list[i]
    <3>1. PICK i \in c.pos .. Len(c.list) : x = c.list[i]
      BY <1>1, <2>5, <2>6
    <3>2. i # c.pos
      BY <2>5, <2>6, <3>1
    <3>3. i \in n.pos .. Len(n.list)
      BY <1>1, <2>5, <3>2
    <3>. QED
      BY <2>5, <3>1, <3>3
  <2>4. OwedInList(n)
    BY <2>3, <2>5 DEF OwedInList
  <2>. QED
    BY <2>2, <2>4, <2>5, EventInv DEF CallBack
<1>3. CASE ~(c.pos <= Len(c.list))
  <2>. DEFINE n == [c EXCEPT !.pc = "done"]
  <2>1. n \in Call /\ n.pc = "done" /\ n.owed = c.owed
    BY <1>1 DEF Call
  <2>2. event' = [event EXCEPT ![r] = n]
    BY <1>1, <1>3 DEF CallBack
  <2>3. c.owed = {}
    BY <1>1, <1>3
  <2>. HIDE DEF n
  <2>. QED
    BY <2>1, <2>2, <2>3, EventInv DEF CallBack, OwedInList
<1>. QED
  BY <1>2, <1>3

LEMMA ListenerInvKept ==
  ASSUME ListenerInv, active' \in BOOLEAN, UNCHANGED <<handlers, event>>
  PROVE  ListenerInv'
BY DEF ListenerInv, ListenerTypeOK, OwedInList

----------------------------------------------------------------------------
(* The SDK.  While start() runs, the HALs it has passed are up and the     *)
(* application has a start left; between the listener's registration and   *)
(* its deregistration all of them are.  The flag is down while stop()      *)
(* runs, and once stop() has joined, its thread is not about to read.      *)
StateTypeOK ==
  /\ setup \in Setups
  /\ run \in BOOLEAN /\ starts \in 0 .. MaxStarts /\ handle \in 0 .. starts
  /\ loop \in [Loop -> {"unstarted", "check", "read", "exited", "dead"} \cup InCall]
  /\ tx \in [Loop -> 1 .. NumTransports]
  /\ up \subseteq Managed
  /\ app \in {"idle", "starting", "threading", "joining", "deregistering", "stopping", "stopped"}
  /\ step \in 1 .. Len(StartOrder) + 1

StartInv ==
  /\ app \in {"starting", "threading"} => starts < setup.starts
  /\ app = "starting" => \A i \in 1 .. step - 1 : StartOrder[i] \in up
  /\ app = "threading" => up = Managed

ActiveInv == ListenerNeedsHals /\ (app = "stopping" => ~active)

RunInv == run => app \in {"idle", "starting", "threading"} /\ <<"imu", 1>> \in up

ReadInv == handle # 0 /\ loop[handle] = "read" =>
             app \notin {"deregistering", "stopping"} /\ <<"imu", 1>> \in up

SdkInv == StateTypeOK /\ StartInv /\ ActiveInv /\ RunInv /\ ReadInv
IInv == ListenerInv /\ SdkInv

LEMMA OrderTypes ==
  /\ Len(StartOrder) \in Nat /\ Len(StopOrder) = Len(StartOrder)
  /\ StartOrder \in Seq(Hal) /\ Managed = {StartOrder[i] : i \in 1 .. Len(StartOrder)}
<1>. DEFINE order == StartOrder
<1>1. order \in Seq(Hal)
  BY Orders
<1>. HIDE DEF order
<1>2. DOMAIN order = 1 .. Len(order)
  BY <1>1, LenProperties
<1>. QED
  BY <1>2, Orders DEF Managed, ToSet, order

LEMMA SetupType == StateTypeOK => MaxStarts \in Nat /\ setup.starts \in 0 .. MaxStarts
                                  /\ NumTransports \in Nat \ {0}
BY SDKAssumption DEF StateTypeOK

LEMMA SdkInit == Init => IInv
<1>. SUFFICES ASSUME Init PROVE IInv
  OBVIOUS
<1>1. ListenerInv
  BY ListenerInvInit DEF Init
<1>2. StateTypeOK
  <2>1. MaxStarts \in Nat /\ NumTransports \in Nat \ {0} /\ Len(StartOrder) \in Nat
    BY OrderTypes, SDKAssumption
  <2>2. 0 \in 0 .. MaxStarts /\ 0 \in 0 .. 0 /\ 1 \in 1 .. NumTransports /\ 1 \in 1 .. Len(StartOrder) + 1
    BY <2>1
  <2>. QED
    BY <2>2 DEF Init, StateTypeOK
<1>3. StartInv /\ ActiveInv /\ RunInv /\ ReadInv
  BY DEF Init, ListenerInit, StartInv, ActiveInv, ListenerNeedsHals, RunInv, ReadInv
<1>. QED
  BY <1>1, <1>2, <1>3 DEF IInv, SdkInv

LEMMA ListenerTypes == ListenerInv => active \in BOOLEAN
BY DEF ListenerInv, ListenerTypeOK

\* The steps of the application's thread.
LEMMA CallStartInv == IInv /\ CallStart => IInv'
<1>. SUFFICES ASSUME IInv, CallStart PROVE IInv'
  OBVIOUS
<1>1. ListenerInv'
  BY ListenerTypes, ListenerInvKept DEF IInv, CallStart, listenerVars
<1>2. StateTypeOK'
  BY OrdersFixed, OrderTypes DEF IInv, SdkInv, StateTypeOK, CallStart
<1>3. StartInv' /\ ActiveInv' /\ RunInv' /\ ReadInv'
  BY OrdersFixed DEF IInv, SdkInv, CallStart, listenerVars, StartInv, ActiveInv, ListenerNeedsHals, RunInv, ReadInv
<1>. QED
  BY <1>1, <1>2, <1>3 DEF IInv, SdkInv

LEMMA InitializeHalInv == IInv /\ InitializeHal => IInv'
<1>. SUFFICES ASSUME IInv, InitializeHal PROVE IInv'
  OBVIOUS
<1>1. ListenerInv'
  BY ListenerTypes, ListenerInvKept DEF IInv, InitializeHal, listenerVars
<1>2. StateTypeOK /\ StartOrder' = StartOrder /\ Managed' = Managed /\ UNCHANGED <<listenerVars, setup, app, run>>
  BY OrdersFixed DEF IInv, SdkInv, InitializeHal
<1>3. step \in 1 .. Len(StartOrder) /\ step' = step + 1 /\ up' = up \cup {StartOrder[step]}
      /\ up' \subseteq Managed /\ app = "starting"
  BY <1>2, OrderTypes DEF StateTypeOK, InitializeHal
<1>4. StateTypeOK'
  BY <1>2, <1>3, OrderTypes DEF StateTypeOK, InitializeHal
<1>5. StartInv'
  BY <1>2, <1>3, OrderTypes DEF IInv, SdkInv, StartInv, InitializeHal
<1>6. ActiveInv'
  BY <1>2, <1>3 DEF IInv, SdkInv, ActiveInv, ListenerNeedsHals, listenerVars
<1>7. RunInv' /\ ReadInv'
  BY <1>2, <1>3 DEF IInv, SdkInv, RunInv, ReadInv, InitializeHal
<1>. QED
  BY <1>1, <1>4, <1>5, <1>6, <1>7 DEF IInv, SdkInv

LEMMA RegisterListenerInv == IInv /\ RegisterListener => IInv'
<1>. SUFFICES ASSUME IInv, RegisterListener PROVE IInv'
  OBVIOUS
<1>1. ListenerInv'
  BY ListenerInvKept DEF IInv, RegisterListener, Register
<1>2. up = Managed
  <2>1. step - 1 = Len(StartOrder)
    BY OrderTypes DEF RegisterListener
  <2>2. \A i \in 1 .. Len(StartOrder) : StartOrder[i] \in up
    BY <2>1 DEF IInv, SdkInv, StartInv, RegisterListener
  <2>. QED
    BY <2>2, OrderTypes DEF IInv, SdkInv, StateTypeOK
<1>3. StateTypeOK'
  BY OrdersFixed DEF IInv, SdkInv, StateTypeOK, RegisterListener
<1>4. StartInv' /\ ActiveInv' /\ RunInv' /\ ReadInv'
  BY <1>2, OrdersFixed DEF IInv, SdkInv, RegisterListener, Register, StartInv, ActiveInv, ListenerNeedsHals, RunInv, ReadInv
<1>. QED
  BY <1>1, <1>3, <1>4 DEF IInv, SdkInv

LEMMA StartThreadInv == IInv /\ StartThread => IInv'
<1>. SUFFICES ASSUME IInv, StartThread PROVE IInv'
  OBVIOUS
<1>1. ListenerInv'
  BY ListenerTypes, ListenerInvKept DEF IInv, StartThread, listenerVars
<1>2. starts + 1 \in Loop /\ starts + 1 \in 0 .. MaxStarts /\ starts \in Nat
  BY SetupType DEF IInv, SdkInv, StateTypeOK, StartInv, StartThread, Loop
<1>3. StateTypeOK'
  BY <1>2, OrdersFixed DEF IInv, SdkInv, StateTypeOK, StartThread
<1>4. StartInv' /\ ActiveInv'
  BY OrdersFixed DEF IInv, SdkInv, StartThread, StartInv, ActiveInv, ListenerNeedsHals, listenerVars
<1>5. RunInv' /\ ReadInv'
  BY <1>2, ImuManaged DEF IInv, SdkInv, StartThread, StateTypeOK, StartInv, RunInv, ReadInv
<1>. QED
  BY <1>1, <1>3, <1>4, <1>5 DEF IInv, SdkInv

LEMMA JoinInv == IInv /\ Join => IInv'
<1>. SUFFICES ASSUME IInv, Join PROVE IInv'
  OBVIOUS
<1>1. ListenerInv'
  BY ListenerTypes, ListenerInvKept DEF IInv, Join, listenerVars
<1>2. StateTypeOK'
  BY OrdersFixed DEF IInv, SdkInv, StateTypeOK, Join
<1>3. StartInv' /\ ActiveInv' /\ RunInv'
  BY OrdersFixed DEF IInv, SdkInv, Join, listenerVars, StartInv, ActiveInv, ListenerNeedsHals, RunInv
<1>4. ReadInv'
  <2>1. handle # 0 => loop[handle] # "read"
    BY DEF Join, InCall
  <2>. QED
    BY <2>1 DEF Join, ReadInv
<1>. QED
  BY <1>1, <1>2, <1>3, <1>4 DEF IInv, SdkInv

LEMMA DeregisterListenerInv == IInv /\ DeregisterListener => IInv'
<1>. SUFFICES ASSUME IInv, DeregisterListener PROVE IInv'
  OBVIOUS
<1>1. ListenerInv'
  BY ListenerInvKept DEF IInv, DeregisterListener, Deregister
<1>2. StateTypeOK'
  BY OrdersFixed DEF IInv, SdkInv, StateTypeOK, DeregisterListener
<1>3. StartInv' /\ ActiveInv' /\ RunInv' /\ ReadInv'
  BY OrdersFixed DEF IInv, SdkInv, DeregisterListener, Deregister, StartInv, ActiveInv, ListenerNeedsHals, RunInv, ReadInv
<1>. QED
  BY <1>1, <1>2, <1>3 DEF IInv, SdkInv

LEMMA ShutdownHalInv == IInv /\ ShutdownHal => IInv'
<1>. SUFFICES ASSUME IInv, ShutdownHal PROVE IInv'
  OBVIOUS
<1>1. ListenerInv'
  BY ListenerTypes, ListenerInvKept DEF IInv, ShutdownHal, listenerVars
<1>2. StateTypeOK'
  BY OrdersFixed, OrderTypes DEF IInv, SdkInv, StateTypeOK, ShutdownHal
<1>3. StartInv' /\ ActiveInv' /\ RunInv' /\ ReadInv'
  BY OrdersFixed DEF IInv, SdkInv, ShutdownHal, listenerVars, StartInv, ActiveInv, ListenerNeedsHals, RunInv, ReadInv
<1>. QED
  BY <1>1, <1>2, <1>3 DEF IInv, SdkInv

\* The calls that change nothing but where the application is.
LEMMA OtherAppInv ==
  IInv /\ (InitializeRaises \/ CallStop \/ ShutdownRaises \/ StopReturns \/ GoOn) => IInv'
<1>. SUFFICES ASSUME IInv, InitializeRaises \/ CallStop \/ ShutdownRaises \/ StopReturns \/ GoOn PROVE IInv'
  OBVIOUS
<1>. USE DEF InitializeRaises, CallStop, ShutdownRaises, StopReturns, GoOn
<1>1. ListenerInv'
  BY ListenerTypes, ListenerInvKept DEF IInv, listenerVars
<1>2. StateTypeOK'
  <2>1. Len(StartOrder) \in Nat /\ StartOrder' = StartOrder /\ Managed' = Managed
    BY OrderTypes, OrdersFixed
  <2>2. 1 \in 1 .. Len(StartOrder) + 1
    BY <2>1
  <2>3. /\ UNCHANGED <<setup, starts, handle, loop, tx, up>>
        /\ (run' = run \/ run' = FALSE) /\ (step' = step \/ step' = 1)
        /\ app' \in {"idle", "joining", "stopped"}
    OBVIOUS
  <2>. QED
    BY <2>1, <2>2, <2>3 DEF IInv, SdkInv, StateTypeOK
<1>3. StartInv' /\ ActiveInv' /\ RunInv' /\ ReadInv'
  BY OrdersFixed DEF IInv, SdkInv, listenerVars, StartInv, ActiveInv, ListenerNeedsHals, RunInv, ReadInv
<1>. QED
  BY <1>1, <1>2, <1>3 DEF IInv, SdkInv

\* A loop thread that moves goes to read only from the check of the flag.
LEMMA MoveInv ==
  ASSUME IInv, NEW l \in Loop, NEW pc \in {"check", "read", "exited", "dead"} \cup InCall,
         Move(l, pc), pc = "read" => run
  PROVE  IInv'
<1>1. ListenerInv'
  BY ListenerTypes, ListenerInvKept DEF IInv, Move, listenerVars
<1>2. StateTypeOK'
  BY OrdersFixed, SetupType DEF IInv, SdkInv, StateTypeOK, Move
<1>3. StartInv' /\ ActiveInv' /\ RunInv'
  BY OrdersFixed DEF IInv, SdkInv, Move, listenerVars, StartInv, ActiveInv, ListenerNeedsHals, RunInv
<1>4. ReadInv'
  <2>1. handle' = handle /\ app' = app /\ up' = up /\ loop' = [loop EXCEPT ![l] = pc]
    BY DEF Move
  <2>2. CASE handle = l
    BY <2>1, <2>2 DEF IInv, SdkInv, StateTypeOK, RunInv, ReadInv
  <2>3. CASE handle # l
    BY <2>1, <2>3 DEF IInv, SdkInv, StateTypeOK, ReadInv
  <2>. QED
    BY <2>2, <2>3
<1>. QED
  BY <1>1, <1>2, <1>3, <1>4 DEF IInv, SdkInv

LEMMA SendFailsInv == \A l \in Loop : IInv /\ SendFails(l) => IInv'
<1>. SUFFICES ASSUME NEW l \in Loop, IInv, SendFails(l) PROVE IInv'
  OBVIOUS
<1>1. CASE Move(l, "triggered")
  BY <1>1, MoveInv DEF InCall
<1>2. CASE tx[l] < NumTransports /\ tx' = [tx EXCEPT ![l] = @ + 1]
           /\ UNCHANGED <<listenerVars, setup, run, starts, handle, loop, up, app, step>>
  <2>1. ListenerInv'
    BY <1>2, ListenerTypes, ListenerInvKept DEF IInv, listenerVars
  <2>2. StateTypeOK'
    BY <1>2, OrdersFixed, SetupType DEF IInv, SdkInv, StateTypeOK
  <2>3. StartInv' /\ ActiveInv' /\ RunInv' /\ ReadInv'
    BY <1>2, OrdersFixed DEF IInv, SdkInv, listenerVars, StartInv, ActiveInv, ListenerNeedsHals, RunInv, ReadInv
  <2>. QED
    BY <2>1, <2>2, <2>3 DEF IInv, SdkInv
<1>. QED
  BY <1>1, <1>2 DEF SendFails

LEMMA LoopStepInv == \A l \in Loop : IInv /\ LoopStep(l) => IInv'
<1>. SUFFICES ASSUME NEW l \in Loop, IInv, LoopStep(l) PROVE IInv'
  OBVIOUS
<1>1. CASE CheckRun(l)
  <2>1. CASE run
    BY <1>1, <2>1, MoveInv DEF CheckRun
  <2>2. CASE ~run
    BY <1>1, <2>2, MoveInv DEF CheckRun
  <2>. QED
    BY <2>1, <2>2
<1>2. CASE SendFails(l)
  BY <1>2, SendFailsInv
<1>3. CASE \E pc \in {"check", "dead"} \cup InCall : Move(l, pc)
  BY <1>3, MoveInv DEF InCall
<1>. QED
  BY <1>1, <1>2, <1>3
     DEF LoopStep, ReadSample, TriggerStep, SampleRead, CameraReturns, MicrophoneReturns, Classified,
         Send, SendSucceeds, TriggerCallbacks, DisplayReturns, ResponseCallbacks, CallRaises, InCall

LEMMA CallbackStopsInv == \A l \in Loop : IInv /\ CallbackStops(l) => IInv'
<1>. SUFFICES ASSUME NEW l \in Loop, IInv, CallbackStops(l) PROVE IInv'
  OBVIOUS
<1>1. ListenerInv'
  BY ListenerTypes, ListenerInvKept DEF IInv, CallbackStops, listenerVars
<1>2. StateTypeOK'
  BY OrdersFixed DEF IInv, SdkInv, StateTypeOK, CallbackStops
<1>3. StartInv' /\ ActiveInv' /\ RunInv'
  BY OrdersFixed DEF IInv, SdkInv, CallbackStops, listenerVars, StartInv, ActiveInv, ListenerNeedsHals, RunInv
<1>4. ReadInv'
  BY DEF IInv, SdkInv, StateTypeOK, ReadInv, CallbackStops
<1>. QED
  BY <1>1, <1>2, <1>3, <1>4 DEF IInv, SdkInv

LEMMA ListenerStepInv == IInv /\ ListenerStep => IInv'
<1>. SUFFICES ASSUME IInv, ListenerStep PROVE IInv'
  OBVIOUS
<1>1. setup.handlers \subseteq Handler /\ setup.responses \subseteq Response
  BY SDKAssumption DEF IInv, SdkInv, StateTypeOK
<1>2. ListenerInv'
  BY <1>1, AddCallbackInv, RemoveCallbackInv, ArriveInv, RouteInv, CallBackInv
     DEF IInv, ListenerStep, HandleEvent
<1>3. active' = active /\ UNCHANGED sdkVars
  BY DEF ListenerStep, AddCallback, RemoveCallback, Arrive, HandleEvent, Route, CallBack
<1>4. StateTypeOK'
  BY <1>3, OrdersFixed DEF IInv, SdkInv, StateTypeOK, sdkVars
<1>5. StartInv' /\ ActiveInv' /\ RunInv' /\ ReadInv'
  BY <1>3, OrdersFixed DEF IInv, SdkInv, sdkVars, StartInv, ActiveInv, ListenerNeedsHals, RunInv, ReadInv
<1>. QED
  BY <1>2, <1>4, <1>5 DEF IInv, SdkInv

LEMMA NextInv == IInv /\ [Next]_vars => IInv'
<1>. SUFFICES ASSUME IInv, [Next]_vars PROVE IInv'
  OBVIOUS
<1>1. CASE UNCHANGED vars
  <2>1. ListenerInv'
    BY <1>1, ListenerTypes, ListenerInvKept DEF IInv, vars, listenerVars
  <2>2. StateTypeOK'
    BY <1>1, OrdersFixed DEF IInv, SdkInv, StateTypeOK, vars, sdkVars
  <2>3. StartInv' /\ ActiveInv' /\ RunInv' /\ ReadInv'
    BY <1>1, OrdersFixed DEF IInv, SdkInv, vars, listenerVars, sdkVars, StartInv, ActiveInv,
                             ListenerNeedsHals, RunInv, ReadInv
  <2>. QED
    BY <2>1, <2>2, <2>3 DEF IInv, SdkInv
<1>2. CASE Next
  BY <1>2, CallStartInv, InitializeHalInv, RegisterListenerInv, StartThreadInv, JoinInv,
     DeregisterListenerInv, ShutdownHalInv, OtherAppInv, LoopStepInv, CallbackStopsInv, ListenerStepInv
     DEF Next, AppStep
<1>. QED
  BY <1>1, <1>2

LEMMA Invariant == Spec => []IInv
BY SdkInit, NextInv, PTL DEF Spec

----------------------------------------------------------------------------
(* Every variable keeps its type: in particular start() is never so far    *)
(* along that it would create a thread beyond those of the application,    *)
(* and a HAL that is up is one start() initialises.                        *)
THEOREM SdkTypeCorrect == Spec => []TypeOK
<1>1. IInv => TypeOK
  BY DEF IInv, ListenerInv, SdkInv, StateTypeOK, TypeOK
<1>. QED
  BY <1>1, Invariant, PTL

(* The listener accepts a response only while every HAL that start()       *)
(* initialises is up, whatever start() and stop() calls come in which      *)
(* order and wherever they raise.                                          *)
THEOREM ResponsesFindHals == Spec => []ListenerNeedsHals
<1>1. IInv => ListenerNeedsHals
  BY DEF IInv, SdkInv, ActiveInv
<1>. QED
  BY <1>1, Invariant, PTL

(* A response that was accepted reaches every callback registered when it  *)
(* came that stays registered, although on_agent_event iterates over a     *)
(* copy and callbacks come and go meanwhile.                               *)
THEOREM EveryCallbackReached == Spec => []CallbacksReached
<1>1. IInv => CallbacksReached
  <2>1. SUFFICES ASSUME IInv, NEW r \in Response, event[r].pc = "done" PROVE event[r].owed = {}
    BY DEF CallbacksReached
  <2>2. OwedInList(event[r])
    BY <2>1 DEF IInv, ListenerInv
  <2>. QED
    BY <2>1, <2>2 DEF OwedInList
<1>. QED
  BY <1>1, Invariant, PTL

(* The thread stop() joins never begins to read an IMU that is shut down,  *)
(* although join gives up after a second: the half of StopHolds that is    *)
(* about steps.                                                            *)
THEOREM JoinedThreadReadsNoDeadImu == Spec => NoReadAfterShutdown
<1>1. IInv /\ [Next]_vars =>
        [\A l \in Loop : (l = handle /\ loop[l] = "read" /\ loop'[l] = "reading")
           => <<"imu", 1>> \in up]_vars
  BY DEF IInv, SdkInv, StateTypeOK, ReadInv, Loop
<1>. QED
  BY <1>1, Invariant, PTL DEF Spec, NoReadAfterShutdown
============================================================================
