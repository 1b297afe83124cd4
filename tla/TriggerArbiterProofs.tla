------------------------ MODULE TriggerArbiterProofs ------------------------
(***************************************************************************)
(* TriggerArbiter implements TriggerDedup, for all events, confidences,    *)
(* windows and bounds: whatever threads push and whenever timers fire, the *)
(* cooldown between emissions holds and no event is emitted twice.         *)
(***************************************************************************)
EXTENDS TriggerArbiter, WellFoundedInduction, TLAPS

Timer == [deadline : Nat, pc : {"armed", "cancelled", "firing", "done"}]

\* When the last emission was due: the refinement mapping's lastDue.
LastDue == IF emissions = <<>> THEN 0 ELSE emissions[Len(emissions)].due

Typed ==
  /\ policy \in Policy /\ now \in Nat /\ lastEmit \in Nat
  /\ pending \in Seq(Event)
  /\ timers \in Seq(Timer)
  /\ emissions \in Seq([event : Event, due : Nat, at : Nat])

\* What is pending or was emitted was pushed, and nothing emitted is pending.
Fresh == /\ Emitted \subseteq pushed
         /\ \A i \in DOMAIN pending : pending[i] \in pushed \ Emitted

Live(i)  == timers[i].pc \in {"armed", "firing"}
Spent(i) == timers[i].pc \in {"firing", "done"}

\* Each timer that was not cancelled is due a window after the ones before it:
\* those had fired, or would have been cancelled, when it was started.  So of
\* two timers that wait for the lock the earlier one would be late.
TimersApart ==
  \A i, j \in DOMAIN timers :
    (i < j /\ timers[i].pc # "cancelled" /\ timers[j].pc # "cancelled")
      => timers[i].deadline + Window <= timers[j].deadline

TimerTimes ==
  \A i \in DOMAIN timers :
    /\ timers[i].pc = "armed" => i = Len(timers)
    /\ Spent(i) => timers[i].deadline <= now
    /\ Live(i) => /\ now < timers[i].deadline + Window
                  /\ LastDue + Window <= timers[i].deadline

DueInTime == LastDue <= lastEmit /\ lastEmit <= now

OnlyHeld == policy # "HIGHEST_CONFIDENCE" => pending = <<>> /\ timers = <<>>

ArbiterInv == Typed /\ Fresh /\ TimersApart /\ TimerTimes /\ DueInTime /\ OnlyHeld

-----------------------------------------------------------------------------
\* The elements of a sequence, and the sequence with one more.
LEMMA Elements ==
  ASSUME NEW S, NEW s \in Seq(S)
  PROVE  Len(s) \in Nat /\ DOMAIN s = 1 .. Len(s) /\ \A i \in DOMAIN s : s[i] \in S
OBVIOUS

LEMMA Appended ==
  ASSUME NEW S, NEW s \in Seq(S), NEW x \in S
  PROVE  /\ Append(s, x) \in Seq(S) /\ Len(Append(s, x)) = Len(s) + 1
         /\ DOMAIN Append(s, x) = 1 .. Len(s) + 1 /\ Append(s, x)[Len(s) + 1] = x
         /\ \A i \in 1 .. Len(s) : Append(s, x)[i] = s[i]
OBVIOUS

LEMMA Updated ==
  ASSUME NEW S, NEW s \in Seq(S), NEW k \in DOMAIN s, NEW x \in S
  PROVE  LET t == [s EXCEPT ![k] = x] IN
         /\ t \in Seq(S) /\ DOMAIN t = DOMAIN s /\ Len(t) = Len(s)
         /\ t[k] = x /\ \A i \in DOMAIN s : i # k => t[i] = s[i]
OBVIOUS

LEMMA TimersTyped ==
  ASSUME Typed
  PROVE  /\ timers \in Seq(Timer) /\ Len(timers) \in Nat /\ DOMAIN timers = 1 .. Len(timers)
         /\ \A i \in DOMAIN timers : timers[i] \in Timer /\ timers[i].deadline \in Nat
<1>1. timers \in Seq(Timer)
  BY DEF Typed
<1>2. Len(timers) \in Nat /\ DOMAIN timers = 1 .. Len(timers) /\ \A i \in DOMAIN timers : timers[i] \in Timer
  BY <1>1, Elements
<1>. QED
  BY <1>1, <1>2 DEF Timer

LEMMA DueTyped ==
  ASSUME Typed
  PROVE  LastDue \in Nat
<1>. DEFINE E == [event : Event, due : Nat, at : Nat]
<1>1. emissions \in Seq(E)
  BY DEF Typed
<1>2. CASE emissions # <<>>
  <2>1. Len(emissions) \in DOMAIN emissions
    <3>. HIDE DEF E
    <3>1. Len(emissions) \in Nat /\ DOMAIN emissions = 1 .. Len(emissions)
      BY <1>1, Elements
    <3>2. Len(emissions) # 0
      BY <1>1, <1>2
    <3>. QED
      BY <3>1, <3>2
  <2>2. emissions[Len(emissions)] \in E
    <3>. HIDE DEF E
    <3>. QED
      BY <1>1, <2>1, Elements
  <2>. QED
    BY <1>2, <2>2 DEF LastDue
<1>3. CASE emissions = <<>>
  BY <1>3 DEF LastDue
<1>. QED
  BY <1>2, <1>3

\* A set of natural numbers has a least one.
Below == {p \in Nat \X Nat : p[1] < p[2]}

LEMMA BelowWellFounded == IsWellFoundedOn(Below, Nat)
<1>1. Below = OpToRel(<, Nat)
  BY Zenon DEF Below, OpToRel
<1>. QED
  BY <1>1, NatLessThanWellFounded, Zenon

LEMMA Least ==
  ASSUME NEW T \in SUBSET Nat, T # {}
  PROVE  \E x \in T : \A y \in T : x <= y
<1>1. PICK x \in T : \A y \in T : ~(<<y, x>> \in Below)
  BY BelowWellFounded, WFMin
<1>2. ASSUME NEW y \in T
      PROVE  x <= y
  <2>1. x \in Nat /\ y \in Nat
    OBVIOUS
  <2>2. ~(y < x)
    <3>1. ~(<<y, x>> \in Below)
      BY <1>1, <1>2
    <3>. QED
      BY <2>1, <3>1 DEF Below
  <2>. QED
    BY <2>1, <2>2
<1>. QED
  BY <1>2

\* A list of confidences has a greatest one.
LEMMA Greatest ==
  ASSUME NEW n \in Nat, n >= 1, NEW f, \A i \in 1 .. n : f[i] \in 0 .. 100
  PROVE  \E i \in 1 .. n : \A j \in 1 .. n : f[j] <= f[i]
<1>. DEFINE short == {100 - f[i] : i \in 1 .. n}
<1>1. short \in SUBSET Nat
  OBVIOUS
<1>2. \A i \in 1 .. n : 100 - f[i] \in short
  OBVIOUS
<1>3. \A m \in short : \E i \in 1 .. n : m = 100 - f[i]
  OBVIOUS
<1>. HIDE DEF short
<1>4. PICK m \in short : \A k \in short : m <= k
  BY <1>1, <1>2, Least
<1>5. PICK i \in 1 .. n : m = 100 - f[i]
  BY <1>3, <1>4
<1>6. ASSUME NEW j \in 1 .. n
      PROVE  f[j] <= f[i]
  <2>1. 100 - f[i] <= 100 - f[j]
    BY <1>2, <1>4, <1>5, <1>6
  <2>2. f[i] \in Int /\ f[j] \in Int
    OBVIOUS
  <2>. QED
    BY <2>1, <2>2
<1>. QED
  BY <1>6

\* max() finds one of the pending events.
LEMMA BestIsPending ==
  ASSUME Typed, pending # <<>>
  PROVE  \E i \in DOMAIN pending : Best = pending[i]
<1>. DEFINE conf == [i \in DOMAIN pending |-> Confidence[pending[i]]]
            top == {i \in DOMAIN pending : \A j \in DOMAIN pending :
                      Confidence[pending[j]] <= Confidence[pending[i]]}
<1>1. DOMAIN pending = 1 .. Len(pending) /\ Len(pending) \in Nat /\ Len(pending) >= 1
  BY DEF Typed
<1>2. \A i \in 1 .. Len(pending) : conf[i] \in 0 .. 100
  BY <1>1, ArbiterAssumption DEF Typed
<1>3. PICK g \in 1 .. Len(pending) : \A j \in 1 .. Len(pending) : conf[j] <= conf[g]
  <2>. HIDE DEF conf
  <2>. QED
    BY <1>1, <1>2, Greatest
<1>4. g \in top
  BY <1>1, <1>3
<1>5. top \in SUBSET Nat
  BY <1>1
<1>6. \A m \in top : m \in DOMAIN pending
  OBVIOUS
<1>7. Best = pending[CHOOSE i \in top : \A j \in top : i <= j]
  BY DEF Best
<1>. HIDE DEF top
<1>8. PICK m : m \in top /\ \A k \in top : m <= k
  BY <1>4, <1>5, Least
<1>9. (CHOOSE i \in top : \A j \in top : i <= j) \in top
  BY <1>8
<1>. QED
  BY <1>6, <1>7, <1>9

\* What an emission does to the history.
LEMMA EmitEffect ==
  ASSUME Typed, NEW e \in Event, NEW due \in Nat, Emit(e, due)
  PROVE  /\ Emitted' = Emitted \cup {e} /\ LastDue' = due
         /\ lastEmit' = now /\ pending' = <<>>
         /\ emissions' \in Seq([event : Event, due : Nat, at : Nat])
<1>. DEFINE E == [event : Event, due : Nat, at : Nat]
            new == [event |-> e, due |-> due, at |-> now]
<1>1. emissions \in Seq(E) /\ new \in E /\ emissions' = Append(emissions, new)
      /\ lastEmit' = now /\ pending' = <<>>
  BY DEF Typed, Emit
<1>2. /\ emissions' \in Seq(E) /\ Len(emissions') = Len(emissions) + 1
      /\ emissions'[Len(emissions) + 1] = new /\ emissions' # <<>>
      /\ \A i \in DOMAIN emissions : emissions'[i] = emissions[i]
      /\ DOMAIN emissions' = DOMAIN emissions \cup {Len(emissions) + 1}
  BY <1>1
<1>3. LastDue' = due
  BY <1>2 DEF LastDue
<1>4. Emitted' = Emitted \cup {e}
  BY <1>2 DEF Emitted
<1>. QED
  BY <1>1, <1>2, <1>3, <1>4

LEMMA InitArbiter == Init => ArbiterInv
BY ArbiterAssumption
DEF Init, ArbiterInv, Typed, Fresh, TimersApart, TimerTimes, DueInTime, OnlyHeld, LastDue, Emitted, pushed

-----------------------------------------------------------------------------
(* One lemma per action: the invariant, and the step of TriggerDedup.      *)

\* Steps of TriggerDedup in the words of this module.
Emits(e) == /\ e \notin Emitted /\ Emitted' = Emitted \cup {e}
            /\ now >= LastDue + Window \/ (policy = "AUDIO_PRIORITY" /\ e \in Audio)
            /\ LastDue' \in LastDue .. now /\ UNCHANGED <<now, policy>>
Kept == UNCHANGED <<now, policy, LastDue, Emitted>>

\* push() under a policy that holds nothing back.
LEMMA PushEmits ==
  ASSUME ArbiterInv, NEW e \in Event, e \notin pushed, Emit(e, now),
         ~Cooling \/ (policy = "AUDIO_PRIORITY" /\ e \in Audio),
         policy # "HIGHEST_CONFIDENCE", pushed' = pushed \cup {e},
         UNCHANGED <<policy, now, timers>>
  PROVE  ArbiterInv' /\ Emits(e)
<1>. USE DEF ArbiterInv, OnlyHeld
<1>1. Typed /\ now \in Nat /\ timers = <<>>
  BY DEF Typed
<1>2. /\ Emitted' = Emitted \cup {e} /\ LastDue' = now /\ lastEmit' = now /\ pending' = <<>>
      /\ emissions' \in Seq([event : Event, due : Nat, at : Nat])
  BY <1>1, EmitEffect
<1>3. Typed'
  BY <1>2 DEF Typed
<1>4. Fresh'
  BY <1>2 DEF Fresh
<1>5. TimersApart' /\ TimerTimes' /\ DueInTime' /\ OnlyHeld'
  BY <1>1, <1>2 DEF TimersApart, TimerTimes, DueInTime
<1>6. LastDue \in Nat
  BY DueTyped
<1>7. Emits(e)
  <2>1. e \notin Emitted
    BY DEF Fresh
  <2>2. ~Cooling => now >= LastDue + Window
    BY <1>6, ArbiterAssumption DEF Cooling, DueInTime, Typed
  <2>3. LastDue' \in LastDue .. now
    BY <1>2, <1>6 DEF DueInTime, Typed
  <2>. QED
    BY <1>2, <2>1, <2>2, <2>3 DEF Emits
<1>. QED
  BY <1>3, <1>4, <1>5, <1>7

\* push() of an event that is held, and a timer that may be started for it.
LEMMA PushHolds ==
  ASSUME ArbiterInv, NEW e \in Event, e \notin pushed, pushed' = pushed \cup {e},
         pending' = pending \/ pending' = Append(pending, e),
         policy = "HIGHEST_CONFIDENCE",
         timers' = timers \/ ScheduleFlush,
         UNCHANGED <<policy, now, lastEmit, emissions>>
  PROVE  ArbiterInv' /\ Kept
<1>. USE DEF ArbiterInv
<1>1. Kept /\ DueInTime' /\ OnlyHeld' /\ LastDue' = LastDue /\ Emitted' = Emitted
  BY DEF Kept, DueInTime, OnlyHeld, LastDue, Emitted
<1>2. e \notin Emitted
  BY DEF Fresh
<1>3. Fresh' /\ pending' \in Seq(Event)
  <2>1. CASE pending' = pending
    BY <1>1, <2>1 DEF Fresh, Typed
  <2>2. CASE pending' = Append(pending, e)
    <3>1. pending \in Seq(Event)
      BY DEF Typed
    <3>2. /\ pending' \in Seq(Event)
          /\ \A i \in DOMAIN pending' : pending'[i] = e \/ (i \in DOMAIN pending /\ pending'[i] = pending[i])
      BY <2>2, <3>1
    <3>. QED
      BY <1>1, <1>2, <3>2 DEF Fresh
  <2>. QED
    BY <2>1, <2>2
<1>4. LastDue \in Nat /\ LastDue <= now /\ now \in Nat /\ Window \in Nat /\ Window >= 1
  <2>1. LastDue \in Nat
    BY DueTyped
  <2>. QED
    BY <2>1, ArbiterAssumption DEF Typed, DueInTime
<1>5. timers' \in Seq(Timer) /\ TimersApart' /\ TimerTimes'
  <2>1. CASE timers' = timers
    BY <1>1, <2>1 DEF TimersApart, TimerTimes, Typed, Live, Spent
  <2>2. CASE ScheduleFlush
    <3>. DEFINE n == Len(timers)
                cancelled == [i \in DOMAIN timers |->
                                IF i = Len(timers) /\ timers[i].pc = "armed"
                                THEN [timers[i] EXCEPT !.pc = "cancelled"] ELSE timers[i]]
                new == [deadline |-> now + Window, pc |-> "armed"]
    <3>1. timers \in Seq(Timer) /\ n \in Nat /\ DOMAIN timers = 1 .. n
      BY TimersTyped
    <3>2. \A i \in 1 .. n : timers[i] \in Timer /\ cancelled[i] \in Timer
      <4>1. \A i \in 1 .. n : timers[i] \in Timer
        BY <3>1, TimersTyped
      <4>. QED
        BY <3>1, <4>1 DEF Timer
    <3>3. cancelled \in Seq(Timer) /\ Len(cancelled) = n
      BY <3>1, <3>2
    <3>4. new \in Timer
      BY <1>4 DEF Timer
    <3>5. timers' = Append(cancelled, new)
      BY <2>2 DEF ScheduleFlush
    <3>6. /\ timers' \in Seq(Timer) /\ Len(timers') = n + 1 /\ DOMAIN timers' = 1 .. n + 1
          /\ timers'[n + 1] = new /\ \A i \in 1 .. n : timers'[i] = cancelled[i]
      <4>. HIDE DEF cancelled, new, n
      <4>. QED
        BY <3>1, <3>3, <3>4, <3>5, Appended
    <3>7. \A i \in 1 .. n : /\ timers'[i].deadline = timers[i].deadline
                            /\ timers'[i].pc # "armed"
                            /\ timers'[i].pc = timers[i].pc \/ timers'[i].pc = "cancelled"
      BY <3>1, <3>2, <3>6 DEF TimerTimes, Timer
    <3>8. timers'[n + 1].pc = "armed" /\ timers'[n + 1].deadline = now + Window
      BY <3>6
    <3>9. \A i \in 1 .. n : timers[i].deadline \in Nat
      BY <3>2 DEF Timer
    <3>10. TimersApart'
      <4>. SUFFICES ASSUME NEW i \in 1 .. n + 1, NEW j \in 1 .. n + 1, i < j,
                           timers'[i].pc # "cancelled", timers'[j].pc # "cancelled"
                    PROVE  timers'[i].deadline + Window <= timers'[j].deadline
        BY <3>6 DEF TimersApart
      <4>1. i \in 1 .. n
        BY <3>1
      <4>2. timers'[i].pc = timers[i].pc /\ timers[i].pc \in {"firing", "done"}
        BY <3>2, <3>7, <4>1 DEF Timer
      <4>3. CASE j = n + 1
        <5>1. timers[i].deadline <= now
          BY <3>1, <4>1, <4>2 DEF TimerTimes, Spent
        <5>. QED
          BY <1>4, <3>7, <3>8, <3>9, <4>1, <4>3, <5>1
      <4>4. CASE j \in 1 .. n
        <5>1. timers[j].pc # "cancelled" /\ timers[i].pc # "cancelled"
          BY <3>7, <4>2, <4>4
        <5>. QED
          BY <3>1, <3>7, <4>1, <4>4, <5>1 DEF TimersApart
      <4>. QED
        BY <3>1, <4>3, <4>4
    <3>11. TimerTimes'
      <4>. SUFFICES ASSUME NEW i \in 1 .. n + 1
                    PROVE  /\ timers'[i].pc = "armed" => i = n + 1
                           /\ timers'[i].pc \in {"firing", "done"} => timers'[i].deadline <= now
                           /\ timers'[i].pc \in {"armed", "firing"} =>
                                /\ now < timers'[i].deadline + Window
                                /\ LastDue + Window <= timers'[i].deadline
        BY <1>1, <3>6 DEF TimerTimes, Spent, Live
      <4>1. CASE i = n + 1
        BY <1>4, <3>8, <4>1
      <4>2. CASE i \in 1 .. n
        BY <3>1, <3>7, <4>2 DEF TimerTimes, Spent, Live
      <4>. QED
        BY <3>1, <4>1, <4>2
    <3>. QED
      BY <3>6, <3>10, <3>11
  <2>. QED
    BY <2>1, <2>2
<1>6. Typed'
  BY <1>3, <1>5 DEF Typed
<1>. QED
  BY <1>1, <1>3, <1>5, <1>6

LEMMA PushStep ==
  ASSUME ArbiterInv, NEW e \in Event, Push(e)
  PROVE  ArbiterInv' /\ (Emits(e) \/ Kept)
<1>1. e \notin pushed /\ pushed' = pushed \cup {e} /\ UNCHANGED <<policy, now>>
  BY DEF Push, pushed
<1>2. policy \in Policy /\ ~IsAudioLast
  BY DEF ArbiterInv, Typed, IsAudioLast
<1>3. CASE Emit(e, now)
  <2>1. /\ ~Cooling \/ (policy = "AUDIO_PRIORITY" /\ e \in Audio)
        /\ policy # "HIGHEST_CONFIDENCE" /\ timers' = timers
    BY <1>2, <1>3 DEF Push, PushCooling, PushOpen, Emit
  <2>. QED
    BY <1>1, <1>3, <2>1, PushEmits
<1>4. CASE ~Emit(e, now) /\ policy = "HIGHEST_CONFIDENCE"
  <2>1. /\ pending' = pending \/ pending' = Append(pending, e)
        /\ timers' = timers \/ ScheduleFlush
        /\ UNCHANGED <<lastEmit, emissions>>
    BY <1>4 DEF Push, PushCooling, PushOpen
  <2>. QED
    BY <1>1, <1>4, <2>1, PushHolds
<1>5. CASE ~Emit(e, now) /\ policy # "HIGHEST_CONFIDENCE"
  <2>1. UNCHANGED <<pending, timers, lastEmit, emissions>>
    BY <1>2, <1>5 DEF Push, PushCooling, PushOpen
  <2>. QED
    BY <1>1, <2>1 DEF ArbiterInv, Typed, Fresh, TimersApart, TimerTimes, DueInTime, OnlyHeld,
                      LastDue, Emitted, Live, Spent, Kept
<1>. QED
  BY <1>3, <1>4, <1>5

LEMMA FlushStep ==
  ASSUME ArbiterInv, NEW k \in DOMAIN timers, Flush(k)
  PROVE  ArbiterInv' /\ (Kept \/ \E e \in Event : Emits(e))
<1>. USE DEF ArbiterInv
<1>1. /\ timers[k].pc = "firing"
      /\ timers' = [timers EXCEPT ![k].pc = "done"] /\ UNCHANGED <<policy, now, opened>>
      /\ now \in Nat /\ Window \in Nat /\ Window >= 1 /\ Typed
  BY ArbiterAssumption DEF Flush, Typed
<1>2. /\ timers' \in Seq(Timer) /\ DOMAIN timers' = DOMAIN timers /\ Len(timers') = Len(timers)
      /\ DOMAIN timers \subseteq Nat
      /\ \A i \in DOMAIN timers : /\ timers'[i].deadline = timers[i].deadline
                                  /\ timers[i].deadline \in Nat
                                  /\ i # k => timers'[i].pc = timers[i].pc
      /\ timers'[k].pc = "done"
  <2>. DEFINE x == [timers[k] EXCEPT !.pc = "done"]
  <2>1. x \in Timer /\ x.pc = "done" /\ x.deadline = timers[k].deadline
    BY TimersTyped DEF Timer
  <2>2. timers' = [timers EXCEPT ![k] = x]
    BY <1>1
  <2>. HIDE DEF x
  <2>3. /\ timers' \in Seq(Timer) /\ DOMAIN timers' = DOMAIN timers /\ Len(timers') = Len(timers)
        /\ timers'[k] = x /\ \A i \in DOMAIN timers : i # k => timers'[i] = timers[i]
    BY <2>1, <2>2, TimersTyped, Updated
  <2>. QED
    BY <2>1, <2>3, TimersTyped
<1>3. timers[k].deadline <= now /\ LastDue + Window <= timers[k].deadline
      /\ policy = "HIGHEST_CONFIDENCE"
  BY <1>1 DEF TimerTimes, Live, Spent, OnlyHeld
<1>4. TimersApart' /\ OnlyHeld'
  <2>1. TimersApart'
    <3>. SUFFICES ASSUME NEW i \in DOMAIN timers, NEW j \in DOMAIN timers, i < j,
                         timers'[i].pc # "cancelled", timers'[j].pc # "cancelled"
                  PROVE  timers'[i].deadline + Window <= timers'[j].deadline
      BY <1>2 DEF TimersApart
    <3>1. timers[i].pc # "cancelled" /\ timers[j].pc # "cancelled"
      BY <1>1, <1>2
    <3>. QED
      BY <1>2, <3>1 DEF TimersApart
  <2>. QED
    BY <1>1, <1>3, <2>1 DEF OnlyHeld
<1>5. LastDue \in Nat
  BY DueTyped
<1>6. CASE pending = <<>>
  <2>1. UNCHANGED <<lastEmit, pending, emissions>>
    BY <1>6 DEF Flush
  <2>2. Kept /\ LastDue' = LastDue /\ DueInTime' /\ Fresh' /\ Typed'
    BY <1>1, <1>2, <2>1 DEF Kept, LastDue, Emitted, DueInTime, Fresh, Typed, pushed
  <2>3. TimerTimes'
    <3>. SUFFICES ASSUME NEW i \in DOMAIN timers
                  PROVE  /\ timers'[i].pc = "armed" => i = Len(timers)
                         /\ timers'[i].pc \in {"firing", "done"} => timers'[i].deadline <= now
                         /\ timers'[i].pc \in {"armed", "firing"} =>
                              /\ now < timers'[i].deadline + Window
                              /\ LastDue + Window <= timers'[i].deadline
      BY <1>1, <1>2, <2>2 DEF TimerTimes, Spent, Live
    <3>1. CASE i = k
      BY <1>2, <1>3, <3>1
    <3>2. CASE i # k
      BY <1>2, <3>2 DEF TimerTimes, Spent, Live
    <3>. QED
      BY <3>1, <3>2
  <2>. QED
    BY <1>4, <2>2, <2>3
<1>7. CASE pending # <<>>
  <2>1. PICK b \in DOMAIN pending : Best = pending[b]
    BY <1>1, <1>7, BestIsPending
  <2>2. Best \in Event /\ Best \in pushed \ Emitted
    BY <1>1, <2>1 DEF Typed, Fresh
  <2>3. Emit(Best, timers[k].deadline)
    BY <1>7 DEF Flush
  <2>4. /\ Emitted' = Emitted \cup {Best} /\ LastDue' = timers[k].deadline
        /\ lastEmit' = now /\ pending' = <<>>
        /\ emissions' \in Seq([event : Event, due : Nat, at : Nat])
    <3>. HIDE DEF ArbiterInv
    <3>. QED
      BY <1>1, <1>2, <2>2, <2>3, EmitEffect
  <2>5. Typed' /\ Fresh' /\ DueInTime'
    BY <1>1, <1>2, <1>3, <2>2, <2>4 DEF Typed, Fresh, DueInTime, pushed
  <2>6. TimerTimes'
    <3>. SUFFICES ASSUME NEW i \in DOMAIN timers
                  PROVE  /\ timers'[i].pc = "armed" => i = Len(timers)
                         /\ timers'[i].pc \in {"firing", "done"} => timers'[i].deadline <= now
                         /\ timers'[i].pc \in {"armed", "firing"} =>
                              /\ now < timers'[i].deadline + Window
                              /\ timers[k].deadline + Window <= timers'[i].deadline
      BY <1>1, <1>2, <2>4 DEF TimerTimes, Spent, Live
    <3>1. CASE i = k
      BY <1>2, <1>3, <3>1
    <3>2. CASE i # k
      <4>1. /\ timers[i].pc = "armed" => i = Len(timers)
            /\ timers[i].pc \in {"firing", "done"} => timers[i].deadline <= now
            /\ timers[i].pc \in {"armed", "firing"} => now < timers[i].deadline + Window
        BY DEF TimerTimes, Spent, Live
      <4>2. CASE timers[i].pc \in {"armed", "firing"} /\ i < k
        <5>1. timers[i].deadline + Window <= timers[k].deadline
          BY <1>1, <4>2 DEF TimersApart
        <5>. QED
          BY <1>1, <1>2, <1>3, <4>1, <4>2, <5>1
      <4>3. CASE timers[i].pc \in {"armed", "firing"} /\ k < i
        <5>1. timers[k].deadline + Window <= timers[i].deadline
          BY <1>1, <4>3 DEF TimersApart
        <5>. QED
          BY <1>2, <3>2, <4>1, <5>1
      <4>. QED
        BY <1>2, <3>2, <4>1, <4>2, <4>3
    <3>. QED
      BY <3>1, <3>2
  <2>7. Emits(Best)
    BY <1>1, <1>2, <1>3, <1>5, <2>2, <2>4 DEF Emits
  <2>. QED
    BY <1>4, <2>2, <2>5, <2>6, <2>7
<1>. QED
  BY <1>6, <1>7

LEMMA TimerFiresStep ==
  ASSUME ArbiterInv, NEW k \in DOMAIN timers, TimerFires(k)
  PROVE  ArbiterInv' /\ Kept
<1>. USE DEF ArbiterInv
<1>1. /\ timers \in Seq(Timer) /\ timers[k].pc = "armed" /\ now >= timers[k].deadline
      /\ timers' = [timers EXCEPT ![k].pc = "firing"]
      /\ UNCHANGED <<policy, now, lastEmit, pending, emissions, opened>>
  BY DEF TimerFires, Typed
<1>2. /\ timers' \in Seq(Timer) /\ DOMAIN timers' = DOMAIN timers /\ Len(timers') = Len(timers)
      /\ \A i \in DOMAIN timers : /\ timers'[i].deadline = timers[i].deadline
                                  /\ i # k => timers'[i].pc = timers[i].pc
      /\ timers'[k].pc = "firing"
  <2>. DEFINE x == [timers[k] EXCEPT !.pc = "firing"]
  <2>1. x \in Timer /\ x.pc = "firing" /\ x.deadline = timers[k].deadline
    BY TimersTyped DEF Timer
  <2>2. timers' = [timers EXCEPT ![k] = x]
    BY <1>1
  <2>. HIDE DEF x
  <2>3. /\ timers' \in Seq(Timer) /\ DOMAIN timers' = DOMAIN timers /\ Len(timers') = Len(timers)
        /\ timers'[k] = x /\ \A i \in DOMAIN timers : i # k => timers'[i] = timers[i]
    BY <2>1, <2>2, TimersTyped, Updated
  <2>. QED
    BY <2>1, <2>3
<1>3. LastDue' = LastDue /\ Kept /\ Typed' /\ Fresh' /\ DueInTime'
  BY <1>1, <1>2 DEF Kept, LastDue, Emitted, DueInTime, Fresh, Typed, pushed
<1>4. OnlyHeld'
  BY <1>1 DEF OnlyHeld
<1>5. TimersApart'
  <2>. SUFFICES ASSUME NEW i \in DOMAIN timers, NEW j \in DOMAIN timers, i < j,
                       timers'[i].pc # "cancelled", timers'[j].pc # "cancelled"
                PROVE  timers'[i].deadline + Window <= timers'[j].deadline
    BY <1>2 DEF TimersApart
  <2>1. timers[i].pc # "cancelled" /\ timers[j].pc # "cancelled"
    BY <1>1, <1>2
  <2>. QED
    BY <1>2, <2>1 DEF TimersApart
<1>6. TimerTimes'
  <2>. SUFFICES ASSUME NEW i \in DOMAIN timers
                PROVE  /\ timers'[i].pc = "armed" => i = Len(timers)
                       /\ timers'[i].pc \in {"firing", "done"} => timers'[i].deadline <= now
                       /\ timers'[i].pc \in {"armed", "firing"} =>
                            /\ now < timers'[i].deadline + Window
                            /\ LastDue + Window <= timers'[i].deadline
    BY <1>1, <1>2, <1>3 DEF TimerTimes, Spent, Live
  <2>1. CASE i = k
    BY <1>1, <1>2, <2>1 DEF TimerTimes, Spent, Live, Typed, Timer
  <2>2. CASE i # k
    BY <1>2, <2>2 DEF TimerTimes, Spent, Live
  <2>. QED
    BY <2>1, <2>2
<1>. QED
  BY <1>3, <1>4, <1>5, <1>6

LEMMA TickStep ==
  ASSUME ArbiterInv, Tick
  PROVE  ArbiterInv' /\ now' = now + 1 /\ UNCHANGED <<policy, LastDue, Emitted>>
<1>. USE DEF ArbiterInv
<1>1. now' = now + 1 /\ Prompt /\ UNCHANGED <<policy, lastEmit, pending, timers, emissions, opened>>
  BY DEF Tick
<1>2. LastDue' = LastDue /\ Emitted' = Emitted /\ pushed' = pushed
  BY <1>1 DEF LastDue, Emitted, pushed
<1>3. Typed' /\ Fresh' /\ TimersApart' /\ OnlyHeld'
  BY <1>1, <1>2 DEF Typed, Fresh, TimersApart, OnlyHeld
<1>4. DueInTime'
  BY <1>1, <1>2 DEF DueInTime, Typed
<1>5. TimerTimes'
  <2>1. \A i \in DOMAIN timers : timers[i].deadline \in Nat
    BY TimersTyped
  <2>. QED
    BY <1>1, <1>2, <2>1 DEF TimerTimes, Spent, Live, Prompt, Typed
<1>. QED
  BY <1>1, <1>2, <1>3, <1>4, <1>5

LEMMA CallbackStep ==
  ASSUME ArbiterInv, NEW e \in Event, Callback(e) \/ UNCHANGED vars
  PROVE  ArbiterInv' /\ Kept
BY DEF Callback, vars, ArbiterInv, Typed, Fresh, TimersApart, TimerTimes, DueInTime, OnlyHeld,
       LastDue, Emitted, Live, Spent, Kept, pushed

-----------------------------------------------------------------------------
(* The class docstring's promise, "a dedup_window_ms cooldown suppresses   *)
(* additional events", for every way pushes and timers interleave.         *)
THEOREM ArbiterDeduplicates == Spec => Deduplicates
<1>1. Init => Dedup!Init
  BY ArbiterAssumption DEF Init, Dedup!Init, Emitted
<1>2. ArbiterInv /\ [Next]_vars => ArbiterInv' /\ [Dedup!Next]_(Dedup!vars)
  <2>. SUFFICES ASSUME ArbiterInv, [Next]_vars
                PROVE  ArbiterInv' /\ [Dedup!Next]_(Dedup!vars)
    OBVIOUS
  <2>1. ASSUME NEW e \in Event, Emits(e)
        PROVE  Dedup!Emission(e)
    BY <2>1 DEF Emits, Dedup!Emission, LastDue
  <2>2. Kept => UNCHANGED Dedup!vars
    BY DEF Kept, Dedup!vars, LastDue
  <2>3. CASE Tick
    <3>1. ArbiterInv' /\ now' = now + 1 /\ UNCHANGED <<policy, LastDue, Emitted>>
      BY <2>3, TickStep
    <3>2. Dedup!Tick
      BY <3>1 DEF Dedup!Tick, LastDue
    <3>. QED
      BY <3>1, <3>2 DEF Dedup!Next
  <2>4. ASSUME NEW e \in Event, Push(e)
        PROVE  ArbiterInv' /\ [Dedup!Next]_(Dedup!vars)
    BY <2>1, <2>2, <2>4, PushStep DEF Dedup!Next
  <2>5. ASSUME NEW e \in Event, Callback(e)
        PROVE  ArbiterInv' /\ [Dedup!Next]_(Dedup!vars)
    BY <2>2, <2>5, CallbackStep
  <2>6. ASSUME NEW i \in DOMAIN timers, TimerThread(i)
        PROVE  ArbiterInv' /\ [Dedup!Next]_(Dedup!vars)
    BY <2>1, <2>2, <2>6, TimerFiresStep, FlushStep DEF TimerThread, Dedup!Next
  <2>7. CASE UNCHANGED vars
    BY <2>7 DEF vars, ArbiterInv, Typed, Fresh, TimersApart, TimerTimes, DueInTime, OnlyHeld,
                LastDue, Emitted, Live, Spent, pushed, Dedup!vars
  <2>. QED
    BY <2>3, <2>4, <2>5, <2>6, <2>7 DEF Next
<1>. QED
  BY <1>1, <1>2, InitArbiter, PTL DEF Spec, Deduplicates, Dedup!Spec
=============================================================================
