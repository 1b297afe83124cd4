---------------------------- MODULE LinksProofs ----------------------------
(***************************************************************************)
(* What lies on the way from a device to the agent and back, for any       *)
(* number of threads, calls, handles and messages: the statistics of the   *)
(* unified transport, the files and children of the speech-to-text bridge, *)
(* the model of the MLX transport, the framing of packets over TCP, the    *)
(* fragments of packets over BLE, and the routes to devices.               *)
(***************************************************************************)
EXTENDS UnifiedTransport, MultiDevice, WiFiClient, SttBridge, LocalMlx, Fragmenter,
        FiniteSetTheorems, SequenceTheorems, WellFoundedInduction, TLAPS

----------------------------------------------------------------------------
(* UnifiedTransport: the statistics, which nothing locks, and that a       *)
(* result which says success is of a payload that got through.             *)

Outcome == [success : BOOLEAN, link : Links]
PCs == {"idle", "primary", "attach", "spawn", "count", "write", "append", "check", "pop"}

\* A pop has something to pop: each thread that is trimming has appended a
\* result that no other thread's pop takes account of.
RoomToPop == Cardinality(Trimming) <= Len(window)

\* A thread that has read a failure count has had its failure recorded.
CountBehind ==
    \A t \in Threads : send[t] = "write" => count[t] + 1 <= failed[timed[t].link]

StatsInv == LinkTypeOK /\ StatsKept /\ RoomToPop /\ CountBehind

\* A thread that begins or ends to trim is one more or one less.
LEMMA TrimmingCount ==
    ASSUME NEW t \in Threads, NEW pc \in PCs, send \in [Threads -> PCs],
           send' = [send EXCEPT ![t] = pc]
    PROVE  /\ Cardinality(Trimming) \in Nat /\ Cardinality(Trimming') \in Nat
           /\ t \in Trimming => Cardinality(Trimming) >= 1
           /\ (t \in Trimming <=> pc \in {"check", "pop"})
                  => Cardinality(Trimming') = Cardinality(Trimming)
           /\ (t \notin Trimming /\ pc \in {"check", "pop"})
                  => Cardinality(Trimming') = Cardinality(Trimming) + 1
           /\ (t \in Trimming /\ pc \notin {"check", "pop"})
                  => Cardinality(Trimming') = Cardinality(Trimming) - 1
<1>1. IsFiniteSet(Trimming)
  BY WindowAssumption, FS_Subset DEF Trimming
<1>2. Cardinality(Trimming) \in Nat
  BY <1>1, FS_CardinalityType
<1>3. CASE t \in Trimming <=> pc \in {"check", "pop"}
  <2>1. Trimming' = Trimming
    BY <1>3 DEF Trimming
  <2>2. t \in Trimming => Cardinality(Trimming) >= 1
    BY <1>1, <1>2, FS_EmptySet
  <2>. QED
    BY <1>2, <1>3, <2>1, <2>2
<1>4. CASE t \notin Trimming /\ pc \in {"check", "pop"}
  <2>1. Trimming' = Trimming \cup {t}
    BY <1>4 DEF Trimming
  <2>2. Cardinality(Trimming \cup {t}) = Cardinality(Trimming) + 1
    BY <1>1, <1>4, FS_AddElement
  <2>. QED
    BY <1>2, <1>4, <2>1, <2>2
<1>5. CASE t \in Trimming /\ pc \notin {"check", "pop"}
  <2>1. Trimming' = Trimming \ {t}
    BY <1>5 DEF Trimming
  <2>2. Cardinality(Trimming \ {t}) = Cardinality(Trimming) - 1
    BY <1>1, <1>5, FS_RemoveElement
  <2>3. IsFiniteSet(Trimming \ {t})
    BY <1>1, FS_RemoveElement
  <2>4. Cardinality(Trimming \ {t}) \in Nat
    BY <2>3, FS_CardinalityType
  <2>. QED
    BY <1>2, <1>5, <2>1, <2>2, <2>4
<1>. QED
  BY <1>3, <1>4, <1>5

LEMMA StatsInvInit == LinkInit => StatsInv
<1>. SUFFICES ASSUME LinkInit PROVE StatsInv
  OBVIOUS
<1>1. LinkTypeOK
  BY DEF LinkInit, LinkTypeOK, None, Links
<1>2. Trimming = {}
  BY DEF LinkInit, Trimming
<1>3. Cardinality(Trimming) = 0 /\ Len(window) = 0
  BY <1>2, FS_EmptySet DEF LinkInit
<1>. QED
  BY <1>1, <1>3, WindowAssumption
  DEF StatsInv, StatsKept, WindowBounded, StatsHonest, RoomToPop, CountBehind, LinkInit, Links

\* A step of one thread that leaves the statistics alone, and its result's link.
LEMMA StatsInvKept ==
    ASSUME StatsInv, NEW t \in Threads, NEW pc, UNCHANGED Stats, LinkTypeOK',
           send' = [send EXCEPT ![t] = pc],
           pc \notin {"write", "check", "pop"}, send[t] \notin {"check", "pop"},
           \A u \in Threads \ {t} : timed'[u] = timed[u]
    PROVE  StatsInv'
<1>1. Trimming' = Trimming
  BY DEF Trimming, StatsInv, LinkTypeOK
<1>2. \A u \in Threads : send'[u] = "write" => u # t /\ send[u] = "write"
  BY DEF StatsInv, LinkTypeOK
<1>. QED
  BY <1>1, <1>2 DEF StatsInv, StatsKept, WindowBounded, StatsHonest, RoomToPop, CountBehind, Stats

\* The types of what each step assigns.
LEMMA LinkTypeStep ==
    ASSUME LinkTypeOK, NEW t \in Threads, Step(t),
           send[t] = "pop" => window # << >>
    PROVE  LinkTypeOK'
<1>. USE DEF LinkTypeOK
<1>1. CASE Call(t)
  BY <1>1 DEF Call, Goto, Stats
<1>2. CASE Attach(t)
  BY <1>2 DEF Attach, Goto, Stats
<1>3. CASE AttachFails(t)
  BY <1>3 DEF AttachFails, Goto, Stats, Result, Links
<1>4. ASSUME NEW ok \in BOOLEAN, NEW came \in BOOLEAN, NEW slow \in BOOLEAN, Primary(t, ok, came, slow)
      PROVE  LinkTypeOK'
  BY <1>4 DEF Primary, Goto, Stats, Result, Links
<1>5. ASSUME NEW ok \in BOOLEAN, NEW came \in BOOLEAN, Spawn(t, ok, came)
      PROVE  LinkTypeOK'
  BY <1>5 DEF Spawn, Goto, Stats, Result, Links
<1>6. CASE ReadCount(t)
  BY <1>6 DEF ReadCount, Goto, NotStats
<1>7. CASE WriteCount(t)
  BY <1>7 DEF WriteCount, Goto, NotStats
<1>8. CASE Append_(t)
  <2>1. timed[t] \in Outcome /\ window \in Seq(Outcome)
    BY DEF Outcome
  <2>2. Append(window, timed[t]) \in Seq(Outcome)
    BY <2>1
  <2>3. window' \in Seq([success : BOOLEAN, link : Links])
    BY <1>8, <2>2 DEF Append_, Outcome
  <2>. QED
    BY <1>8, <2>3 DEF Append_, Goto, NotStats
<1>9. CASE Check(t)
  BY <1>9 DEF Check, Goto, NotStats, Stats
<1>10. CASE Pop(t)
  <2>1. window \in Seq(Outcome) /\ window # << >>
    BY <1>10 DEF Pop, Goto, Outcome
  <2>2. Tail(window) \in Seq(Outcome)
    BY <2>1
  <2>3. window' \in Seq([success : BOOLEAN, link : Links])
    BY <1>10, <2>2 DEF Pop, Outcome
  <2>. QED
    BY <1>10, <2>3 DEF Pop, Goto, NotStats
<1>. QED
  BY <1>1, <1>2, <1>3, <1>4, <1>5, <1>6, <1>7, <1>8, <1>9, <1>10 DEF Step

\* Who is about to pop has a result of its own in the window.
LEMMA SomethingToPop ==
    ASSUME StatsInv, NEW t \in Threads, send[t] = "pop"
    PROVE  Len(window) >= 1 /\ window # << >>
<1>1. t \in Trimming /\ IsFiniteSet(Trimming)
  BY WindowAssumption, FS_Subset DEF Trimming
<1>2. Cardinality(Trimming) \in Nat /\ Cardinality(Trimming) # 0
  BY <1>1, FS_CardinalityType, FS_EmptySet
<1>3. window \in Seq(Outcome) /\ Cardinality(Trimming) <= Len(window)
  BY DEF StatsInv, LinkTypeOK, RoomToPop, Outcome
<1>4. Len(window) \in Nat
  BY <1>3
<1>5. Len(window) >= 1
  BY <1>2, <1>3, <1>4
<1>. QED
  BY <1>5

LEMMA StatsInvStep ==
    ASSUME StatsInv, NEW t \in Threads, Step(t)
    PROVE  StatsInv'
<1>0. LinkTypeOK /\ LinkTypeOK'
  BY LinkTypeStep, SomethingToPop DEF StatsInv
<1>1. CASE Call(t)
  BY <1>0, <1>1, StatsInvKept DEF Call, Goto
<1>2. CASE Attach(t)
  BY <1>0, <1>2, StatsInvKept DEF Attach, Goto
<1>3. CASE AttachFails(t)
  BY <1>0, <1>3, StatsInvKept DEF AttachFails, Goto, Result, LinkTypeOK
<1>4. ASSUME NEW ok \in BOOLEAN, NEW came \in BOOLEAN, NEW slow \in BOOLEAN, Primary(t, ok, came, slow)
      PROVE  StatsInv'
  <2>. DEFINE pc == IF (ok /\ slow /\ config.threshold) \/ (~ok /\ config.onError)
                    THEN "attach" ELSE "count"
  <2>1. send' = [send EXCEPT ![t] = pc] /\ send[t] = "primary" /\ UNCHANGED Stats
    BY <1>4 DEF Primary, Goto
  <2>2. \A u \in Threads \ {t} : timed'[u] = timed[u]
    BY <1>0, <1>4 DEF Primary, Result, LinkTypeOK
  <2>3. pc \notin {"write", "check", "pop"}
    OBVIOUS
  <2>. HIDE DEF pc
  <2>. QED
    BY <1>0, <2>1, <2>2, <2>3, StatsInvKept
<1>5. ASSUME NEW ok \in BOOLEAN, NEW came \in BOOLEAN, Spawn(t, ok, came)
      PROVE  StatsInv'
  BY <1>0, <1>5, StatsInvKept DEF Spawn, Goto, Result, LinkTypeOK
<1>6. CASE ReadCount(t)
  <2>1. Trimming' = Trimming /\ window' = window /\ failures' = failures
    BY <1>0, <1>6 DEF ReadCount, Goto, Trimming, LinkTypeOK
  <2>2. \A k \in Links : failed[k] \in Nat /\ failed'[k] \in Nat /\ failed[k] <= failed'[k]
    BY <1>0, <1>6 DEF ReadCount, LinkTypeOK
  <2>3. StatsHonest'
    BY <1>0, <2>1, <2>2 DEF StatsInv, StatsKept, StatsHonest, LinkTypeOK
  <2>4. CountBehind'
    <3>1. timed' = timed /\ \A u \in Threads : timed[u].link \in Links
      BY <1>0, <1>6 DEF ReadCount, NotStats, LinkTypeOK
    <3>2. count'[t] = failures[timed[t].link] /\ failed'[timed[t].link] = failed[timed[t].link] + 1
      BY <1>0, <1>6, <3>1 DEF ReadCount, LinkTypeOK
    <3>3. count'[t] + 1 <= failed'[timed[t].link]
      BY <1>0, <3>1, <3>2 DEF StatsInv, StatsKept, StatsHonest, LinkTypeOK
    <3>4. ASSUME NEW u \in Threads \ {t}, send'[u] = "write"
          PROVE  count'[u] + 1 <= failed'[timed[u].link]
      <4>1. send[u] = "write" /\ count'[u] = count[u] /\ count[u] \in Nat
        BY <1>0, <1>6, <3>4 DEF ReadCount, Goto, LinkTypeOK
      <4>2. count[u] + 1 <= failed[timed[u].link]
        BY <4>1 DEF StatsInv, CountBehind
      <4>. QED
        BY <2>2, <3>1, <4>1, <4>2
    <3>. QED
      BY <3>1, <3>3, <3>4 DEF CountBehind
  <2>. QED
    BY <1>0, <2>1, <2>3, <2>4 DEF StatsInv, StatsKept, WindowBounded, RoomToPop
<1>7. CASE WriteCount(t)
  <2>1. Trimming' = Trimming /\ window' = window /\ failed' = failed /\ count' = count /\ timed' = timed
    BY <1>0, <1>7 DEF WriteCount, Goto, Trimming, LinkTypeOK, NotStats
  <2>2. timed[t].link \in Links /\ count[t] + 1 <= failed[timed[t].link]
    BY <1>0, <1>7 DEF WriteCount, Goto, LinkTypeOK, StatsInv, CountBehind
  <2>3. StatsHonest'
    BY <1>0, <1>7, <2>1, <2>2 DEF WriteCount, StatsInv, StatsKept, StatsHonest, LinkTypeOK
  <2>4. CountBehind'
    BY <1>0, <1>7, <2>1 DEF WriteCount, Goto, StatsInv, CountBehind, LinkTypeOK
  <2>. QED
    BY <1>0, <2>1, <2>3, <2>4 DEF StatsInv, StatsKept, WindowBounded, RoomToPop
<1>8. CASE Append_(t)
  <2>1. /\ send' = [send EXCEPT ![t] = "check"] /\ send[t] \in {"append", "count"}
        /\ UNCHANGED <<failures, count, failed, timed>> /\ Len(window') = Len(window) + 1
        /\ Len(window) \in Nat
    BY <1>0, <1>8 DEF Append_, Goto, NotStats, LinkTypeOK
  <2>2. Cardinality(Trimming) \in Nat /\ Cardinality(Trimming') = Cardinality(Trimming) + 1
    <3>1. t \notin Trimming
      BY <2>1 DEF Trimming
    <3>2. send \in [Threads -> PCs]
      BY <1>0 DEF LinkTypeOK, PCs
    <3>3. "check" \in PCs
      BY DEF PCs
    <3>. QED
      BY <2>1, <3>1, <3>2, <3>3, TrimmingCount
  <2>3. CountBehind'
    BY <1>0, <2>1 DEF StatsInv, CountBehind, LinkTypeOK
  <2>. QED
    BY <1>0, <2>1, <2>2, <2>3, WindowAssumption
    DEF StatsInv, StatsKept, WindowBounded, StatsHonest, RoomToPop
<1>9. CASE Check(t)
  <2>. DEFINE pc == IF Len(window) > WindowSize THEN "pop" ELSE "idle"
  <2>1. /\ send' = [send EXCEPT ![t] = pc] /\ send[t] = "check" /\ t \in Trimming
        /\ UNCHANGED <<window, failures, count, failed, timed>> /\ Len(window) \in Nat
        /\ pc \in PCs /\ send \in [Threads -> PCs]
    BY <1>0, <1>9 DEF Check, Goto, NotStats, Stats, LinkTypeOK, Trimming, PCs
  <2>2. CountBehind'
    BY <1>0, <2>1 DEF StatsInv, CountBehind, LinkTypeOK
  <2>3. CASE Len(window) > WindowSize
    <3>1. Cardinality(Trimming') = Cardinality(Trimming)
      BY <2>1, <2>3, TrimmingCount
    <3>. QED
      BY <1>0, <2>1, <2>2, <3>1
      DEF StatsInv, StatsKept, WindowBounded, StatsHonest, RoomToPop
  <2>4. CASE ~(Len(window) > WindowSize)
    <3>1. Cardinality(Trimming') = Cardinality(Trimming) - 1 /\ Cardinality(Trimming') \in Nat
          /\ Cardinality(Trimming) \in Nat
      BY <2>1, <2>4, TrimmingCount
    <3>. QED
      BY <1>0, <2>1, <2>2, <2>4, <3>1, WindowAssumption
      DEF StatsInv, StatsKept, WindowBounded, StatsHonest, RoomToPop
  <2>. QED
    BY <2>3, <2>4
<1>10. CASE Pop(t)
  <2>1. /\ send' = [send EXCEPT ![t] = "idle"] /\ send[t] = "pop" /\ t \in Trimming
        /\ UNCHANGED <<failures, count, failed, timed>> /\ send \in [Threads -> PCs]
        /\ Len(window) \in Nat
    BY <1>0, <1>10 DEF Pop, Goto, NotStats, LinkTypeOK, Trimming, PCs
  <2>2. /\ Cardinality(Trimming) \in Nat /\ Cardinality(Trimming) >= 1
        /\ Cardinality(Trimming') = Cardinality(Trimming) - 1
    <3>1. "idle" \in PCs /\ "idle" \notin {"check", "pop"}
      BY DEF PCs
    <3>. QED
      BY <2>1, <3>1, TrimmingCount
  <2>3. Len(window') = Len(window) - 1
    <3>1. Len(window) >= 1 /\ window \in Seq(Outcome)
      BY <1>0, <2>1, SomethingToPop DEF LinkTypeOK, Outcome
    <3>. QED
      BY <1>10, <3>1 DEF Pop
  <2>4. CountBehind'
    BY <1>0, <2>1 DEF StatsInv, CountBehind, LinkTypeOK
  <2>. QED
    BY <1>0, <2>1, <2>2, <2>3, <2>4, WindowAssumption
    DEF StatsInv, StatsKept, WindowBounded, StatsHonest, RoomToPop
<1>. QED
  BY <1>1, <1>2, <1>3, <1>4, <1>5, <1>6, <1>7, <1>8, <1>9, <1>10 DEF Step

-----------------------------------------------------------------------------
(* The window and the failure counts stay true however the threads of      *)
(* unified.py's _record interleave, and no pop meets an empty window.      *)
THEOREM StatisticsKept == LinkSpec => []StatsKept
<1>1. StatsInv /\ [LinkNext]_linkVars => StatsInv'
  <2>. SUFFICES ASSUME StatsInv, [LinkNext]_linkVars PROVE StatsInv'
    OBVIOUS
  <2>1. CASE LinkNext
    BY <2>1, StatsInvStep DEF LinkNext
  <2>2. CASE UNCHANGED linkVars
    BY <2>2 DEF linkVars, StatsInv, LinkTypeOK, StatsKept, WindowBounded, StatsHonest,
                RoomToPop, CountBehind, Trimming
  <2>. QED
    BY <2>1, <2>2
<1>2. StatsInv => StatsKept
  BY DEF StatsInv
<1>. QED
  BY StatsInvInit, <1>1, <1>2, PTL DEF LinkSpec

\* A thread's result: reached counts what got through in this send.
ReachedInv == StatsInv /\ SuccessReached /\ \A t \in Threads :
                send[t] \in {"attach", "spawn"} /\ timed[t].success => reached[t] >= 1

(* A result that says success is of a payload that got through, whatever   *)
(* the primary and the fallback do.                                        *)
THEOREM SuccessIsReached == LinkSpec => []SuccessReached
<1>1. LinkInit => ReachedInv
  BY StatsInvInit DEF LinkInit, ReachedInv, SuccessReached, Recorded
<1>2. ReachedInv /\ [LinkNext]_linkVars => ReachedInv'
  <2>. SUFFICES ASSUME ReachedInv, [LinkNext]_linkVars PROVE ReachedInv'
    OBVIOUS
  <2>. USE DEF SuccessReached, Recorded
  <2>1. ASSUME NEW t \in Threads, Step(t) PROVE ReachedInv'
    <3>0. StatsInv' /\ LinkTypeOK /\ LinkTypeOK'
      BY <2>1, StatsInvStep DEF ReachedInv, StatsInv
    <3>. USE DEF Goto
    <3>1. ASSUME NEW u \in Threads \ {t}
          PROVE  send'[u] = send[u] /\ timed'[u] = timed[u] /\ reached'[u] = reached[u]
      BY <2>1, <3>0 DEF LinkTypeOK, Step, Call, Attach, AttachFails, Primary, Spawn, ReadCount,
                        WriteCount, Append_, Check, Pop, NotStats, Result
    <3>2. send'[t] # "idle" /\ send'[t] # "primary" /\ timed'[t].success => reached'[t] >= 1
      <4>. SUFFICES ASSUME send'[t] # "idle", send'[t] # "primary", timed'[t].success
                    PROVE  reached'[t] >= 1
        OBVIOUS
      <4>1. CASE Call(t)
        BY <3>0, <4>1 DEF Call, LinkTypeOK
      <4>2. CASE AttachFails(t)
        BY <3>0, <4>2 DEF AttachFails, Result, LinkTypeOK
      <4>3. ASSUME NEW ok \in BOOLEAN, NEW came \in BOOLEAN, NEW slow \in BOOLEAN,
                   Primary(t, ok, came, slow)
            PROVE  reached'[t] >= 1
        <5>1. timed'[t] = [success |-> ok, link |-> "primary"]
          BY <3>0, <4>3 DEF Primary, Result, LinkTypeOK
        <5>2. ok /\ came
          BY <4>3, <5>1 DEF Primary
        <5>. QED
          BY <3>0, <4>3, <5>2 DEF Primary, LinkTypeOK
      <4>4. ASSUME NEW ok \in BOOLEAN, NEW came \in BOOLEAN, Spawn(t, ok, came)
            PROVE  reached'[t] >= 1
        <5>1. timed'[t] = [success |-> ok, link |-> "fallback"]
          BY <3>0, <4>4 DEF Spawn, Result, LinkTypeOK
        <5>2. ok /\ came
          BY <4>4, <5>1 DEF Spawn
        <5>3. reached'[t] = reached[t] + 1 /\ reached[t] \in Nat
          BY <3>0, <4>4, <5>2 DEF Spawn, LinkTypeOK
        <5>. QED
          BY <5>3
      <4>5. CASE Attach(t)
        BY <3>0, <4>5 DEF Attach, LinkTypeOK, ReachedInv
      <4>6. CASE ReadCount(t) \/ WriteCount(t) \/ Append_(t) \/ Check(t) \/ Pop(t)
        BY <3>0, <4>6 DEF ReadCount, WriteCount, Append_, Check, Pop, NotStats, Stats,
                          LinkTypeOK, ReachedInv
      <4>. QED
        BY <2>1, <4>1, <4>2, <4>3, <4>4, <4>5, <4>6 DEF Step
    <3>. QED
      BY <3>0, <3>1, <3>2 DEF ReachedInv
  <2>2. CASE UNCHANGED linkVars
    BY <2>2 DEF linkVars, ReachedInv, StatsInv, LinkTypeOK, StatsKept, WindowBounded, StatsHonest,
                RoomToPop, CountBehind, Trimming
  <2>. QED
    BY <2>1, <2>2 DEF LinkNext
<1>3. ReachedInv => SuccessReached
  BY DEF ReachedInv
<1>. QED
  BY <1>1, <1>2, <1>3, PTL DEF LinkSpec

----------------------------------------------------------------------------
(* SttBridge.  Where a call is says whether its file is there and whether  *)
(* its child may run.                                                      *)
CallInv(c) ==
  /\ call[c] \in {"idle", "spawn"} => ~child[c] /\ outcome[c] = "none"
  /\ call[c] \in {"spawn", "wait", "finally"} => file[c]
  /\ call[c] = "finally" => outcome[c] # "OSError"
  /\ call[c] \in {"finally", "done"} /\ child[c] => outcome[c] = "CancelledError"
  /\ call[c] = "done" /\ outcome[c] # "OSError" => ~file[c]

\* An idle call has no file yet.
SttInv == SttTypeOK /\ \A c \in Calls : CallInv(c) /\ (call[c] = "idle" => ~file[c])

LEMMA SttInvInit == SttInit => SttInv
BY DEF SttInit, SttInv, SttTypeOK, CallInv, Outcomes

LEMMA SttInvNext == SttInv /\ [SttNext]_sttVars => SttInv'
<1>. SUFFICES ASSUME SttInv, [SttNext]_sttVars PROVE SttInv'
  OBVIOUS
<1>1. CASE UNCHANGED sttVars
  BY <1>1 DEF sttVars, SttInv, SttTypeOK, CallInv
<1>2. ASSUME NEW c \in Calls,
             \/ Mock(c) \/ WriteTemp(c) \/ WriteTempFails(c) \/ SpawnCli(c) \/ NoBinary(c)
             \/ Exits(c) \/ TimesOut(c) \/ Cancelled(c) \/ RemoveFile(c) \/ OrphanExits(c)
      PROVE  SttInv'
  <2>. USE DEF Mock, WriteTemp, WriteTempFails, SpawnCli, NoBinary, Exits, TimesOut, Cancelled,
               RemoveFile, OrphanExits, Moves, Ends, Alive
  <2>1. SttTypeOK'
    BY <1>2 DEF SttInv, SttTypeOK, Outcomes
  <2>2. ASSUME NEW d \in Calls, d # c PROVE CallInv(d)' /\ (call'[d] = "idle" => ~file'[d])
    <3>1. call'[d] = call[d] /\ file'[d] = file[d] /\ child'[d] = child[d] /\ outcome'[d] = outcome[d]
      BY <1>2, <2>2 DEF SttInv, SttTypeOK
    <3>. QED
      BY <3>1 DEF SttInv, CallInv
  <2>3. CallInv(c)' /\ (call'[c] = "idle" => ~file'[c])
    BY <1>2 DEF SttInv, SttTypeOK, CallInv
  <2>. QED
    BY <2>1, <2>2, <2>3 DEF SttInv
<1>. QED
  BY <1>1, <1>2 DEF SttNext

(* A temporary file is removed however its call ends, but for a write that *)
(* fails; and while the CLI runs its file is there and its call waits for  *)
(* it, unless the caller cancelled the task.                               *)
THEOREM FilesAreOwned == SttSpec => []FileOwned
<1>1. SttInv => FileOwned
  BY DEF SttInv, SttTypeOK, CallInv, FileOwned
<1>. QED
  BY <1>1, SttInvInit, SttInvNext, PTL DEF SttSpec

----------------------------------------------------------------------------
(* LocalMlx.  As long as no unload has met another call, an unload is      *)
(* alone, so what a load has stored stays.                                 *)
SenderPlace == {"out", "elsewhere", "test", "load", "store", "store tokenizer", "set", "read",
                "read tokenizer", "generate"} \cup Unloading

MlxTyped ==
  /\ sender \in [Senders -> [pc : SenderPlace, sends : BOOLEAN, model : Nat, tokenizer : Nat]]
  /\ model \in Nat /\ tokenizer \in Nat /\ loads \in Nat /\ loaded \in BOOLEAN
  /\ unloadMet \in BOOLEAN

Unloads(s) == sender[s].pc \in Unloading
UnloadsAlone == \A s, t \in Senders : Unloads(s) /\ sender[t].pc # "out" => t = s
LoadedInv == (\A s \in Senders : ~Unloads(s)) /\ loaded => model # 0 /\ tokenizer # 0

Holds(s) ==
  /\ sender[s].pc = "store" => sender[s].model # 0 /\ sender[s].tokenizer # 0
  /\ sender[s].pc = "store tokenizer" => model # 0 /\ sender[s].tokenizer # 0
  /\ sender[s].pc \in {"set", "read", "read tokenizer", "generate"} => model # 0 /\ tokenizer # 0
  /\ sender[s].pc \in {"read tokenizer", "generate"} => sender[s].model # 0
  /\ sender[s].pc = "generate" => sender[s].tokenizer # 0

MlxInv == MlxTyped /\ (~unloadMet => UnloadsAlone /\ LoadedInv /\ \A s \in Senders : Holds(s))

LEMMA MlxInvInit == MlxInit => MlxInv
<1>. SUFFICES ASSUME MlxInit PROVE MlxInv
  OBVIOUS
<1>1. OutOfMlx \in [pc : SenderPlace, sends : BOOLEAN, model : Nat, tokenizer : Nat]
      /\ OutOfMlx.pc = "out"
  BY DEF OutOfMlx, SenderPlace
<1>2. MlxTyped
  BY <1>1 DEF MlxInit, MlxTyped
<1>3. \A s \in Senders : sender[s].pc = "out"
  BY <1>1 DEF MlxInit
<1>. QED
  BY <1>2, <1>3 DEF MlxInit, MlxInv, Unloading, UnloadsAlone, Unloads, LoadedInv, Holds

\* A call that begins meets no unload, or unloadMet says so.
LEMMA BeginMlxInv ==
  \A s \in Senders, sending \in BOOLEAN, to \in {"test", "elsewhere", "model gone"} :
    MlxInv /\ BeginMlx(s, sending, to) => MlxInv'
<1>. SUFFICES ASSUME NEW s \in Senders, NEW sending \in BOOLEAN, NEW to \in {"test", "elsewhere", "model gone"},
                     MlxInv, BeginMlx(s, sending, to)
              PROVE  MlxInv'
  OBVIOUS
<1>. DEFINE n == [OutOfMlx EXCEPT !.pc = to, !.sends = sending]
<1>1. n \in [pc : SenderPlace, sends : BOOLEAN, model : Nat, tokenizer : Nat] /\ n.pc = to
  BY DEF OutOfMlx, SenderPlace, Unloading
<1>2. sender' = [sender EXCEPT ![s] = n] /\ sender[s].pc = "out"
      /\ UNCHANGED <<model, tokenizer, loaded, loads>>
  <2>1. OutOfMlx.pc = "out"
    BY DEF OutOfMlx
  <2>. QED
    BY <2>1 DEF BeginMlx
<1>. HIDE DEF n
<1>3. MlxTyped'
  BY <1>1, <1>2 DEF MlxInv, MlxTyped, BeginMlx
<1>4. ASSUME ~unloadMet' PROVE UnloadsAlone' /\ LoadedInv' /\ \A t \in Senders : Holds(t)'
  <2>1. ~unloadMet /\ (to = "model gone" => InMlx = {}) /\ \A t \in InMlx : ~Unloads(t)
    BY <1>4 DEF BeginMlx, MlxInv, MlxTyped, Unloads
  <2>2. sender'[s].pc = to /\ \A t \in Senders : t # s => sender'[t] = sender[t]
    BY <1>1, <1>2 DEF MlxInv, MlxTyped
  <2>3. \A t \in Senders : t # s => ~Unloads(t)
    BY <2>1 DEF InMlx, Unloads, Unloading
  <2>4. UnloadsAlone'
    BY <2>1, <2>2, <2>3 DEF UnloadsAlone, Unloads, InMlx, Unloading
  <2>5. LoadedInv'
    <3>1. \A t \in Senders : ~Unloads(t)
      BY <1>2, <2>3 DEF Unloads, Unloading
    <3>. QED
      BY <1>2, <2>1, <3>1 DEF MlxInv, LoadedInv
  <2>6. \A t \in Senders : Holds(t)'
    BY <1>2, <2>1, <2>2 DEF MlxInv, Holds
  <2>. QED
    BY <2>4, <2>5, <2>6
<1>. QED
  BY <1>3, <1>4 DEF MlxInv

\* A step of one thread: what it may do to itself and to the attributes.
LEMMA SenderStepInv ==
  ASSUME MlxInv, NEW s \in Senders,
         NEW n \in [pc : SenderPlace, sends : BOOLEAN, model : Nat, tokenizer : Nat],
         sender' = [sender EXCEPT ![s] = n], sender[s].pc # "out",
         n.pc \in Unloading => sender[s].pc \in Unloading,
         model' \in Nat, tokenizer' \in Nat, loads' \in Nat, loaded' \in BOOLEAN, unloadMet' = unloadMet,
         ~unloadMet =>
           /\ (model' = 0 /\ model # 0) \/ (tokenizer' = 0 /\ tokenizer # 0) => Unloads(s)
           /\ ~Unloads(s)' /\ loaded' => (loaded /\ ~Unloads(s)) \/ (model' # 0 /\ tokenizer' # 0)
           /\ Holds(s)'
  PROVE  MlxInv'
<1>1. MlxTyped'
  BY DEF MlxInv, MlxTyped
<1>2. sender'[s] = n /\ \A t \in Senders : t # s => sender'[t] = sender[t]
  BY DEF MlxInv, MlxTyped
<1>3. ASSUME ~unloadMet' PROVE UnloadsAlone' /\ LoadedInv' /\ \A t \in Senders : Holds(t)'
  <2>1. UnloadsAlone /\ LoadedInv /\ \A t \in Senders : Holds(t)
    BY <1>3 DEF MlxInv
  <2>2. UnloadsAlone'
    BY <1>2, <2>1 DEF UnloadsAlone, Unloads
  <2>3. LoadedInv'
    <3>. SUFFICES ASSUME \A t \in Senders : ~Unloads(t)', loaded' PROVE model' # 0 /\ tokenizer' # 0
      BY DEF LoadedInv
    <3>1. CASE loaded /\ ~Unloads(s)
      <4>1. \A t \in Senders : ~Unloads(t)
        BY <1>2, <3>1 DEF Unloads
      <4>. QED
        BY <1>3, <2>1, <3>1, <4>1 DEF LoadedInv
    <3>2. CASE ~(loaded /\ ~Unloads(s))
      BY <1>3, <3>2
    <3>. QED
      BY <3>1, <3>2
  <2>4. ASSUME NEW t \in Senders, t # s PROVE Holds(t)'
    <3>1. CASE sender[t].pc = "out"
      BY <1>2, <2>4, <3>1 DEF Holds
    <3>2. CASE sender[t].pc # "out"
      <4>1. ~Unloads(s)
        BY <2>1, <2>4, <3>2 DEF UnloadsAlone
      <4>2. (model # 0 => model' # 0) /\ (tokenizer # 0 => tokenizer' # 0)
        BY <1>3, <4>1
      <4>. QED
        BY <1>2, <2>1, <2>4, <4>2 DEF Holds
    <3>. QED
      BY <3>1, <3>2
  <2>. QED
    BY <1>3, <2>2, <2>3, <2>4
<1>. QED
  BY <1>1, <1>3 DEF MlxInv

LEMMA MlxStepInv == \A s \in Senders :
  MlxInv /\ (\/ SendElsewhere(s) \/ TestLoaded(s) \/ LoadWeights(s)
             \/ LoadRaises(s) \/ StoreModel(s) \/ StoreTokenizer(s) \/ SetLoaded(s)
             \/ ReadModel(s) \/ ReadTokenizer(s) \/ GenerateText(s)
             \/ DropModel(s) \/ DropTokenizer(s) \/ ClearLoaded(s)) => MlxInv'
<1>. SUFFICES ASSUME NEW s \in Senders, MlxInv,
                     \/ SendElsewhere(s) \/ TestLoaded(s) \/ LoadWeights(s)
                     \/ LoadRaises(s) \/ StoreModel(s) \/ StoreTokenizer(s) \/ SetLoaded(s)
                     \/ ReadModel(s) \/ ReadTokenizer(s) \/ GenerateText(s)
                     \/ DropModel(s) \/ DropTokenizer(s) \/ ClearLoaded(s)
              PROVE  MlxInv'
  OBVIOUS
<1>. DEFINE me == sender[s]
            R == [pc : SenderPlace, sends : BOOLEAN, model : Nat, tokenizer : Nat]
<1>1. /\ me \in R /\ sender \in [Senders -> R] /\ OutOfMlx \in R /\ OutOfMlx.pc = "out"
      /\ model \in Nat /\ tokenizer \in Nat /\ loads \in Nat /\ loaded \in BOOLEAN
  BY DEF MlxInv, MlxTyped, OutOfMlx, SenderPlace
<1>2. ~unloadMet => Holds(s) /\ (loaded /\ ~Unloads(s) /\ me.pc # "out" => model # 0 /\ tokenizer # 0)
  BY DEF MlxInv, LoadedInv, UnloadsAlone
<1>3. CASE SendElsewhere(s) \/ LoadRaises(s) \/ GenerateText(s)
  <2>1. sender' = [sender EXCEPT ![s] = OutOfMlx] /\ me.pc \in {"elsewhere", "load", "generate"}
        /\ UNCHANGED <<model, tokenizer, loaded, loads, unloadMet>>
    BY <1>3 DEF SendElsewhere, LoadRaises, GenerateText, OnlySender
  <2>. QED
    BY <1>1, <2>1, SenderStepInv DEF Unloading, Unloads, Holds
<1>4. CASE TestLoaded(s)
  <2>1. me.pc = "test" /\ UNCHANGED <<model, tokenizer, loaded, loads, unloadMet>>
    BY <1>4 DEF TestLoaded, OnlySender
  <2>2. CASE ~loaded
    <3>. DEFINE n == [me EXCEPT !.pc = "load"]
    <3>1. n \in R /\ n.pc = "load" /\ sender' = [sender EXCEPT ![s] = n]
      BY <1>1, <1>4, <2>2 DEF TestLoaded, SenderPlace
    <3>. HIDE DEF n
    <3>. QED
      BY <1>1, <2>1, <3>1, SenderStepInv DEF Unloading, Unloads, Holds
  <2>3. CASE loaded /\ me.sends
    <3>. DEFINE n == [me EXCEPT !.pc = "read"]
    <3>1. n \in R /\ n.pc = "read" /\ sender' = [sender EXCEPT ![s] = n]
      BY <1>1, <1>4, <2>3 DEF TestLoaded, SenderPlace
    <3>. HIDE DEF n
    <3>2. ~unloadMet => model # 0 /\ tokenizer # 0
      BY <1>2, <2>1, <2>3 DEF Unloads, Unloading
    <3>. QED
      BY <1>1, <2>1, <3>1, <3>2, SenderStepInv DEF Unloading, Unloads, Holds
  <2>4. CASE loaded /\ ~me.sends
    <3>1. sender' = [sender EXCEPT ![s] = OutOfMlx]
      BY <1>1, <1>4, <2>4 DEF TestLoaded
    <3>. QED
      BY <1>1, <2>1, <3>1, SenderStepInv DEF Unloading, Unloads, Holds
  <2>. QED
    BY <2>2, <2>3, <2>4
<1>5. CASE LoadWeights(s)
  <2>. DEFINE new == loads + 1
              n == [me EXCEPT !.pc = "store", !.model = new, !.tokenizer = new]
  <2>1. new \in Nat /\ new # 0 /\ new = loads + 1
    BY <1>1
  <2>2. sender' = [sender EXCEPT ![s] = n] /\ me.pc = "load" /\ loads' = new
        /\ UNCHANGED <<model, tokenizer, loaded, unloadMet>>
    BY <1>5 DEF LoadWeights
  <2>. HIDE DEF new
  <2>3. n \in R /\ n.pc = "store" /\ n.model = new /\ n.tokenizer = new
    BY <1>1, <2>1 DEF SenderPlace
  <2>. HIDE DEF n
  <2>. QED
    BY <1>1, <2>1, <2>2, <2>3, SenderStepInv DEF Unloading, Unloads, Holds
<1>6. CASE StoreModel(s) \/ StoreTokenizer(s) \/ ReadModel(s) \/ ReadTokenizer(s) \/ DropModel(s)
           \/ DropTokenizer(s) \/ ClearLoaded(s)
  <2>1. CASE StoreModel(s)
    <3>. DEFINE n == [me EXCEPT !.pc = "store tokenizer"]
    <3>1. n \in R /\ n.pc = "store tokenizer" /\ n.tokenizer = me.tokenizer
      BY <1>1 DEF SenderPlace
    <3>2. sender' = [sender EXCEPT ![s] = n] /\ me.pc = "store" /\ model' = me.model /\ model' \in Nat
          /\ UNCHANGED <<tokenizer, loaded, loads, unloadMet>>
      BY <1>1, <2>1 DEF StoreModel, StepMlx
    <3>. HIDE DEF n
    <3>. QED
      BY <1>1, <1>2, <3>1, <3>2, SenderStepInv DEF Unloading, Unloads, Holds
  <2>2. CASE StoreTokenizer(s)
    <3>. DEFINE n == [me EXCEPT !.pc = "set"]
    <3>1. n \in R /\ n.pc = "set"
      BY <1>1 DEF SenderPlace
    <3>2. sender' = [sender EXCEPT ![s] = n] /\ me.pc = "store tokenizer" /\ tokenizer' = me.tokenizer
          /\ tokenizer' \in Nat /\ UNCHANGED <<model, loaded, loads, unloadMet>>
      BY <1>1, <2>2 DEF StoreTokenizer, StepMlx
    <3>. HIDE DEF n
    <3>. QED
      BY <1>1, <1>2, <3>1, <3>2, SenderStepInv DEF Unloading, Unloads, Holds
  <2>3. CASE ReadModel(s)
    <3>. DEFINE n == [me EXCEPT !.pc = "read tokenizer", !.model = model]
    <3>1. n \in R /\ n.pc = "read tokenizer" /\ n.model = model
      BY <1>1 DEF SenderPlace
    <3>2. sender' = [sender EXCEPT ![s] = n] /\ me.pc = "read"
          /\ UNCHANGED <<model, tokenizer, loaded, loads, unloadMet>>
      BY <1>1, <2>3 DEF ReadModel, OnlySender
    <3>. HIDE DEF n
    <3>. QED
      BY <1>1, <1>2, <3>1, <3>2, SenderStepInv DEF Unloading, Unloads, Holds
  <2>4. CASE ReadTokenizer(s)
    <3>. DEFINE n == [me EXCEPT !.pc = "generate", !.tokenizer = tokenizer]
    <3>1. n \in R /\ n.pc = "generate" /\ n.model = me.model /\ n.tokenizer = tokenizer
      BY <1>1 DEF SenderPlace
    <3>2. sender' = [sender EXCEPT ![s] = n] /\ me.pc = "read tokenizer"
          /\ UNCHANGED <<model, tokenizer, loaded, loads, unloadMet>>
      BY <1>1, <2>4 DEF ReadTokenizer, OnlySender
    <3>. HIDE DEF n
    <3>. QED
      BY <1>1, <1>2, <3>1, <3>2, SenderStepInv DEF Unloading, Unloads, Holds
  <2>5. CASE DropModel(s)
    <3>. DEFINE n == [me EXCEPT !.pc = "tokenizer gone"]
    <3>1. n \in R /\ n.pc = "tokenizer gone"
      BY <1>1 DEF SenderPlace, Unloading
    <3>2. sender' = [sender EXCEPT ![s] = n] /\ me.pc = "model gone" /\ model' = 0
          /\ UNCHANGED <<tokenizer, loaded, loads, unloadMet>>
      BY <2>5 DEF DropModel, StepMlx
    <3>. HIDE DEF n
    <3>. QED
      BY <1>1, <3>1, <3>2, SenderStepInv DEF Unloading, Unloads, Holds
  <2>6. CASE DropTokenizer(s)
    <3>. DEFINE n == [me EXCEPT !.pc = "flag down"]
    <3>1. n \in R /\ n.pc = "flag down"
      BY <1>1 DEF SenderPlace, Unloading
    <3>2. sender' = [sender EXCEPT ![s] = n] /\ me.pc = "tokenizer gone" /\ tokenizer' = 0
          /\ UNCHANGED <<model, loaded, loads, unloadMet>>
      BY <2>6 DEF DropTokenizer, StepMlx
    <3>. HIDE DEF n
    <3>. QED
      BY <1>1, <3>1, <3>2, SenderStepInv DEF Unloading, Unloads, Holds
  <2>7. CASE ClearLoaded(s)
    <3>. DEFINE n == [me EXCEPT !.pc = "out"]
    <3>1. n \in R /\ n.pc = "out"
      BY <1>1 DEF SenderPlace
    <3>2. sender' = [sender EXCEPT ![s] = n] /\ me.pc = "flag down" /\ loaded' = FALSE
          /\ UNCHANGED <<model, tokenizer, loads, unloadMet>>
      BY <1>1, <2>7 DEF ClearLoaded, StepMlx
    <3>. HIDE DEF n
    <3>. QED
      BY <1>1, <3>1, <3>2, SenderStepInv DEF Unloading, Unloads, Holds
  <2>. QED
    BY <1>6, <2>1, <2>2, <2>3, <2>4, <2>5, <2>6, <2>7
<1>7. CASE SetLoaded(s)
  <2>1. me.pc = "set" /\ loaded' = TRUE /\ UNCHANGED <<model, tokenizer, loads, unloadMet>>
    BY <1>7 DEF SetLoaded
  <2>2. ~unloadMet => model # 0 /\ tokenizer # 0
    BY <1>2, <2>1 DEF Holds
  <2>3. CASE me.sends
    <3>. DEFINE n == [me EXCEPT !.pc = "read"]
    <3>1. n \in R /\ n.pc = "read" /\ sender' = [sender EXCEPT ![s] = n]
      BY <1>1, <1>7, <2>3 DEF SetLoaded, SenderPlace
    <3>. HIDE DEF n
    <3>. QED
      BY <1>1, <2>1, <2>2, <3>1, SenderStepInv DEF Unloading, Unloads, Holds
  <2>4. CASE ~me.sends
    <3>1. sender' = [sender EXCEPT ![s] = OutOfMlx]
      BY <1>7, <2>4 DEF SetLoaded
    <3>. QED
      BY <1>1, <2>1, <2>2, <3>1, SenderStepInv DEF Unloading, Unloads, Holds
  <2>. QED
    BY <2>3, <2>4
<1>. QED
  BY <1>3, <1>4, <1>5, <1>6, <1>7

LEMMA MlxInvNext == MlxInv /\ [MlxNext]_mlxVars => MlxInv'
<1>. SUFFICES ASSUME MlxInv, [MlxNext]_mlxVars PROVE MlxInv'
  OBVIOUS
<1>1. CASE UNCHANGED mlxVars
  BY <1>1 DEF mlxVars, MlxInv, MlxTyped, UnloadsAlone, Unloads, LoadedInv, Holds
<1>2. CASE \E s \in Senders : SendMlx(s) \/ LoadModel(s) \/ UnloadModel(s)
  BY <1>2, BeginMlxInv DEF SendMlx, LoadModel, UnloadModel
<1>3. CASE \E s \in Senders :
             \/ SendElsewhere(s) \/ TestLoaded(s) \/ LoadWeights(s)
             \/ LoadRaises(s) \/ StoreModel(s) \/ StoreTokenizer(s) \/ SetLoaded(s)
             \/ ReadModel(s) \/ ReadTokenizer(s) \/ GenerateText(s)
             \/ DropModel(s) \/ DropTokenizer(s) \/ ClearLoaded(s)
  BY <1>3, MlxStepInv
<1>. QED
  BY <1>1, <1>2, <1>3 DEF MlxNext

(* However many sends, loads and loads that fail run at once: as long as   *)
(* no unload met another call, a transport that says it is loaded has both *)
(* model and tokenizer, and generate is given both.                        *)
THEOREM LoadedMeansLoaded == MlxSpec => []LoadedHasModel
<1>1. MlxInv => LoadedHasModel
  <2>. SUFFICES ASSUME MlxInv, ~unloadMet PROVE LoadedHasModel
    BY DEF LoadedHasModel
  <2>1. \A s \in Senders : s \notin InMlx => ~Unloads(s)
    BY DEF InMlx, Unloads, Unloading
  <2>. QED
    BY <2>1 DEF MlxInv, LoadedHasModel, LoadedInv, Holds, Unloads
<1>. QED
  BY <1>1, MlxInvInit, MlxInvNext, PTL DEF MlxSpec
----------------------------------------------------------------------------
(* Fragmenter: a proper message comes back whole.                          *)

\* What a buffer of key k holds is what came, when and as often as it came.
SoundBuffer(k, b, came) ==
  /\ b = [created |-> b.created, count |-> b.count, frags |-> b.frags, lastSeen |-> b.lastSeen]
  /\ b.created \in Nat /\ b.created <= now /\ b.count \in Nat /\ b.lastSeen \in BOOLEAN
  /\ DOMAIN b.frags \subseteq 0 .. b.count - 1
  /\ \A i \in DOMAIN b.frags : /\ b.frags[i].at \in Nat /\ b.created <= b.frags[i].at
                               /\ b.frags[i].at <= b.created + Timeout
  /\ \A m \in Proper : Key[m] = k =>
       /\ b.count = Chunks[m]
       /\ \A i \in DOMAIN b.frags : b.frags[i].chunk = <<m, i>> /\ returns[k] < came[<<m, i>>]
       /\ Chunks[m] - 1 \in DOMAIN b.frags => b.lastSeen

\* And it has never all of a message.
NotFull(k, b) == \A m \in Proper : Key[m] = k => DOMAIN b.frags # 0 .. Chunks[m] - 1

FragmentsTyped == /\ now \in Nat /\ arrivals \in [Chunk -> Nat] /\ returns \in [Keys -> Nat]
                  /\ DOMAIN buffers \subseteq Keys
BuffersSound == \A k \in DOMAIN buffers : SoundBuffer(k, buffers[k], arrivals) /\ NotFull(k, buffers[k])
FragmenterInv == FragmentsTyped /\ BuffersSound /\ Intact /\ Timely /\ ReturnsPaidFor

LEMMA FieldKeeps ==
  ASSUME NEW n \in Nat
  PROVE  n % FieldSize \in Nat /\ (n < FieldSize => n % FieldSize = n)
BY FragmenterAssumption

\* What a fragment says of the chunk it carries.
LEMMA FragmentSays ==
  ASSUME NEW c \in Chunk
  PROVE  LET f == FragmentOf(c) IN
         /\ f.key \in Keys /\ f.idx \in Nat /\ f.count \in Nat /\ f.last \in BOOLEAN /\ f.chunk = c
         /\ \A m \in Proper : Key[m] = f.key =>
              /\ f.idx \in 0 .. Chunks[m] - 1 /\ f.count = Chunks[m] /\ c = <<m, f.idx>>
              /\ f.idx = Chunks[m] - 1 => f.last
              /\ Chunks[m] \in Nat /\ Chunks[m] >= 1
<1>1. PICK m \in Message : c \in {m} \X (0 .. Chunks[m] - 1)
  BY DEF Chunk
<1>2. PICK i \in 0 .. Chunks[m] - 1 : c = <<m, i>>
  BY <1>1
<1>3. Chunks[m] \in Nat /\ i \in Nat
  BY FragmenterAssumption
<1>. DEFINE f == FragmentOf(c)
<1>4. /\ f.key = Key[m] /\ f.idx = i % FieldSize /\ f.count = Chunks[m] % FieldSize
      /\ f.last = (i = Chunks[m] - 1) /\ f.chunk = c
  BY <1>2 DEF FragmentOf
<1>. HIDE DEF f
<1>5. f.key \in Keys /\ f.idx \in Nat /\ f.count \in Nat /\ f.last \in BOOLEAN
  BY <1>3, <1>4, FieldKeeps DEF Keys
<1>6. ASSUME NEW n \in Proper, Key[n] = f.key
      PROVE  /\ f.idx \in 0 .. Chunks[n] - 1 /\ f.count = Chunks[n] /\ c = <<n, f.idx>>
             /\ f.idx = Chunks[n] - 1 => f.last
             /\ Chunks[n] \in Nat /\ Chunks[n] >= 1
  <2>1. m = n
    BY <1>4, <1>6 DEF Proper
  <2>2. Chunks[m] < FieldSize /\ Chunks[m] >= 1 /\ i < FieldSize
    BY <1>2, <1>3, <2>1, FragmenterAssumption DEF Proper
  <2>3. f.idx = i /\ f.count = Chunks[m]
    BY <1>3, <1>4, <2>2, FieldKeeps
  <2>. QED
    BY <1>2, <1>3, <1>4, <2>1, <2>2, <2>3
<1>. QED
  BY <1>4, <1>5, <1>6 DEF f

\* The buffer a fragment finds, and the same with the fragment stored.
LEMMA BufferFound ==
  ASSUME FragmenterInv, NEW c \in Chunk
  PROVE  SoundBuffer(FragmentOf(c).key, BufferOf(FragmentOf(c)), arrivals)
<1>. DEFINE f == FragmentOf(c)
            k == f.key
            b == BufferOf(f)
            fresh == [created |-> now, count |-> f.count, frags |-> << >>, lastSeen |-> FALSE]
<1>1. /\ k \in Keys /\ f.count \in Nat /\ now \in Nat
      /\ \A m \in Proper : Key[m] = k => f.count = Chunks[m]
  BY FragmentSays DEF FragmenterInv, FragmentsTyped
<1>2. b = IF k \in DOMAIN buffers THEN buffers[k] ELSE fresh
  BY DEF BufferOf
<1>3. CASE k \in DOMAIN buffers
  BY <1>2, <1>3 DEF FragmenterInv, BuffersSound
<1>4. CASE k \notin DOMAIN buffers
  <2>1. DOMAIN fresh.frags = {}
    OBVIOUS
  <2>. HIDE DEF k, f
  <2>2. /\ fresh.created = now /\ fresh.count = f.count /\ fresh.lastSeen = FALSE
        /\ fresh = [created |-> fresh.created, count |-> fresh.count, frags |-> fresh.frags,
                    lastSeen |-> fresh.lastSeen]
    OBVIOUS
  <2>. HIDE DEF fresh
  <2>3. SoundBuffer(k, fresh, arrivals)
    <3>1. fresh.created \in Nat /\ fresh.created <= now /\ fresh.count \in Nat
      BY <1>1, <2>2
    <3>2. fresh.lastSeen \in BOOLEAN
      BY <2>2
    <3>3. \A m \in Proper : Key[m] = k => fresh.count = Chunks[m]
      BY <1>1, <2>2
    <3>. QED
      BY <2>1, <2>2, <3>1, <3>2, <3>3 DEF SoundBuffer
  <2>. QED
    BY <1>2, <1>4, <2>3 DEF k, f
<1>. QED
  BY <1>3, <1>4

LEMMA FragmentStored ==
  ASSUME FragmenterInv, NEW c \in Chunk, arrivals' = [arrivals EXCEPT ![c] = @ + 1],
         ~Expired(Store(BufferOf(FragmentOf(c)), FragmentOf(c)))
  PROVE  /\ SoundBuffer(FragmentOf(c).key, Store(BufferOf(FragmentOf(c)), FragmentOf(c)), arrivals')
         /\ \A m \in Proper : Key[m] = FragmentOf(c).key
               => FragmentOf(c).idx \in DOMAIN Store(BufferOf(FragmentOf(c)), FragmentOf(c)).frags
<1>. DEFINE f == FragmentOf(c)
            k == f.key
            b == BufferOf(f)
            s == Store(b, f)
            new == IF f.idx < b.count /\ f.idx \notin DOMAIN b.frags THEN With(b.frags, f.idx, f)
                   ELSE b.frags
<1>1. /\ k \in Keys /\ f.idx \in Nat /\ f.count \in Nat /\ f.last \in BOOLEAN /\ f.chunk = c
      /\ \A m \in Proper : Key[m] = k =>
           /\ f.idx \in 0 .. Chunks[m] - 1 /\ f.count = Chunks[m] /\ c = <<m, f.idx>>
           /\ f.idx = Chunks[m] - 1 => f.last
           /\ Chunks[m] \in Nat /\ Chunks[m] >= 1
  BY FragmentSays
<1>2. SoundBuffer(k, b, arrivals)
  BY BufferFound
<1>3. s = [b EXCEPT !.frags = new, !.lastSeen = b.lastSeen \/ f.last]
  BY DEF Store
<1>. HIDE DEF f, b, s, new
<1>4. /\ s.created = b.created /\ s.count = b.count /\ s.frags = new
      /\ s.lastSeen = (b.lastSeen \/ f.last)
      /\ s = [created |-> s.created, count |-> s.count, frags |-> s.frags, lastSeen |-> s.lastSeen]
  <2>1. b = [created |-> b.created, count |-> b.count, frags |-> b.frags, lastSeen |-> b.lastSeen]
    BY <1>2 DEF SoundBuffer
  <2>. DEFINE r == [created |-> b.created, count |-> b.count, frags |-> new,
                    lastSeen |-> b.lastSeen \/ f.last]
  <2>2. s = r
    BY <1>3, <2>1
  <2>. QED
    BY <2>2
<1>5. /\ now \in Nat /\ arrivals \in [Chunk -> Nat] /\ returns \in [Keys -> Nat] /\ Timeout \in Nat
      /\ b.created \in Nat /\ b.created <= now /\ b.count \in Nat /\ b.lastSeen \in BOOLEAN
  BY <1>2, FragmenterAssumption DEF FragmenterInv, FragmentsTyped, SoundBuffer
<1>6. now <= b.created + Timeout
  <2>1. ~(now - s.created > Timeout)
    BY DEF Expired, s, b, f
  <2>. QED
    BY <1>4, <1>5, <2>1
<1>7. \A x \in Chunk : /\ arrivals'[x] = IF x = c THEN arrivals[x] + 1 ELSE arrivals[x]
                       /\ arrivals[x] \in Nat
  BY <1>5
\* The fragment goes to its place, or the buffer stays as it was.
<1>8. CASE f.idx < b.count /\ f.idx \notin DOMAIN b.frags
  <2>. DEFINE entry == [chunk |-> c, at |-> now]
  <2>1. /\ DOMAIN new = DOMAIN b.frags \cup {f.idx}
        /\ new[f.idx] = entry
        /\ \A i \in DOMAIN b.frags : new[i] = b.frags[i]
    BY <1>1, <1>8 DEF new, With
  <2>2. entry.chunk = c /\ entry.at = now
    OBVIOUS
  <2>. HIDE DEF entry
  <2>3. DOMAIN s.frags \subseteq 0 .. s.count - 1
    BY <1>1, <1>2, <1>4, <1>5, <1>8, <2>1 DEF SoundBuffer
  <2>4. \A i \in DOMAIN s.frags : /\ s.frags[i].at \in Nat /\ s.created <= s.frags[i].at
                                  /\ s.frags[i].at <= s.created + Timeout
    BY <1>2, <1>4, <1>5, <1>6, <2>1, <2>2 DEF SoundBuffer
  <2>5. ASSUME NEW m \in Proper, Key[m] = k
        PROVE  /\ s.count = Chunks[m]
               /\ \A i \in DOMAIN s.frags : s.frags[i].chunk = <<m, i>> /\ returns[k] < arrivals'[<<m, i>>]
               /\ Chunks[m] - 1 \in DOMAIN s.frags => s.lastSeen
    <3>1. /\ b.count = Chunks[m]
          /\ \A i \in DOMAIN b.frags : b.frags[i].chunk = <<m, i>> /\ returns[k] < arrivals[<<m, i>>]
          /\ Chunks[m] - 1 \in DOMAIN b.frags => b.lastSeen
      BY <1>2, <2>5 DEF SoundBuffer
    <3>2. /\ c = <<m, f.idx>> /\ f.idx \in 0 .. Chunks[m] - 1 /\ (f.idx = Chunks[m] - 1 => f.last)
      BY <1>1, <2>5
    <3>3. ASSUME NEW i \in DOMAIN b.frags
          PROVE  s.frags[i].chunk = <<m, i>> /\ returns[k] < arrivals'[<<m, i>>]
      <4>1. i \in 0 .. Chunks[m] - 1
        BY <1>2, <3>1 DEF SoundBuffer
      <4>2. <<m, i>> \in Chunk
        BY <4>1 DEF Chunk, Proper
      <4>3. returns[k] \in Nat
        BY <1>1, <1>5
      <4>4. returns[k] < arrivals'[<<m, i>>]
        BY <1>7, <3>1, <4>2, <4>3
      <4>. QED
        BY <1>4, <2>1, <3>1, <4>4
    <3>4. s.frags[f.idx].chunk = <<m, f.idx>> /\ returns[k] < arrivals'[<<m, f.idx>>]
      <4>1. returns[k] <= arrivals[c] /\ returns[k] \in Nat
        BY <1>1, <1>5, <2>5, <3>2 DEF FragmenterInv, ReturnsPaidFor
      <4>2. returns[k] < arrivals'[c]
        BY <1>7, <4>1
      <4>. QED
        BY <1>4, <2>1, <2>2, <3>2, <4>2
    <3>5. Chunks[m] - 1 \in DOMAIN s.frags => s.lastSeen
      BY <1>4, <2>1, <3>1, <3>2
    <3>. QED
      BY <1>4, <2>1, <3>1, <3>3, <3>4, <3>5
  <2>6. s.lastSeen \in BOOLEAN
    BY <1>1, <1>4, <1>5
  <2>7. SoundBuffer(k, s, arrivals')
    BY <1>4, <1>5, <2>3, <2>4, <2>5, <2>6 DEF SoundBuffer
  <2>. QED
    BY <1>4, <2>1, <2>7 DEF s, b, f
<1>9. CASE ~(f.idx < b.count /\ f.idx \notin DOMAIN b.frags)
  <2>1. new = b.frags
    BY <1>9 DEF new
  <2>2. s.lastSeen \in BOOLEAN /\ (b.lastSeen => s.lastSeen)
    BY <1>1, <1>4, <1>5
  <2>3. ASSUME NEW m \in Proper, Key[m] = k
        PROVE  /\ s.count = Chunks[m] /\ f.idx \in DOMAIN s.frags
               /\ \A i \in DOMAIN s.frags : s.frags[i].chunk = <<m, i>> /\ returns[k] < arrivals'[<<m, i>>]
               /\ Chunks[m] - 1 \in DOMAIN s.frags => s.lastSeen
    <3>1. /\ b.count = Chunks[m]
          /\ \A i \in DOMAIN b.frags : b.frags[i].chunk = <<m, i>> /\ returns[k] < arrivals[<<m, i>>]
          /\ Chunks[m] - 1 \in DOMAIN b.frags => b.lastSeen
      BY <1>2, <2>3 DEF SoundBuffer
    <3>2. f.idx \in DOMAIN b.frags
      BY <1>1, <1>9, <2>3, <3>1
    <3>3. ASSUME NEW i \in DOMAIN b.frags
          PROVE  returns[k] < arrivals'[<<m, i>>]
      <4>1. i \in 0 .. Chunks[m] - 1
        BY <1>2, <3>1 DEF SoundBuffer
      <4>2. <<m, i>> \in Chunk
        BY <4>1 DEF Chunk, Proper
      <4>3. returns[k] \in Nat
        BY <1>1, <1>5
      <4>. QED
        BY <1>7, <3>1, <4>2, <4>3
    <3>. QED
      BY <1>4, <2>1, <2>2, <3>1, <3>2, <3>3
  <2>4. SoundBuffer(k, s, arrivals')
    BY <1>2, <1>4, <1>5, <2>1, <2>2, <2>3 DEF SoundBuffer
  <2>. QED
    BY <2>3, <2>4 DEF s, b, f
<1>. QED
  BY <1>8, <1>9

\* A buffer is as sound when chunks of other keys come, or time goes by.
LEMMA OthersSound ==
  ASSUME FragmentsTyped, NEW k \in Keys, NEW b, SoundBuffer(k, b, arrivals),
         NEW came, \A x \in Chunk : came[x] \in Nat /\ arrivals[x] <= came[x]
  PROVE  SoundBuffer(k, b, came)
<1>. SUFFICES ASSUME NEW m \in Proper, Key[m] = k, NEW i \in DOMAIN b.frags
              PROVE  returns[k] < came[<<m, i>>]
  BY DEF SoundBuffer
<1>1. b.count = Chunks[m] /\ returns[k] < arrivals[<<m, i>>] /\ i \in 0 .. b.count - 1
  BY DEF SoundBuffer
<1>2. <<m, i>> \in Chunk /\ returns[k] \in Nat
  BY <1>1 DEF Chunk, Proper, FragmentsTyped
<1>3. arrivals[<<m, i>>] \in Nat
  BY <1>2 DEF FragmentsTyped
<1>. QED
  BY <1>1, <1>2, <1>3

LEMMA CompleteIsAll ==
  ASSUME NEW k, NEW b, NEW came, SoundBuffer(k, b, came)
  PROVE  /\ Cardinality(DOMAIN b.frags) <= b.count
         /\ Cardinality(DOMAIN b.frags) = b.count <=> DOMAIN b.frags = 0 .. b.count - 1
<1>1. b.count \in Nat /\ DOMAIN b.frags \subseteq 0 .. b.count - 1
  BY DEF SoundBuffer
<1>2. IsFiniteSet(0 .. b.count - 1) /\ Cardinality(0 .. b.count - 1) = b.count
  <2>1. PICK n \in Int : n = b.count - 1
    BY <1>1
  <2>2. IsFiniteSet(0 .. n) /\ Cardinality(0 .. n) = IF 0 > n THEN 0 ELSE n - 0 + 1
    BY FS_Interval
  <2>. QED
    BY <1>1, <2>1, <2>2
<1>. QED
  BY <1>1, <1>2, FS_Subset

LEMMA DefragmentInv ==
  ASSUME FragmenterInv, NEW c \in Chunk, Defragment(c)
  PROVE  FragmenterInv'
<1>. DEFINE f == FragmentOf(c)
            k == f.key
            b == Store(BufferOf(f), f)
<1>1. k \in Keys
  BY FragmentSays
<1>2. /\ FragmentsTyped /\ BuffersSound /\ Intact /\ Timely /\ ReturnsPaidFor
      /\ now \in Nat /\ arrivals \in [Chunk -> Nat] /\ returns \in [Keys -> Nat]
      /\ DOMAIN buffers \subseteq Keys /\ Timeout \in Nat
  BY FragmenterAssumption DEF FragmenterInv, FragmentsTyped
<1>3. /\ arrivals' = [arrivals EXCEPT ![c] = @ + 1] /\ UNCHANGED <<now, sent>>
  BY DEF Defragment
<1>4. ~Expired(b) => SoundBuffer(k, b, arrivals') /\ \A m \in Proper : Key[m] = k => f.idx \in DOMAIN b.frags
  BY <1>3, FragmentStored
<1>5. \/ Expired(b) /\ Delete(k) /\ output' = NoPacket /\ UNCHANGED returns
      \/ ~Expired(b) /\ ~Complete(b, f) /\ Put(k, b) /\ output' = NoPacket /\ UNCHANGED returns
      \/ ~Expired(b) /\ Complete(b, f) /\ Finish(k, b)
  BY DEF Defragment
<1>. HIDE DEF f, k, b
<1>6. /\ arrivals' \in [Chunk -> Nat]
      /\ \A x \in Chunk : arrivals'[x] \in Nat /\ arrivals[x] \in Nat /\ arrivals[x] <= arrivals'[x]
  BY <1>2, <1>3
<1>7. \A j \in DOMAIN buffers : j \in Keys /\ SoundBuffer(j, buffers[j], arrivals') /\ NotFull(j, buffers[j])
  BY <1>2, <1>6, OthersSound DEF BuffersSound
<1>8. \A m \in Proper : \A i \in 0 .. Chunks[m] - 1 :
         /\ returns[Key[m]] \in Nat /\ <<m, i>> \in Chunk
         /\ returns[Key[m]] <= arrivals'[<<m, i>>]
  <2>. SUFFICES ASSUME NEW m \in Proper, NEW i \in 0 .. Chunks[m] - 1
                PROVE  /\ returns[Key[m]] \in Nat /\ <<m, i>> \in Chunk
                       /\ returns[Key[m]] <= arrivals'[<<m, i>>]
    OBVIOUS
  <2>1. m \in Message /\ <<m, i>> \in Chunk /\ Key[m] \in Keys
    BY DEF Proper, Chunk, Keys
  <2>2. returns[Key[m]] <= arrivals[<<m, i>>] /\ returns[Key[m]] \in Nat
    BY <1>2, <2>1 DEF ReturnsPaidFor
  <2>. QED
    BY <1>6, <2>1, <2>2
<1>9. CASE Delete(k) /\ output' = NoPacket /\ UNCHANGED returns
  <2>1. DOMAIN buffers' \subseteq DOMAIN buffers /\ \A j \in DOMAIN buffers' : buffers'[j] = buffers[j]
    BY <1>9 DEF Delete, Restrict
  <2>2. FragmentsTyped'
    BY <1>2, <1>3, <1>6, <1>9, <2>1 DEF FragmentsTyped
  <2>3. \A j \in DOMAIN buffers' : SoundBuffer(j, buffers'[j], arrivals') /\ NotFull(j, buffers'[j])
    BY <1>7, <2>1
  <2>4. BuffersSound'
    BY <1>3, <1>9, <2>3 DEF BuffersSound, SoundBuffer, NotFull
  <2>5. Intact' /\ Timely' /\ ReturnsPaidFor'
    BY <1>8, <1>9 DEF Intact, Timely, ReturnsPaidFor
  <2>. QED
    BY <2>2, <2>4, <2>5 DEF FragmenterInv
<1>10. CASE ~Expired(b) /\ ~Complete(b, f) /\ Put(k, b) /\ output' = NoPacket /\ UNCHANGED returns
  <2>1. /\ DOMAIN buffers' = DOMAIN buffers \cup {k} /\ buffers'[k] = b
        /\ \A j \in DOMAIN buffers : j # k => buffers'[j] = buffers[j]
    BY <1>10 DEF Put
  <2>2. FragmentsTyped'
    BY <1>1, <1>2, <1>3, <1>6, <1>10, <2>1 DEF FragmentsTyped
  <2>3. NotFull(k, b)
    <3>. SUFFICES ASSUME NEW m \in Proper, Key[m] = k, DOMAIN b.frags = 0 .. Chunks[m] - 1
                  PROVE  FALSE
      BY DEF NotFull
    <3>1. b.count = Chunks[m] /\ b.count \in Nat /\ (Chunks[m] - 1 \in DOMAIN b.frags => b.lastSeen)
      BY <1>4, <1>10 DEF SoundBuffer
    <3>2. Chunks[m] >= 1
      BY FragmenterAssumption DEF Proper
    <3>3. b.lastSeen
      BY <3>1, <3>2
    <3>4. Cardinality(DOMAIN b.frags) = b.count
      BY <1>4, <1>10, <3>1, CompleteIsAll
    <3>. QED
      BY <1>10, <3>3, <3>4 DEF Complete
  <2>4. \A j \in DOMAIN buffers' : SoundBuffer(j, buffers'[j], arrivals') /\ NotFull(j, buffers'[j])
    BY <1>4, <1>7, <1>10, <2>1, <2>3
  <2>5. BuffersSound'
    BY <1>3, <1>10, <2>4 DEF BuffersSound, SoundBuffer, NotFull
  <2>6. Intact' /\ Timely' /\ ReturnsPaidFor'
    BY <1>8, <1>10 DEF Intact, Timely, ReturnsPaidFor
  <2>. QED
    BY <2>2, <2>5, <2>6 DEF FragmenterInv
<1>11. CASE ~Expired(b) /\ Complete(b, f) /\ Finish(k, b)
  <2>. DEFINE parts == [i \in 0 .. b.count - 1 |-> b.frags[i]]
  <2>1. /\ Delete(k) /\ output' = [key |-> k, parts |-> parts]
        /\ returns' = [returns EXCEPT ![k] = returns[k] + 1]
    BY <1>11 DEF Finish, Joined
  <2>2. SoundBuffer(k, b, arrivals') /\ DOMAIN b.frags = 0 .. b.count - 1 /\ b.count \in Nat
    <3>1. SoundBuffer(k, b, arrivals') /\ Cardinality(DOMAIN b.frags) = b.count
      BY <1>4, <1>11 DEF Complete
    <3>2. DOMAIN b.frags = 0 .. b.count - 1
      BY <3>1, CompleteIsAll
    <3>3. b.count \in Nat
      BY <3>1 DEF SoundBuffer
    <3>. QED
      BY <3>1, <3>2, <3>3
  <2>3. /\ DOMAIN parts = 0 .. b.count - 1 /\ \A i \in 0 .. b.count - 1 : parts[i] = b.frags[i]
        /\ output'.key = k /\ output'.parts = parts
    BY <2>1
  <2>. HIDE DEF parts
  <2>4. /\ DOMAIN buffers' \subseteq DOMAIN buffers \ {k} /\ \A j \in DOMAIN buffers' : buffers'[j] = buffers[j]
    BY <2>1 DEF Delete, Restrict
  <2>5. returns' \in [Keys -> Nat] /\ \A j \in Keys : returns'[j] = IF j = k THEN returns[k] + 1 ELSE returns[j]
    BY <1>1, <1>2, <2>1
  <2>6. FragmentsTyped'
    BY <1>2, <1>3, <1>6, <2>4, <2>5 DEF FragmentsTyped
  <2>7. ASSUME NEW j \in DOMAIN buffers'
        PROVE  SoundBuffer(j, buffers[j], arrivals)' /\ NotFull(j, buffers[j])'
    <3>1. /\ j \in Keys /\ j # k /\ SoundBuffer(j, buffers[j], arrivals') /\ NotFull(j, buffers[j])
          /\ buffers'[j] = buffers[j]
      BY <1>7, <2>4, <2>7
    <3>2. returns'[j] = returns[j]
      BY <2>5, <3>1
    <3>. QED
      BY <1>3, <3>1, <3>2 DEF SoundBuffer, NotFull
  <2>8. BuffersSound'
    BY <2>7 DEF BuffersSound
  <2>9. Intact'
    <3>. SUFFICES ASSUME NEW m \in Proper, k = Key[m]
                  PROVE  /\ DOMAIN parts = 0 .. Chunks[m] - 1
                         /\ \A i \in DOMAIN parts : parts[i].chunk = <<m, i>>
      BY <2>3 DEF Intact
    <3>1. b.count = Chunks[m] /\ \A i \in DOMAIN b.frags : b.frags[i].chunk = <<m, i>>
      BY <2>2 DEF SoundBuffer
    <3>. QED
      BY <2>2, <2>3, <3>1
  <2>10. Timely'
    <3>. SUFFICES ASSUME NEW i \in DOMAIN parts, NEW j \in DOMAIN parts
                  PROVE  parts[i].at <= parts[j].at + Timeout
      BY <2>3 DEF Timely
    <3>1. /\ b.frags[i].at \in Nat /\ b.frags[j].at \in Nat /\ b.created \in Nat
          /\ b.frags[i].at <= b.created + Timeout /\ b.created <= b.frags[j].at
      BY <2>2, <2>3 DEF SoundBuffer
    <3>. QED
      BY <1>2, <2>3, <3>1, SMTT(30)
  <2>11. ReturnsPaidFor'
    <3>. SUFFICES ASSUME NEW m \in Proper, NEW i \in 0 .. Chunks[m] - 1
                  PROVE  returns'[Key[m]] <= arrivals'[<<m, i>>]
      BY DEF ReturnsPaidFor
    <3>1. Key[m] \in Keys /\ arrivals'[<<m, i>>] \in Nat /\ returns[Key[m]] \in Nat
      BY <1>6, <1>8 DEF Keys, Proper
    <3>2. CASE Key[m] = k
      <4>1. i \in DOMAIN b.frags /\ returns[k] < arrivals'[<<m, i>>]
        BY <2>2, <3>2 DEF SoundBuffer
      <4>. QED
        BY <2>5, <3>1, <3>2, <4>1
    <3>3. CASE Key[m] # k
      BY <1>8, <2>5, <3>1, <3>3
    <3>. QED
      BY <3>2, <3>3
  <2>. QED
    BY <2>6, <2>8, <2>9, <2>10, <2>11 DEF FragmenterInv
<1>. QED
  BY <1>5, <1>9, <1>10, <1>11

\* defragment() keeps its promise for every proper message, of any number of
\* chunks, over a link that reorders, duplicates, delays and loses them.
THEOREM ProperIsReassembled == Spec => []Reassembly
<1>1. Init => FragmenterInv
  <2>. SUFFICES ASSUME Init PROVE FragmenterInv
    OBVIOUS
  <2>1. DOMAIN << >> = {}
    OBVIOUS
  <2>2. DOMAIN buffers = {}
    BY <2>1 DEF Init
  <2>3. /\ now = 0 /\ arrivals = [c \in Chunk |-> 0] /\ returns = [k \in Keys |-> 0]
        /\ output = NoPacket
    BY DEF Init
  <2>4. FragmentsTyped
    BY <2>2, <2>3 DEF FragmentsTyped
  <2>5. ASSUME NEW m \in Proper, NEW i \in 0 .. Chunks[m] - 1
        PROVE  returns[Key[m]] <= arrivals[<<m, i>>]
    <3>1. Key[m] \in Keys /\ <<m, i>> \in Chunk
      BY DEF Keys, Chunk, Proper
    <3>. QED
      BY <2>3, <3>1
  <2>. QED
    BY <2>2, <2>3, <2>4, <2>5 DEF FragmenterInv, BuffersSound, Intact, Timely, ReturnsPaidFor
<1>2. FragmenterInv /\ [Next]_vars => FragmenterInv'
  <2>. SUFFICES ASSUME FragmenterInv, [Next]_vars PROVE FragmenterInv'
    OBVIOUS
  <2>1. ASSUME NEW c \in Chunk, Defragment(c)
        PROVE  FragmenterInv'
    BY <2>1, DefragmentInv
  <2>2. CASE Reset
    <3>1. DOMAIN << >> = {}
      OBVIOUS
    <3>2. DOMAIN buffers' = {}
      BY <2>2, <3>1 DEF Reset
    <3>3. output' = NoPacket /\ UNCHANGED <<now, arrivals, returns>>
      BY <2>2 DEF Reset
    <3>. QED
      BY <3>2, <3>3 DEF FragmenterInv, FragmentsTyped, BuffersSound, Intact, Timely, ReturnsPaidFor
  <2>3. CASE Tick
    <3>1. now \in Nat /\ now' = now + 1 /\ UNCHANGED <<arrivals, buffers, output, returns>>
      BY <2>3 DEF Tick, FragmenterInv, FragmentsTyped
    <3>2. ASSUME NEW k \in DOMAIN buffers
          PROVE  SoundBuffer(k, buffers[k], arrivals)' /\ NotFull(k, buffers[k])'
      <4>1. SoundBuffer(k, buffers[k], arrivals) /\ NotFull(k, buffers[k])
        BY DEF FragmenterInv, BuffersSound
      <4>2. \A x \in Nat : x <= now => x <= now'
        BY <3>1
      <4>. QED
        BY <3>1, <4>1, <4>2 DEF SoundBuffer, NotFull
    <3>3. BuffersSound'
      BY <3>1, <3>2 DEF BuffersSound
    <3>. QED
      BY <3>1, <3>3 DEF FragmenterInv, FragmentsTyped, Intact, Timely, ReturnsPaidFor
  <2>4. ASSUME NEW m \in Message, Send(m)
        PROVE  FragmenterInv'
    BY <2>4 DEF Send, FragmenterInv, FragmentsTyped, BuffersSound, SoundBuffer, NotFull, Intact, Timely,
                ReturnsPaidFor
  <2>5. CASE UNCHANGED vars
    BY <2>5 DEF vars, FragmenterInv, FragmentsTyped, BuffersSound, SoundBuffer, NotFull, Intact, Timely,
                ReturnsPaidFor
  <2>. QED
    BY <2>1, <2>2, <2>3, <2>4, <2>5 DEF Next
<1>3. FragmenterInv => Reassembly
  <2>. SUFFICES ASSUME FragmenterInv, NEW m \in Proper, Key[m] \in DOMAIN buffers
                PROVE  Cardinality(DOMAIN buffers[Key[m]].frags) < Chunks[m]
    BY DEF FragmenterInv, Reassembly, NothingStuck
  <2>. DEFINE b == buffers[Key[m]]
  <2>1. SoundBuffer(Key[m], b, arrivals) /\ NotFull(Key[m], b)
    BY DEF FragmenterInv, BuffersSound
  <2>. HIDE DEF b
  <2>2. /\ b.count = Chunks[m] /\ b.count \in Nat /\ DOMAIN b.frags # 0 .. Chunks[m] - 1
        /\ DOMAIN b.frags \subseteq 0 .. b.count - 1
    BY <2>1 DEF SoundBuffer, NotFull
  <2>3. Cardinality(DOMAIN b.frags) \in Nat
    <3>1. PICK n \in Int : n = b.count - 1
      BY <2>2
    <3>2. IsFiniteSet(0 .. n)
      BY FS_Interval
    <3>. QED
      BY <2>2, <3>1, <3>2, FS_Subset, FS_CardinalityType
  <2>4. Cardinality(DOMAIN b.frags) <= b.count /\ Cardinality(DOMAIN b.frags) # b.count
    BY <2>1, <2>2, CompleteIsAll
  <2>. QED
    BY <2>2, <2>3, <2>4 DEF b
<1>. QED
  BY <1>1, <1>2, <1>3, PTL DEF Spec


----------------------------------------------------------------------------
(* WiFiClient: however TCP cuts the stream up, a client that has never     *)
(* given up with cells read is in step with its peer: what it has yet to   *)
(* read is the rest of the body it is in, and then whole frames in order.  *)

Cells == [packet : Packets, kind : {"length", "body"}]

\* The frame of packet p lies after x cells of s.
FrameAt(s, x, p) == /\ \A i \in 1..2 : s[x + i] = Cell(p, "length")
                    /\ \A i \in 3..(2 + Body[p]) : s[x + i] = Cell(p, "body")

\* s ends with the frames of the packets from first to last; at[p] cells of it
\* come before the frame of packet p.
FramesLie(at, s, first, last) ==
    /\ at[last + 1] = Len(s)
    /\ \A p, q \in first..(last + 1) : p < q => at[p] + 2 + Body[p] <= at[q]
    /\ \A p \in first..last : at[p + 1] = at[p] + 2 + Body[p] /\ FrameAt(s, at[p], p)

\* The same after rest cells of the body of packet first - 1.
FramesAfter(rest, s, first, last) ==
    /\ \A i \in 1..rest : s[i] = Cell(first - 1, "body")
    /\ \E at \in [first..(last + 1) -> 0..Len(s)] : at[first] = rest /\ FramesLie(at, s, first, last)

\* The first packet of which no cell has been read, and how many cells of the
\* body before it are still to come.
Ahead == IF rx.pc = "out" THEN next ELSE next + 1
Rest  == IF rx.pc = "out" THEN 0 ELSE Body[next] - Len(rx.buf)

Aligned ==
    /\ next \in 1..(wifiSent + 1)
    /\ rx.pc = "body" => /\ next <= wifiSent /\ rx.length = Body[next]
                         /\ Len(rx.buf) <= Body[next]
                         /\ \A i \in 1..Len(rx.buf) : rx.buf[i] = Cell(next, "body")
    /\ FramesAfter(Rest, stream, Ahead, wifiSent)

WifiTyped ==
    /\ socket \in BOOLEAN /\ cut \in BOOLEAN /\ wifiSent \in 0..Len(Body) /\ next \in Nat
    /\ stream \in Seq(Cells)
    /\ rx \in [pc : {"out", "body"}, length : 0..MaxLength, buf : Seq(Cells)]
    /\ rx.pc = "body" => socket

WifiInv == WifiTyped /\ InStep /\ (~cut => Aligned)

\* A packet has a body of at least one cell.
LEMMA BodyLength ==
    ASSUME NEW p \in 1..Len(Body)
    PROVE  p \in Nat /\ p \in Packets /\ Body[p] \in 1..MaxLength /\ Body[p] \in Nat /\ Body[p] > 0
BY WifiAssumption DEF Packets

\* What is read leaves the rest of the stream, each cell n places earlier.
LEMMA StreamMoves ==
    ASSUME NEW s \in Seq(Cells), NEW n \in 0..Len(s)
    PROVE  /\ SubSeq(s, n + 1, Len(s)) \in Seq(Cells) /\ Len(SubSeq(s, n + 1, Len(s))) = Len(s) - n
           /\ \A i \in 1..(Len(s) - n) : SubSeq(s, n + 1, Len(s))[i] = s[i + n]
OBVIOUS

LEMMA ApartMoves ==
    ASSUME NEW x \in Int, NEW y \in Int, NEW k \in Int, NEW n \in Int
    PROVE  /\ x + 2 + k <= y => (x - n) + 2 + k <= y - n
           /\ y = x + 2 + k => y - n = (x - n) + 2 + k
OBVIOUS

LEMMA WindowMoves ==
    ASSUME NEW s, NEW t, NEW len \in Nat, NEW n \in Nat, NEW x \in Nat, NEW k \in Nat,
           \A i \in 1..(len - n) : t[i] = s[i + n], n <= x, x + 2 + k <= len
    PROVE  \A i \in 1..(2 + k) : t[(x - n) + i] = s[x + i]
<1>. SUFFICES ASSUME NEW i \in 1..(2 + k)
              PROVE  t[(x - n) + i] = s[x + i]
  OBVIOUS
<1>1. (x - n) + i \in 1..(len - n) /\ (x - n) + i + n = x + i
  OBVIOUS
<1>. QED
  BY <1>1

\* A copy of a frame is a frame.
LEMMA FrameCopied ==
    ASSUME NEW s, NEW t, NEW x, NEW y, NEW p, Body[p] \in Nat, FrameAt(s, x, p),
           \A i \in 1..(2 + Body[p]) : t[y + i] = s[x + i]
    PROVE  FrameAt(t, y, p)
<1>1. \A i \in 1..2 : i \in 1..(2 + Body[p])
  OBVIOUS
<1>2. \A i \in 3..(2 + Body[p]) : i \in 1..(2 + Body[p])
  OBVIOUS
<1>. QED
  BY <1>1, <1>2 DEF FrameAt

\* Reading n cells that come before the frames moves them.
LEMMA FramesShift ==
    ASSUME NEW s \in Seq(Cells), NEW last \in 0..Len(Body), NEW first \in 1..(last + 1),
           NEW n \in 0..Len(s), NEW at, FramesLie(at, s, first, last),
           \A p \in first..(last + 1) : at[p] \in n..Len(s),
           NEW t, t = SubSeq(s, n + 1, Len(s))
    PROVE  \E b \in [first..(last + 1) -> 0..Len(t)] :
             b[first] = at[first] - n /\ FramesLie(b, t, first, last)
<1>. DEFINE b == [p \in first..(last + 1) |-> at[p] - n]
<1>1. /\ first \in Nat /\ last \in Nat /\ Len(s) \in Nat /\ n \in Int /\ n \in Nat /\ n <= Len(s)
      /\ first \in first..(last + 1)
  BY WifiAssumption
<1>2. Len(t) = Len(s) - n /\ \A i \in 1..(Len(s) - n) : t[i] = s[i + n]
  BY StreamMoves
<1>3. \A p \in first..last : /\ p \in first..(last + 1) /\ p + 1 \in first..(last + 1)
                             /\ Body[p] \in Nat /\ Body[p] \in Int
  <2>. SUFFICES ASSUME NEW p \in first..last
                PROVE  /\ p \in first..(last + 1) /\ p + 1 \in first..(last + 1)
                       /\ p \in 1..Len(Body)
    BY BodyLength
  <2>. QED
    BY <1>1, WifiAssumption
<1>4. \A p \in first..(last + 1) : at[p] \in Int /\ at[p] \in Nat /\ n <= at[p] /\ at[p] <= Len(s)
  BY <1>1
<1>5. b \in [first..(last + 1) -> 0..Len(t)]
  <2>1. \A p \in first..(last + 1) : at[p] - n \in 0..Len(t)
    BY <1>1, <1>2, <1>4
  <2>. QED
    BY <2>1
<1>6. \A p \in first..(last + 1) : b[p] = at[p] - n
  OBVIOUS
<1>7. b[first] = at[first] - n /\ b[last + 1] = Len(t)
  BY <1>1, <1>2 DEF FramesLie
<1>. HIDE DEF b
<1>8. ASSUME NEW p \in first..(last + 1), NEW q \in first..(last + 1), p < q
      PROVE  b[p] + 2 + Body[p] <= b[q]
  <2>1. p \in first..last
    BY <1>1, <1>8
  <2>2. at[p] + 2 + Body[p] <= at[q]
    BY <1>8 DEF FramesLie
  <2>3. PICK x \in Int : x = at[p]
    BY <1>4
  <2>4. PICK y \in Int : y = at[q]
    BY <1>4
  <2>5. PICK k \in Int : k = Body[p]
    BY <1>3, <2>1
  <2>6. (x - n) + 2 + k <= y - n
    BY <1>1, <2>2, <2>3, <2>4, <2>5, ApartMoves
  <2>7. b[p] = x - n /\ b[q] = y - n
    BY <1>6, <2>3, <2>4
  <2>. QED
    BY <2>5, <2>6, <2>7
<1>9. ASSUME NEW p \in first..last
      PROVE  b[p + 1] = b[p] + 2 + Body[p] /\ FrameAt(t, b[p], p)
  <2>1. at[p + 1] = at[p] + 2 + Body[p] /\ FrameAt(s, at[p], p)
    BY DEF FramesLie
  <2>2. PICK x \in Nat : x = at[p]
    BY <1>3, <1>4
  <2>3. PICK k \in Nat : k = Body[p]
    BY <1>3
  <2>4. b[p] = x - n /\ b[p + 1] = at[p + 1] - n
    BY <1>3, <1>6, <2>2
  <2>5. at[p + 1] = x + 2 + k /\ n <= x /\ at[p + 1] <= Len(s)
    BY <1>3, <1>4, <2>1, <2>2, <2>3
  <2>6. (x + 2 + k) - n = (x - n) + 2 + k
    BY <1>1
  <2>7. b[p + 1] = b[p] + 2 + k
    BY <2>4, <2>5, <2>6
  <2>8. x + 2 + k <= Len(s)
    BY <2>5
  <2>9. \A i \in 1..(2 + k) : t[(x - n) + i] = s[x + i]
    BY <1>1, <1>2, <2>5, <2>8, WindowMoves
  <2>10. FrameAt(t, x - n, p)
    BY <2>1, <2>2, <2>3, <2>9, FrameCopied, ZenonT(40)
  <2>. QED
    BY <2>3, <2>4, <2>7, <2>10
<1>10. FramesLie(b, t, first, last)
  BY <1>7, <1>8, <1>9 DEF FramesLie
<1>. QED
  BY <1>5, <1>7, <1>10

\* No frame comes before the first one.
LEMMA FramesAbove ==
    ASSUME NEW s \in Seq(Cells), NEW last \in 0..Len(Body), NEW first \in 1..(last + 1),
           NEW at \in [first..(last + 1) -> 0..Len(s)], FramesLie(at, s, first, last),
           NEW p \in first..(last + 1)
    PROVE  at[p] >= at[first] /\ (p # first => first <= last /\ at[p] >= at[first] + 2 + Body[first])
<1>1. first \in Nat /\ last \in Nat /\ Len(s) \in Nat /\ p \in Nat /\ first \in first..(last + 1)
  BY WifiAssumption
<1>2. at[p] \in Nat /\ at[first] \in Nat
  BY <1>1
<1>3. CASE p = first
  BY <1>2, <1>3
<1>4. CASE p # first
  <2>1. first \in 1..Len(Body) /\ first < p /\ first <= last
    BY <1>1, <1>4, WifiAssumption
  <2>2. at[first] + 2 + Body[first] <= at[p] /\ Body[first] \in Nat
    BY <1>1, <2>1, BodyLength DEF FramesLie
  <2>. QED
    BY <1>2, <2>1, <2>2
<1>. QED
  BY <1>3, <1>4

\* Reading n of the cells of a body moves the frames after it.
LEMMA FramesMove ==
    ASSUME NEW s \in Seq(Cells), NEW last \in 0..Len(Body), NEW first \in 1..(last + 1),
           NEW rest \in Nat, NEW n \in 0..rest, FramesAfter(rest, s, first, last)
    PROVE  /\ n <= Len(s) /\ \A i \in 1..n : s[i] = Cell(first - 1, "body")
           /\ FramesAfter(rest - n, SubSeq(s, n + 1, Len(s)), first, last)
<1>1. PICK at \in [first..(last + 1) -> 0..Len(s)] : at[first] = rest /\ FramesLie(at, s, first, last)
  BY DEF FramesAfter
<1>2. PICK t : t = SubSeq(s, n + 1, Len(s))
  OBVIOUS
<1>3. /\ first \in Nat /\ last \in Nat /\ Len(s) \in Nat /\ n \in Nat /\ n <= rest
      /\ first \in first..(last + 1)
  BY WifiAssumption
<1>4. rest <= Len(s) /\ n \in 0..Len(s)
  BY <1>1, <1>3
<1>5. \A p \in first..(last + 1) : at[p] \in n..Len(s)
  <2>. SUFFICES ASSUME NEW p \in first..(last + 1)
                PROVE  at[p] \in n..Len(s)
    OBVIOUS
  <2>1. at[p] \in 0..Len(s) /\ at[p] >= rest
    BY <1>1, FramesAbove
  <2>. QED
    BY <1>3, <2>1
<1>6. PICK b \in [first..(last + 1) -> 0..Len(t)] : b[first] = rest - n /\ FramesLie(b, t, first, last)
  BY <1>1, <1>2, <1>4, <1>5, FramesShift, ZenonT(60)
<1>7. \A i \in 1..(rest - n) : t[i] = Cell(first - 1, "body")
  <2>. SUFFICES ASSUME NEW i \in 1..(rest - n)
                PROVE  t[i] = Cell(first - 1, "body")
    OBVIOUS
  <2>1. i \in 1..(Len(s) - n) /\ i + n \in 1..rest
    BY <1>3, <1>4
  <2>2. t[i] = s[i + n]
    BY <1>2, <1>4, <2>1, StreamMoves
  <2>. QED
    BY <2>1, <2>2 DEF FramesAfter
<1>8. FramesAfter(rest - n, t, first, last)
  BY <1>6, <1>7 DEF FramesAfter
<1>9. \A i \in 1..n : s[i] = Cell(first - 1, "body")
  BY <1>3 DEF FramesAfter
<1>. QED
  BY <1>2, <1>4, <1>8, <1>9

\* The frame of the next packet comes after all the others.
LEMMA FramesGrow ==
    ASSUME NEW s \in Seq(Cells), NEW last \in Nat, last + 1 \in Packets, NEW first \in 1..(last + 1),
           NEW rest \in Nat, FramesAfter(rest, s, first, last)
    PROVE  FramesAfter(rest, s \o Frame(last + 1), first, last + 1)
<1>1. PICK at \in [first..(last + 1) -> 0..Len(s)] : at[first] = rest /\ FramesLie(at, s, first, last)
  BY DEF FramesAfter
<1>2. PICK new \in 1..Len(Body) : new = last + 1
  BY WifiAssumption DEF Packets
<1>3. /\ new \in Nat /\ first \in Nat /\ first \in 1..new /\ Body[new] \in Nat /\ Body[new] > 0
      /\ Len(s) \in Nat /\ last = new - 1 /\ new \in Packets
  BY <1>2, BodyLength
<1>. DEFINE t == s \o Frame(new)
            b == [p \in first..(new + 1) |-> IF p = new + 1 THEN Len(s) + 2 + Body[new] ELSE at[p]]
<1>4. /\ Frame(new) \in Seq(Cells) /\ Len(Frame(new)) = 2 + Body[new]
      /\ FrameAt(Frame(new), 0, new)
  <2>. DEFINE len == <<Cell(new, "length"), Cell(new, "length")>>
              body == [i \in 1..Body[new] |-> Cell(new, "body")]
  <2>1. Cell(new, "length") \in Cells /\ Cell(new, "body") \in Cells
    BY <1>3 DEF Cell, Cells
  <2>2. len \in Seq(Cells) /\ Len(len) = 2 /\ len[1] = Cell(new, "length") /\ len[2] = Cell(new, "length")
    BY <2>1
  <2>3. body \in Seq(Cells) /\ Len(body) = Body[new] /\ \A i \in 1..Body[new] : body[i] = Cell(new, "body")
    BY <1>3, <2>1, SMTT(30)
  <2>4. Frame(new) = len \o body
    BY DEF Frame
  <2>. HIDE DEF len, body
  <2>5. /\ len \o body \in Seq(Cells) /\ Len(len \o body) = Len(len) + Len(body)
        /\ \A i \in 1..(Len(len) + Len(body)) :
              (len \o body)[i] = IF i <= Len(len) THEN len[i] ELSE body[i - Len(len)]
    BY <2>2, <2>3, ConcatProperties
  <2>6. ASSUME NEW i \in 1..2
        PROVE  (len \o body)[0 + i] = Cell(new, "length")
    BY <1>3, <2>2, <2>3, <2>5, SMTT(30)
  <2>7. ASSUME NEW i \in 3..(2 + Body[new])
        PROVE  (len \o body)[0 + i] = Cell(new, "body")
    <3>1. i \in Nat /\ i > 2 /\ i <= 2 + Body[new] /\ i - 2 \in 1..Body[new] /\ 0 + i = i
      BY <1>3
    <3>. QED
      BY <1>3, <2>2, <2>3, <2>5, <3>1, SMTT(30)
  <2>. QED
    BY <1>3, <2>2, <2>3, <2>4, <2>5, <2>6, <2>7 DEF FrameAt
<1>5. /\ t \in Seq(Cells) /\ Len(t) = Len(s) + 2 + Body[new]
      /\ \A i \in 1..Len(s) : t[i] = s[i]
      /\ \A i \in 1..(2 + Body[new]) : t[Len(s) + i] = Frame(new)[i]
  <2>1. /\ t \in Seq(Cells) /\ Len(t) = Len(s) + Len(Frame(new))
        /\ \A i \in 1..(Len(s) + Len(Frame(new))) :
              t[i] = IF i <= Len(s) THEN s[i] ELSE Frame(new)[i - Len(s)]
    BY <1>4, ConcatProperties
  <2>2. Len(t) = Len(s) + 2 + Body[new]
    BY <1>3, <1>4, <2>1, SMTT(30)
  <2>. HIDE DEF t
  <2>3. ASSUME NEW i \in 1..Len(s)
        PROVE  t[i] = s[i]
    <3>1. i \in 1..(Len(s) + Len(Frame(new))) /\ i <= Len(s)
      BY <1>3, <1>4, SMTT(30)
    <3>. QED
      BY <2>1, <3>1
  <2>4. ASSUME NEW i \in 1..(2 + Body[new])
        PROVE  t[Len(s) + i] = Frame(new)[i]
    <3>1. /\ Len(s) + i \in 1..(Len(s) + Len(Frame(new))) /\ ~(Len(s) + i <= Len(s))
          /\ (Len(s) + i) - Len(s) = i
      BY <1>3, <1>4, SMTT(30)
    <3>. QED
      BY <2>1, <3>1
  <2>. QED
    BY <2>1, <2>2, <2>3, <2>4
<1>. HIDE DEF t
<1>6. at[new] = Len(s) /\ \A p \in first..new : at[p] \in 0..Len(s)
  BY <1>1, <1>2, <1>3 DEF FramesLie
<1>7. b \in [first..(new + 1) -> 0..Len(t)]
  <2>1. \A p \in first..(new + 1) : p # new + 1 => p \in first..new
    BY <1>3
  <2>2. \A p \in first..new : at[p] \in 0..Len(t)
    BY <1>3, <1>5, <1>6
  <2>3. Len(s) + 2 + Body[new] \in 0..Len(t)
    BY <1>3, <1>5
  <2>. QED
    BY <2>1, <2>2, <2>3
<1>8. (\A p \in first..new : b[p] = at[p]) /\ b[new + 1] = Len(s) + 2 + Body[new]
  BY <1>3
<1>. HIDE DEF b
<1>9. b[first] = rest /\ b[new + 1] = Len(t)
  BY <1>1, <1>3, <1>5, <1>8
<1>10. ASSUME NEW p \in first..(new + 1), NEW q \in first..(new + 1), p < q
       PROVE  b[p] + 2 + Body[p] <= b[q]
  <2>1. p \in first..new /\ b[p] = at[p] /\ at[p] \in Nat /\ p \in 1..Len(Body) /\ Body[p] \in Nat
    BY <1>3, <1>6, <1>8, <1>10, BodyLength
  <2>2. CASE q # new + 1
    <3>1. q \in first..new
      BY <1>3, <2>2
    <3>2. at[p] + 2 + Body[p] <= at[q]
      BY <1>1, <1>2, <1>10, <2>1, <3>1 DEF FramesLie
    <3>. QED
      BY <1>8, <2>1, <3>1, <3>2
  <2>3. CASE q = new + 1
    <3>1. CASE p = new
      BY <1>6, <1>8, <2>1, <2>3, <3>1, SMTT(30)
    <3>2. CASE p # new
      <4>1. at[p] + 2 + Body[p] <= Len(s)
        BY <1>1, <1>2, <1>3, <1>6, <2>1, <3>2 DEF FramesLie
      <4>2. b[q] = Len(s) + 2 + Body[new]
        BY <1>8, <2>3
      <4>3. PICK x \in Int : x = at[p] + 2 + Body[p]
        BY <2>1, SMTT(30)
      <4>4. PICK y \in Nat : y = Body[new]
        BY <1>3
      <4>5. x <= Len(s) + 2 + y
        BY <1>3, <4>1, <4>3
      <4>. QED
        BY <2>1, <4>2, <4>3, <4>4, <4>5
    <3>. QED
      BY <3>1, <3>2
  <2>. QED
    BY <2>2, <2>3
<1>11. ASSUME NEW p \in first..new
       PROVE  b[p + 1] = b[p] + 2 + Body[p] /\ FrameAt(t, b[p], p)
  <2>1. b[p] = at[p] /\ at[p] \in Nat /\ Body[p] \in Nat /\ p \in Nat
    BY <1>3, <1>6, <1>8, BodyLength, SMTT(30)
  <2>2. CASE p = new
    <3>1. ASSUME NEW i \in 1..(2 + Body[p])
          PROVE  t[b[p] + i] = Frame(new)[0 + i]
      <4>1. b[p] = Len(s) /\ i \in 1..(2 + Body[new]) /\ 0 + i = i
        BY <1>6, <2>1, <2>2
      <4>. QED
        BY <1>5, <4>1
    <3>2. FrameAt(t, b[p], p)
      BY <1>4, <2>1, <2>2, <3>1, FrameCopied
    <3>. QED
      BY <1>6, <1>8, <2>1, <2>2, <3>2
  <2>3. CASE p # new
    <3>1. p \in first..last /\ p + 1 \in first..new
      BY <1>3, <2>1, <2>3
    <3>2. at[p + 1] = at[p] + 2 + Body[p] /\ FrameAt(s, at[p], p)
      BY <1>1, <3>1 DEF FramesLie
    <3>3. b[p + 1] = at[p + 1] /\ at[p + 1] \in Nat /\ at[p + 1] <= Len(s)
      BY <1>3, <1>6, <1>8, <3>1
    <3>4. at[p] + 2 + Body[p] <= Len(s)
      BY <3>2, <3>3
    <3>5. \A i \in 1..(2 + Body[p]) : t[at[p] + i] = s[at[p] + i]
      <4>. SUFFICES ASSUME NEW i \in 1..(2 + Body[p])
                    PROVE  t[at[p] + i] = s[at[p] + i]
        OBVIOUS
      <4>1. PICK x \in Nat : x = at[p]
        BY <2>1
      <4>2. PICK k \in Nat : k = Body[p]
        BY <2>1
      <4>3. x + 2 + k <= Len(s) /\ i \in 1..(2 + k)
        BY <3>4, <4>1, <4>2
      <4>4. i \in Int /\ 1 <= i /\ i <= 2 + k
        BY <4>3
      <4>5. 1 <= x + i /\ x + i <= x + 2 + k
        BY <4>4
      <4>6. x + i \in Int /\ x + i <= Len(s)
        BY <1>3, <4>3, <4>4, <4>5
      <4>7. at[p] + i \in 1..Len(s)
        BY <1>3, <4>1, <4>5, <4>6
      <4>. QED
        BY <1>5, <4>7
    <3>6. FrameAt(t, b[p], p)
      BY <2>1, <3>2, <3>5, FrameCopied
    <3>. QED
      BY <2>1, <3>2, <3>3, <3>6
  <2>. QED
    BY <2>2, <2>3
<1>12. FramesLie(b, t, first, new)
  BY <1>9, <1>10, <1>11 DEF FramesLie
<1>13. \A i \in 1..rest : t[i] = Cell(first - 1, "body")
  <2>1. rest <= Len(s)
    BY <1>1, <1>3, <1>6
  <2>. QED
    BY <1>3, <1>5, <2>1 DEF FramesAfter
<1>14. FramesAfter(rest, t, first, new)
  BY <1>7, <1>9, <1>12, <1>13 DEF FramesAfter
<1>. QED
  BY <1>2, <1>14 DEF t

\* A client out of receive() that finds two cells finds the length of the next
\* packet, and then its body.
LEMMA FrameFirst ==
    ASSUME NEW s \in Seq(Cells), NEW last \in 0..Len(Body), NEW first \in 1..(last + 1),
           FramesAfter(0, s, first, last), Len(s) >= 2
    PROVE  /\ first <= last /\ s[1] = Cell(first, "length") /\ s[2] = Cell(first, "length")
           /\ FramesAfter(Body[first], SubSeq(s, 3, Len(s)), first + 1, last)
<1>1. PICK at \in [first..(last + 1) -> 0..Len(s)] : at[first] = 0 /\ FramesLie(at, s, first, last)
  BY DEF FramesAfter
<1>2. first \in Nat /\ last \in Nat /\ Len(s) \in Nat /\ last <= Len(Body) /\ Len(Body) \in Nat
  BY WifiAssumption
<1>3. first <= last
  BY <1>1, <1>2 DEF FramesLie
<1>4. first \in first..last /\ first \in 1..Len(Body) /\ Body[first] \in Nat
  BY <1>2, <1>3, BodyLength
<1>5. at[first + 1] = 2 + Body[first] /\ FrameAt(s, 0, first)
  <2>1. at[first + 1] = at[first] + 2 + Body[first] /\ FrameAt(s, at[first], first)
    BY <1>1, <1>4 DEF FramesLie
  <2>. QED
    BY <1>1, <1>4, <2>1
<1>6. 2 + Body[first] <= Len(s) /\ 2 \in 0..Len(s)
  BY <1>1, <1>2, <1>3, <1>5
<1>7. PICK n \in 0..Len(s) : n = 2
  BY <1>6
<1>8. PICK t : t = SubSeq(s, n + 1, Len(s))
  OBVIOUS
<1>9. PICK new \in 1..(last + 1) : new = first + 1
  BY <1>2, <1>3
<1>10. FramesLie(at, s, new, last)
  <2>1. /\ \A p \in new..last : p \in first..last
        /\ \A p \in new..(last + 1) : p \in first..(last + 1)
    BY <1>2, <1>9
  <2>. QED
    BY <1>1, <2>1 DEF FramesLie
<1>11. \A p \in new..(last + 1) : at[p] \in n..Len(s)
  <2>. SUFFICES ASSUME NEW p \in new..(last + 1)
                PROVE  at[p] \in n..Len(s)
    OBVIOUS
  <2>1. p \in first..(last + 1) /\ p # first
    BY <1>2, <1>9, SMTT(30)
  <2>2. at[p] \in 0..Len(s) /\ at[p] >= at[first] + 2 + Body[first]
    BY <1>1, <2>1, FramesAbove
  <2>. QED
    BY <1>1, <1>2, <1>4, <1>7, <2>2
<1>12. PICK b \in [new..(last + 1) -> 0..Len(t)] : b[new] = at[new] - n /\ FramesLie(b, t, new, last)
  BY <1>8, <1>10, <1>11, FramesShift, ZenonT(60)
<1>13. b[new] = Body[first]
  BY <1>4, <1>5, <1>7, <1>9, <1>12, SMTT(30)
<1>14. \A i \in 1..Body[first] : t[i] = Cell(new - 1, "body")
  <2>. SUFFICES ASSUME NEW i \in 1..Body[first]
                PROVE  t[i] = Cell(first, "body")
    BY <1>2, <1>9, SMTT(30)
  <2>1. i \in 1..(Len(s) - 2) /\ i + 2 \in 3..(2 + Body[first])
    BY <1>2, <1>4, <1>6, SMTT(30)
  <2>2. t[i] = s[i + 2]
    BY <1>7, <1>8, <2>1, StreamMoves
  <2>3. s[0 + (i + 2)] = Cell(first, "body")
    BY <1>5, <2>1 DEF FrameAt
  <2>. QED
    BY <2>1, <2>2, <2>3
<1>15. FramesAfter(Body[first], t, new, last)
  BY <1>12, <1>13, <1>14 DEF FramesAfter
<1>16. s[1] = Cell(first, "length") /\ s[2] = Cell(first, "length")
  BY <1>5 DEF FrameAt
<1>. QED
  BY <1>7, <1>3, <1>8, <1>9, <1>15, <1>16

\* Reading keeps the types.
LEMMA WifiTypes ==
    ASSUME WifiTyped, WifiNext \/ UNCHANGED wifiVars
    PROVE  WifiTyped'
<1>1. \A n \in Nat : Take(n) /\ n <= Len(stream) => stream' \in Seq(Cells)
  <2>. SUFFICES ASSUME NEW n \in Nat, Take(n), n <= Len(stream)
                PROVE  stream' \in Seq(Cells)
    OBVIOUS
  <2>. QED
    BY StreamMoves DEF Take, WifiTyped
<1>2. MaxLength \in Nat
  BY WifiAssumption
<1>3. Outside \in [pc : {"out", "body"}, length : 0..MaxLength, buf : Seq(Cells)]
  BY <1>2 DEF Outside
<1>4. CASE Connect
  <2>1. << >> \in Seq(Cells) /\ 0 \in 0..Len(Body) /\ 1 \in Nat
    BY WifiAssumption
  <2>. QED
    BY <1>4, <2>1 DEF Connect, WifiTyped
<1>5. CASE Close
  BY <1>5 DEF Close, WifiTyped
<1>6. CASE PeerSends
  <2>1. wifiSent + 1 \in Packets /\ wifiSent + 1 \in 0..Len(Body)
    BY <1>6, WifiAssumption DEF PeerSends, Packets, WifiTyped
  <2>2. Frame(wifiSent + 1) \in Seq(Cells)
    <3>1. PICK p \in 1..Len(Body) : p = wifiSent + 1
      BY <2>1, WifiAssumption DEF Packets
    <3>2. Cell(p, "length") \in Cells /\ Cell(p, "body") \in Cells /\ Body[p] \in Nat
      BY BodyLength DEF Cell, Cells
    <3>3. <<Cell(p, "length"), Cell(p, "length")>> \in Seq(Cells)
      BY <3>2
    <3>4. [i \in 1..Body[p] |-> Cell(p, "body")] \in Seq(Cells)
      BY <3>2
    <3>. QED
      BY <3>1, <3>3, <3>4, ConcatProperties DEF Frame
  <2>3. stream' \in Seq(Cells)
    BY <1>6, <2>2, ConcatProperties DEF PeerSends, WifiTyped
  <2>. QED
    BY <1>6, <2>1, <2>3 DEF PeerSends, WifiTyped
<1>7. CASE \E n \in 0..2 : ReadLength(n)
  <2>1. PICK n \in 0..2 : ReadLength(n)
    BY <1>7
  <2>2. stream' \in Seq(Cells)
    BY <1>1, <2>1 DEF ReadLength
  <2>3. CASE n < 2
    BY <1>3, <2>1, <2>2, <2>3 DEF ReadLength, Return, WifiTyped
  <2>4. CASE ~(n < 2)
    <3>1. PICK length \in LengthOf(stream) : rx' = [pc |-> "body", length |-> length, buf |-> << >>]
      BY <2>1, <2>4 DEF ReadLength
    <3>2. length \in 0..MaxLength
      <4>1. Len(stream) >= 2 /\ stream[1] \in Cells
        BY <2>1, <2>4 DEF ReadLength, WifiTyped
      <4>2. stream[1].packet \in 1..Len(Body)
        BY <4>1, WifiAssumption DEF Cells, Packets
      <4>3. Body[stream[1].packet] \in 0..MaxLength
        BY <1>2, <4>2, BodyLength
      <4>. QED
        BY <4>3 DEF LengthOf
    <3>. QED
      BY <2>1, <2>2, <2>4, <3>1, <3>2 DEF ReadLength, WifiTyped
  <2>. QED
    BY <2>3, <2>4
<1>8. CASE \E n \in 1..MaxLength : ReadBody(n)
  <2>1. PICK n \in 1..MaxLength : ReadBody(n)
    BY <1>8
  <2>2. n \in Nat /\ n <= Len(stream)
    BY <1>2, <2>1 DEF ReadBody
  <2>3. stream' \in Seq(Cells)
    BY <1>1, <2>1, <2>2 DEF ReadBody
  <2>4. SubSeq(stream, 1, n) \in Seq(Cells)
    BY <2>2 DEF WifiTyped
  <2>5. rx.buf \o SubSeq(stream, 1, n) \in Seq(Cells)
    BY <2>4, ConcatProperties DEF WifiTyped
  <2>. QED
    BY <2>1, <2>3, <2>5 DEF ReadBody, WifiTyped
<1>9. CASE HaveBody
  BY <1>3, <1>9 DEF HaveBody, Return, WifiTyped
<1>10. CASE GiveUp
  BY <1>3, <1>10 DEF GiveUp, Return, WifiTyped
<1>11. CASE UNCHANGED wifiVars
  BY <1>11 DEF wifiVars, WifiTyped
<1>. QED
  BY <1>4, <1>5, <1>6, <1>7, <1>8, <1>9, <1>10, <1>11 DEF WifiNext

\* No step gets the client out of step, and what it returns is the next body.
LEMMA WifiStays ==
    ASSUME WifiInv, WifiNext \/ UNCHANGED wifiVars
    PROVE  InStep' /\ (~cut' => Aligned')
<1>. USE DEF WifiInv
<1>1. WifiTyped'
  BY WifiTypes
<1>2. /\ next \in Nat /\ wifiSent \in Nat /\ Len(stream) \in Nat /\ Len(rx.buf) \in Nat
      /\ wifiSent \in 0..Len(Body) /\ Len(Body) \in Nat
  BY WifiAssumption DEF WifiTyped
<1>3. ~cut => next \in 1..(wifiSent + 1) /\ (next <= wifiSent => next \in 1..Len(Body))
  BY <1>2 DEF Aligned
<1>4. CASE Connect
  <2>1. /\ got' = << >> /\ rx'.pc = "out" /\ next' = 1 /\ wifiSent' = 0 /\ stream' = << >>
    BY <1>4 DEF Connect, WifiTyped
  <2>2. FramesAfter(0, << >>, 1, 0)
    <3>. DEFINE at == [p \in 1..1 |-> 0]
    <3>1. at \in [1..(0 + 1) -> 0..Len(<< >>)] /\ at[1] = 0
      OBVIOUS
    <3>2. FramesLie(at, << >>, 1, 0)
      BY DEF FramesLie
    <3>. QED
      BY <3>1, <3>2 DEF FramesAfter
  <2>. QED
    BY <2>1, <2>2 DEF InStep, Aligned, Rest, Ahead
<1>5. CASE Close
  BY <1>5 DEF Close, InStep, Aligned, Rest, Ahead
<1>6. CASE PeerSends
  <2>1. InStep'
    BY <1>6 DEF PeerSends, InStep
  <2>2. ASSUME ~cut
        PROVE  Aligned'
    <3>1. /\ Ahead \in 1..(wifiSent + 1) /\ Rest \in Nat /\ wifiSent + 1 \in Packets
          /\ Ahead' = Ahead /\ Rest' = Rest
      <4>1. CASE rx.pc = "out"
        BY <1>2, <1>3, <1>6, <2>2, <4>1 DEF PeerSends, Ahead, Rest
      <4>2. CASE rx.pc # "out"
        <5>1. rx.pc = "body" /\ next <= wifiSent /\ Len(rx.buf) <= Body[next]
          BY <2>2, <4>2 DEF Aligned, WifiTyped
        <5>2. Body[next] \in Nat /\ next + 1 \in 1..(wifiSent + 1)
          BY <1>2, <1>3, <2>2, <5>1, BodyLength
        <5>. QED
          BY <1>2, <1>6, <4>2, <5>1, <5>2 DEF PeerSends, Ahead, Rest
      <4>. QED
        BY <4>1, <4>2
    <3>2. FramesAfter(Rest, stream \o Frame(wifiSent + 1), Ahead, wifiSent + 1)
      BY <1>2, <2>2, <3>1, FramesGrow DEF Aligned, WifiTyped
    <3>. QED
      BY <1>2, <1>6, <2>2, <3>1, <3>2 DEF PeerSends, Aligned
  <2>. QED
    BY <1>6, <2>1, <2>2 DEF PeerSends
<1>7. CASE \E n \in 0..2 : ReadLength(n)
  <2>1. PICK n \in 0..2 : ReadLength(n)
    BY <1>7
  <2>2. CASE n = 0
    <3>1. stream' = stream
      BY <2>1, <2>2 DEF ReadLength, Take, WifiTyped
    <3>2. /\ rx.pc = "out" /\ rx'.pc = "out" /\ got' = << >> /\ next' = next
          /\ cut' = (cut \/ n > 0) /\ wifiSent' = wifiSent
      BY <2>1, <2>2 DEF ReadLength, Return, Outside
    <3>3. ~cut' => ~cut
      BY <3>2
    <3>. QED
      BY <3>1, <3>2, <3>3 DEF InStep, Aligned, Rest, Ahead
  <2>3. CASE n = 1
    <3>1. got' = << >> /\ cut' = (cut \/ n > 0)
      BY <2>1, <2>3 DEF ReadLength, Return
    <3>2. 1 > 0
      OBVIOUS
    <3>3. cut'
      BY <2>3, <3>1, <3>2, Zenon
    <3>. QED
      BY <3>1, <3>3 DEF InStep
  <2>4. CASE n = 2
    <3>1. /\ UNCHANGED <<got, next, cut, wifiSent>> /\ rx.pc = "out" /\ Len(stream) >= 2
          /\ stream' = SubSeq(stream, 3, Len(stream))
      BY <2>1, <2>4 DEF ReadLength, Take
    <3>2. PICK length \in LengthOf(stream) : rx' = [pc |-> "body", length |-> length, buf |-> << >>]
      BY <2>1, <2>4 DEF ReadLength
    <3>3. ASSUME ~cut
          PROVE  Aligned'
      <4>1. FramesAfter(0, stream, next, wifiSent)
        BY <3>1, <3>3 DEF Aligned, Rest, Ahead
      <4>2. /\ next <= wifiSent /\ stream[1] = Cell(next, "length") /\ stream[2] = Cell(next, "length")
            /\ FramesAfter(Body[next], stream', next + 1, wifiSent)
        BY <1>2, <1>3, <3>1, <3>3, <4>1, FrameFirst DEF WifiTyped
      <4>3. length = Body[next]
        BY <4>2 DEF LengthOf, Cell
      <4>4. /\ rx'.pc = "body" /\ rx'.length = Body[next'] /\ Len(rx'.buf) = 0 /\ next' = next
            /\ next \in 1..Len(Body) /\ Body[next] \in Nat /\ Body[next] - 0 = Body[next]
        BY <1>3, <3>1, <3>2, <3>3, <4>2, <4>3, BodyLength
      <4>. QED
        BY <1>3, <3>1, <3>3, <4>2, <4>4 DEF Aligned, Rest, Ahead
    <3>. QED
      BY <3>1, <3>3 DEF InStep
  <2>. QED
    BY <2>2, <2>3, <2>4
<1>8. CASE \E n \in 1..MaxLength : ReadBody(n)
  <2>1. PICK n \in 1..MaxLength : ReadBody(n)
    BY <1>8
  <2>2. /\ UNCHANGED <<got, next, cut, wifiSent>> /\ rx.pc = "body" /\ rx'.pc = "body"
        /\ rx'.length = rx.length /\ rx'.buf = rx.buf \o SubSeq(stream, 1, n)
        /\ stream' = SubSeq(stream, n + 1, Len(stream))
        /\ n \in Nat /\ n <= Len(stream) /\ n <= rx.length - Len(rx.buf)
    <3>1. n \in Nat
      BY WifiAssumption
    <3>2. rx' = [rx EXCEPT !.buf = rx.buf \o SubSeq(stream, 1, n)]
      BY <2>1 DEF ReadBody
    <3>3. /\ rx'.pc = rx.pc /\ rx'.length = rx.length
          /\ rx'.buf = rx.buf \o SubSeq(stream, 1, n)
      BY <3>2 DEF WifiTyped
    <3>. QED
      BY <2>1, <3>1, <3>3 DEF ReadBody, Take
  <2>3. ASSUME ~cut
        PROVE  Aligned'
    <3>1. /\ next \in 1..Len(Body) /\ next <= wifiSent /\ rx.length = Body[next] /\ Body[next] \in Nat
          /\ Len(rx.buf) <= Body[next] /\ Rest = Body[next] - Len(rx.buf) /\ Rest \in Nat
          /\ Ahead = next + 1 /\ n \in 0..Rest /\ next + 1 \in 1..(wifiSent + 1)
          /\ (next + 1) - 1 = next
      BY <1>2, <1>3, <2>2, <2>3, BodyLength DEF Aligned, Rest, Ahead
    <3>2. /\ \A i \in 1..n : stream[i] = Cell(next, "body")
          /\ FramesAfter(Rest - n, stream', next + 1, wifiSent)
      <4>1. PICK first \in 1..(wifiSent + 1) : first = next + 1 /\ first - 1 = next
        BY <3>1
      <4>2. FramesAfter(Rest, stream, first, wifiSent) /\ stream \in Seq(Cells)
        BY <2>3, <3>1, <4>1 DEF Aligned, WifiTyped
      <4>3. /\ \A i \in 1..n : stream[i] = Cell(first - 1, "body")
            /\ FramesAfter(Rest - n, SubSeq(stream, n + 1, Len(stream)), first, wifiSent)
        <5>1. Rest \in Nat /\ n \in 0..Rest /\ wifiSent \in 0..Len(Body)
          BY <1>2, <3>1
        <5>2. PICK rest \in Nat : rest = Rest
          BY <5>1
        <5>3. n \in 0..rest /\ FramesAfter(rest, stream, first, wifiSent)
          BY <4>2, <5>1, <5>2
        <5>4. /\ \A i \in 1..n : stream[i] = Cell(first - 1, "body")
              /\ FramesAfter(rest - n, SubSeq(stream, n + 1, Len(stream)), first, wifiSent)
          BY <4>2, <5>1, <5>3, FramesMove
        <5>. QED
          BY <5>2, <5>4
      <4>. QED
        BY <2>2, <4>1, <4>3
    <3>3. Len(rx'.buf) = Len(rx.buf) + n
      <4>1. SubSeq(stream, 1, n) \in Seq(Cells) /\ Len(SubSeq(stream, 1, n)) = n
        BY <1>2, <2>2 DEF WifiTyped
      <4>. QED
        BY <2>2, <4>1, ConcatProperties DEF WifiTyped
    <3>4. ASSUME NEW i \in 1..Len(rx'.buf)
          PROVE  rx'.buf[i] = Cell(next, "body")
      <4>1. /\ SubSeq(stream, 1, n) \in Seq(Cells) /\ Len(SubSeq(stream, 1, n)) = n
            /\ \A k \in 1..n : SubSeq(stream, 1, n)[k] = stream[k]
        BY <1>2, <2>2 DEF WifiTyped
      <4>2. PICK piece \in Seq(Cells) :
              /\ piece = SubSeq(stream, 1, n) /\ Len(piece) = n
              /\ \A k \in 1..n : piece[k] = stream[k]
        BY <4>1
      <4>3. rx'.buf[i] = IF i <= Len(rx.buf) THEN rx.buf[i] ELSE piece[i - Len(rx.buf)]
        BY <2>2, <3>3, <4>2, ConcatProperties DEF WifiTyped
      <4>4. CASE i <= Len(rx.buf)
        <5>1. i \in 1..Len(rx.buf)
          BY <1>2, <2>2, <3>3, <4>4
        <5>. QED
          BY <2>2, <2>3, <4>3, <4>4, <5>1 DEF Aligned
      <4>5. CASE ~(i <= Len(rx.buf))
        <5>1. i - Len(rx.buf) \in 1..n
          BY <1>2, <2>2, <3>3, <4>5
        <5>. QED
          BY <3>2, <4>2, <4>3, <4>5, <5>1
      <4>. QED
        BY <4>4, <4>5
    <3>5. Rest' = Rest - n /\ Ahead' = next + 1 /\ Len(rx'.buf) <= Body[next]
      BY <1>2, <2>2, <3>1, <3>3 DEF Rest, Ahead
    <3>. QED
      BY <1>3, <2>2, <2>3, <3>1, <3>2, <3>4, <3>5 DEF Aligned
  <2>. QED
    BY <2>2, <2>3 DEF InStep
<1>9. CASE HaveBody
  <2>1. /\ UNCHANGED <<cut, stream, wifiSent>> /\ rx.pc = "body" /\ Len(rx.buf) >= rx.length
        /\ rx'.pc = "out" /\ got' = rx.buf /\ next' = IF rx.buf = << >> THEN next ELSE next + 1
    BY <1>9 DEF HaveBody, Return, Outside
  <2>2. ASSUME ~cut
        PROVE  InStep' /\ Aligned'
    <3>1. /\ next \in 1..Len(Body) /\ next \in Packets /\ next <= wifiSent /\ Body[next] \in Nat
          /\ Body[next] > 0
          /\ Len(rx.buf) <= Body[next] /\ rx.length = Body[next]
      BY <1>2, <1>3, <2>1, <2>2, BodyLength DEF Aligned
    <3>2. Len(rx.buf) = Body[next]
      BY <1>2, <2>1, <3>1
    <3>3. rx.buf = BodyOf(next)
      <4>1. rx.buf \in Seq(Cells) /\ \A i \in 1..Len(rx.buf) : rx.buf[i] = Cell(next, "body")
        BY <2>1, <2>2 DEF Aligned, WifiTyped
      <4>. QED
        BY <3>2, <4>1 DEF BodyOf
    <3>4. next' = next + 1 /\ next' - 1 = next
      BY <1>2, <2>1, <3>1, <3>2
    <3>5. InStep'
      BY <2>1, <3>1, <3>3, <3>4 DEF InStep, BodyOf
    <3>6. Rest = 0 /\ Rest' = 0 /\ Ahead = next + 1 /\ Ahead' = next + 1
      BY <1>2, <2>1, <3>1, <3>2, <3>4 DEF Rest, Ahead
    <3>7. FramesAfter(0, stream', next + 1, wifiSent')
      BY <2>1, <2>2, <3>6 DEF Aligned
    <3>8. next' \in 1..(wifiSent' + 1)
      BY <1>2, <2>1, <3>1, <3>4
    <3>. QED
      BY <2>1, <3>5, <3>6, <3>7, <3>8 DEF Aligned
  <2>. QED
    BY <2>1, <2>2 DEF InStep
<1>10. CASE GiveUp
  BY <1>10 DEF GiveUp, Return, InStep
<1>11. CASE UNCHANGED wifiVars
  BY <1>11 DEF wifiVars, InStep, Aligned, Rest, Ahead
<1>. QED
  BY <1>4, <1>5, <1>6, <1>7, <1>8, <1>9, <1>10, <1>11 DEF WifiNext

\* Until a receive gives up with cells read, what receive returns is the body
\* of the next packet sent, whole and alone, for any packets and any pieces.
THEOREM ReceiveIsInStep == WifiSpec => []InStep
<1>1. WifiInit => WifiInv
  <2>. SUFFICES ASSUME WifiInit
                PROVE  WifiInv
    OBVIOUS
  <2>1. WifiTyped
    <3>1. << >> \in Seq(Cells) /\ 0 \in 0..Len(Body) /\ 1 \in Nat /\ 0 \in 0..MaxLength
      BY WifiAssumption
    <3>. QED
      BY <3>1 DEF WifiInit, WifiTyped, Outside
  <2>2. FramesAfter(0, << >>, 1, 0)
    <3>. DEFINE at == [p \in 1..1 |-> 0]
    <3>1. at \in [1..(0 + 1) -> 0..Len(<< >>)] /\ at[1] = 0
      OBVIOUS
    <3>2. FramesLie(at, << >>, 1, 0)
      BY DEF FramesLie
    <3>. QED
      BY <3>1, <3>2 DEF FramesAfter
  <2>3. rx.pc = "out" /\ next = 1 /\ wifiSent = 0 /\ stream = << >> /\ got = << >>
    BY DEF WifiInit, Outside
  <2>. QED
    BY <2>1, <2>2, <2>3 DEF WifiInv, InStep, Aligned, Rest, Ahead
<1>2. WifiInv /\ [WifiNext]_wifiVars => WifiInv'
  BY WifiTypes, WifiStays DEF WifiInv
<1>3. WifiInv => InStep
  BY DEF WifiInv
<1>. QED
  BY <1>1, <1>2, <1>3, PTL DEF WifiSpec
-----------------------------------------------------------------------------
(* MultiDevice: a route that returns names the devices it should.          *)

Route == [pc : {"idle", "walk", "done", "raised"}, type : ResponseTypes, pass : Nat, pos : Nat,
          size : Nat, targets : Seq(Handles), always : SUBSET Handles, ever : SUBSET Handles,
          moved : BOOLEAN]

FleetTyped ==
    /\ slots \in Seq(Handles \cup {Hole}) /\ status \in [Handles -> Statuses]
    /\ registering \in [Clients -> Handles \cup {Nothing}]
    /\ route \in [Routers -> Route]

\* No id has two entries of the dict.
OneEntry == \A i, j \in DOMAIN slots : /\ slots[i] # Hole /\ slots[j] # Hole
                                      /\ DeviceId[slots[i]] = DeviceId[slots[j]]  => i = j

Chosen(me) == /\ me.type # "HEARTBEAT" \/ ~me.moved => NamedOnce(me)
              /\ \A h \in Range(me.targets) : h \in me.ever /\ CanTake(h, me.type)

\* What a walk has behind it: the passes that are over, and the slots up to pos.
Covered(me) ==
    /\ \A h \in me.always, i \in DOMAIN Needs(me.type) :
         i < me.pass /\ Has(h, Needs(me.type)[i]) => h \in Range(me.targets)
    /\ \A k \in DOMAIN slots :
         k <= me.pos /\ slots[k] \in me.always /\ Has(slots[k], Needs(me.type)[me.pass])
           => slots[k] \in Range(me.targets)

\* What a walk has chosen is still in the dict; a heartbeat's, behind it.
Kept(me) == \A h \in Range(me.targets) :
    /\ h \in Present
    /\ me.type = "HEARTBEAT" => \E k \in DOMAIN slots : k <= me.pos /\ slots[k] = h

RouteSound(me) ==
    /\ me.pc \in {"walk", "done"} => Chosen(me)
    /\ me.pc = "walk" => /\ me.pass \in DOMAIN Needs(me.type)
                         /\ me.always \subseteq Active /\ Active \subseteq me.ever
                         /\ ~me.moved => Covered(me) /\ Kept(me)
    /\ (me.pc = "done" /\ ~me.moved) =>
          \A h \in me.always : CanTake(h, me.type) => h \in Range(me.targets)

FleetInv == FleetTyped /\ OneEntry /\ \A r \in Routers : RouteSound(route[r])

LEMMA NeedsSome ==
    ASSUME NEW type \in ResponseTypes
    PROVE  DOMAIN Needs(type) = 1..Len(Needs(type)) /\ Len(Needs(type)) \in Nat \ {0}
<1>1. CASE type = "TEXT"
  BY <1>1 DEF Needs
<1>2. CASE type = "IMAGE"
  BY <1>2 DEF Needs
<1>3. CASE type = "AUDIO"
  BY <1>3 DEF Needs
<1>4. CASE type = "ACTUATE"
  BY <1>4 DEF Needs
<1>5. CASE type = "HEARTBEAT"
  BY <1>5 DEF Needs
<1>. QED
  BY <1>1, <1>2, <1>3, <1>4, <1>5 DEF ResponseTypes

LEMMA HeartbeatNeedsOne == Len(Needs("HEARTBEAT")) = 1
BY DEF Needs

LEMMA SizeType ==
    ASSUME FleetTyped
    PROVE  Size \in Nat
<1>1. IsFiniteSet(DOMAIN slots)
  <2>1. PICK n \in Nat : n = Len(slots)
    BY DEF FleetTyped
  <2>2. IsFiniteSet(1..n)
    BY FS_Interval
  <2>. QED
    BY <2>1, <2>2 DEF FleetTyped
<1>. QED
  BY <1>1, FS_Subset, FS_CardinalityType DEF Size

\* What is in the dict are handles.
LEMMA ActiveType ==
    ASSUME FleetTyped
    PROVE  Present \subseteq Handles /\ Active \subseteq Present
BY DEF FleetTyped, Present, Active, Range

\* The application changes the dict or a status, and the routes see it.
LEMMA WitnessInv ==
    ASSUME FleetInv, NEW active \in SUBSET Handles, active = Active', NEW moved \in BOOLEAN,
           route' = Witness(active, moved), moved \/ slots' = slots,
           slots' \in Seq(Handles \cup {Hole}), OneEntry', status' \in [Handles -> Statuses],
           registering' \in [Clients -> Handles \cup {Nothing}]
    PROVE  FleetInv'
<1>1. ASSUME NEW r \in Routers
      PROVE  /\ route'[r] \in Route
             /\ route'[r] = [route[r] EXCEPT !.always = route[r].always \cap active,
                                             !.ever = route[r].ever \cup active,
                                             !.moved = route[r].moved \/ moved]
  <2>1. route'[r] = [route[r] EXCEPT !.always = route[r].always \cap active,
                                     !.ever = route[r].ever \cup active,
                                     !.moved = route[r].moved \/ moved]
    BY DEF Witness
  <2>2. route[r] \in Route
    BY DEF FleetInv, FleetTyped
  <2>3. /\ route[r].always \cap active \in SUBSET Handles /\ route[r].ever \cup active \in SUBSET Handles
        /\ (route[r].moved \/ moved) \in BOOLEAN
    BY <2>2 DEF Route
  <2>. QED
    BY <2>1, <2>2, <2>3 DEF Route
<1>2. FleetTyped'
  <2>1. DOMAIN route' = Routers /\ route' = [r \in Routers |-> route'[r]]
    BY DEF Witness
  <2>. QED
    BY <1>1, <2>1 DEF FleetTyped
<1>3. ASSUME NEW r \in Routers
      PROVE  RouteSound(route[r])'
  <2>. DEFINE me == route[r]
              you == route'[r]
  <2>1. /\ you.pc = me.pc /\ you.type = me.type /\ you.pass = me.pass /\ you.pos = me.pos
        /\ you.targets = me.targets /\ you.always = me.always \cap active
        /\ you.ever = me.ever \cup active /\ you.moved = (me.moved \/ moved)
    <3>1. me \in Route
      BY DEF FleetInv, FleetTyped
    <3>2. you = [me EXCEPT !.always = me.always \cap active, !.ever = me.ever \cup active,
                           !.moved = me.moved \/ moved]
      BY <1>1
    <3>. HIDE DEF me, you
    <3>3. /\ you.pc = me.pc /\ you.type = me.type /\ you.pass = me.pass /\ you.pos = me.pos
          /\ you.targets = me.targets
      BY <3>1, <3>2 DEF Route
    <3>4. you.always = me.always \cap active /\ you.ever = me.ever \cup active
      BY <3>1, <3>2 DEF Route
    <3>5. you.moved = (me.moved \/ moved)
      BY <3>1, <3>2 DEF Route
    <3>. QED
      BY <3>3, <3>4, <3>5
  <2>2. RouteSound(me)
    BY DEF FleetInv
  <2>. HIDE DEF me, you
  <2>3. you.pc \in {"walk", "done"} => Chosen(you)
    BY <2>1, <2>2 DEF RouteSound, Chosen, NamedOnce
  <2>4. ASSUME you.pc = "walk"
        PROVE  /\ you.pass \in DOMAIN Needs(you.type)
               /\ you.always \subseteq active /\ active \subseteq you.ever
    BY <2>1, <2>2, <2>4 DEF RouteSound
  <2>5. ASSUME you.pc = "walk", ~you.moved
        PROVE  /\ slots' = slots /\ Covered(you) /\ Kept(you)
    <3>1. Covered(me) /\ Kept(me) /\ slots' = slots /\ you.always \subseteq me.always
      BY <2>1, <2>2, <2>5 DEF RouteSound
    <3>. QED
      BY <2>1, <3>1 DEF Covered, Kept
  <2>6. (you.pc = "done" /\ ~you.moved) =>
           \A h \in you.always : CanTake(h, you.type) => h \in Range(you.targets)
    BY <2>1, <2>2 DEF RouteSound
  <2>. QED
    BY <2>3, <2>4, <2>5, <2>6 DEF RouteSound, Covered, Chosen, NamedOnce, Kept, Present, you
<1>. QED
  BY <1>2, <1>3 DEF FleetInv

\* register() and unregister(), and a status that the application sets.
LEMMA RegistryInv ==
    ASSUME FleetInv,
           \/ \E c \in Clients : Write(c) \/ \E h \in Handles : CheckId(c, h)
           \/ \E h \in Handles : Unregister(h) \/ \E s \in Statuses : SetStatus(h, s)
    PROVE  FleetInv'
<1>. FleetTyped /\ OneEntry /\ Active \subseteq Handles /\ Present \subseteq Handles
  BY ActiveType DEF FleetInv
<1>1. ASSUME NEW c \in Clients, Write(c)
      PROVE  FleetInv'
  <2>. DEFINE h == registering[c]
              held == {i \in DOMAIN slots : slots[i] # Hole /\ DeviceId[slots[i]] = DeviceId[h]}
              active == {g \in Range(slots') \ {Hole} : IsActive(g)}
  <2>1. /\ h \in Handles /\ route' = Witness(active, TRUE) /\ status' = status
        /\ registering' = [registering EXCEPT ![c] = Nothing]
        /\ slots' = IF held = {} THEN Append(slots, h)
                    ELSE [i \in DOMAIN slots |-> IF i \in held THEN h ELSE slots[i]]
    BY <1>1 DEF Write, FleetTyped
  <2>2. slots' \in Seq(Handles \cup {Hole})
    <3>. HIDE DEF h, held
    <3>1. Append(slots, h) \in Seq(Handles \cup {Hole})
      BY <2>1 DEF FleetTyped
    <3>2. [i \in DOMAIN slots |-> IF i \in held THEN h ELSE slots[i]] \in Seq(Handles \cup {Hole})
      <4>1. DOMAIN slots = 1..Len(slots) /\ Len(slots) \in Nat
        BY DEF FleetTyped
      <4>2. \A i \in DOMAIN slots : (IF i \in held THEN h ELSE slots[i]) \in Handles \cup {Hole}
        BY <2>1 DEF FleetTyped
      <4>. QED
        BY <4>1, <4>2
    <3>. QED
      BY <2>1, <3>1, <3>2
  <2>3. active = Active'
    BY <2>1 DEF Active, Present, IsActive
  <2>4. Range(slots') \subseteq Handles \cup {Hole}
    BY <2>2 DEF Range
  <2>5. active \in SUBSET Handles
    BY <2>4
  <2>7. OneEntry'
    <3>1. DOMAIN slots = 1..Len(slots) /\ Len(slots) \in Nat
      BY DEF FleetTyped
    <3>2. CASE held = {}
      <4>1. /\ DOMAIN slots' = 1..(Len(slots) + 1) /\ slots'[Len(slots) + 1] = h
            /\ \A i \in DOMAIN slots : slots'[i] = slots[i]
        BY <2>1, <3>1, <3>2 DEF FleetTyped
      <4>2. \A i \in DOMAIN slots : slots[i] # Hole => DeviceId[slots[i]] # DeviceId[h]
        BY <3>2
      <4>3. \A i \in DOMAIN slots' : i \in DOMAIN slots \/ i = Len(slots) + 1
        BY <3>1, <4>1
      <4>. HIDE DEF h
      <4>. QED
        BY <4>1, <4>2, <4>3 DEF OneEntry
    <3>3. CASE held # {}
      <4>1. /\ DOMAIN slots' = DOMAIN slots
            /\ \A i \in DOMAIN slots : slots'[i] = IF i \in held THEN h ELSE slots[i]
        BY <2>1, <3>3
      <4>. HIDE DEF h
      <4>2. \A i, j \in held : i = j
        BY DEF OneEntry
      <4>. QED
        BY <4>1, <4>2 DEF OneEntry
    <3>. QED
      BY <3>2, <3>3
  <2>. HIDE DEF active
  <2>6. registering' \in [Clients -> Handles \cup {Nothing}]
    BY <2>1 DEF FleetTyped
  <2>. QED
    BY <2>1, <2>2, <2>3, <2>5, <2>6, <2>7, WitnessInv DEF FleetTyped
<1>2. ASSUME NEW c \in Clients, NEW h \in Handles, CheckId(c, h)
      PROVE  FleetInv'
  <2>1. UNCHANGED <<slots, status, route>> /\ registering' = [registering EXCEPT ![c] = h]
    BY <1>2 DEF CheckId
  <2>2. FleetTyped'
    BY <2>1 DEF FleetTyped
  <2>3. ASSUME NEW r \in Routers
        PROVE  RouteSound(route[r])'
    <3>1. RouteSound(route[r])
      BY DEF FleetInv
    <3>. QED
      BY <2>1, <3>1 DEF RouteSound, Chosen, NamedOnce, Kept, Covered, Active, Present, IsActive
  <2>. QED
    BY <2>1, <2>2, <2>3 DEF FleetInv, OneEntry
<1>3. ASSUME NEW h \in Handles, Unregister(h)
      PROVE  FleetInv'
  <2>. DEFINE active == Active \ {h}
  <2>1. /\ slots' = [i \in DOMAIN slots |-> IF slots[i] = h THEN Hole ELSE slots[i]]
        /\ route' = Witness(active, TRUE) /\ h # Hole /\ UNCHANGED <<status, registering>>
    BY <1>3 DEF Unregister, Present
  <2>2. slots' \in Seq(Handles \cup {Hole})
    <3>1. DOMAIN slots = 1..Len(slots) /\ Len(slots) \in Nat
      BY DEF FleetTyped
    <3>2. \A i \in DOMAIN slots : (IF slots[i] = h THEN Hole ELSE slots[i]) \in Handles \cup {Hole}
      BY DEF FleetTyped
    <3>. QED
      BY <2>1, <3>1, <3>2
  <2>3. active = Active'
    <3>1. Present' = Present \ {h}
      BY <2>1 DEF Present, Range
    <3>. QED
      BY <2>1, <3>1 DEF Active, IsActive
  <2>. HIDE DEF active
  <2>4. active \in SUBSET Handles
    BY DEF active
  <2>5. OneEntry'
    BY <2>1 DEF OneEntry
  <2>. QED
    BY <2>1, <2>2, <2>3, <2>4, <2>5, WitnessInv DEF FleetTyped
<1>4. ASSUME NEW h \in Handles, NEW s \in Statuses, SetStatus(h, s)
      PROVE  FleetInv'
  <2>. DEFINE active == {g \in Present : status'[g] = "active"}
  <2>1. /\ status' = [status EXCEPT ![h] = s] /\ route' = Witness(active, FALSE)
        /\ UNCHANGED <<slots, registering>>
    BY <1>4 DEF SetStatus
  <2>2. active = Active' /\ active \in SUBSET Handles
    BY <2>1 DEF Active, Present, IsActive
  <2>. HIDE DEF active
  <2>3. status' \in [Handles -> Statuses] /\ OneEntry'
    BY <2>1 DEF FleetTyped, OneEntry
  <2>. QED
    BY <2>1, <2>2, <2>3, WitnessInv DEF FleetTyped
<1>. QED
  BY <1>1, <1>2, <1>3, <1>4

LEMMA BeginInv ==
    ASSUME FleetInv, NEW r \in Routers, NEW type \in ResponseTypes, Begin(r, type)
    PROVE  FleetInv'
<1>. FleetTyped /\ Active \subseteq Handles
  BY ActiveType DEF FleetInv
<1>. DEFINE start == StartPass(Idle, 1)
            you == [start EXCEPT !.type = type, !.always = Active, !.ever = Active]
<1>1. /\ route' = [route EXCEPT ![r] = you] /\ UNCHANGED <<slots, status, registering>>
  BY DEF Begin
<1>2. /\ you \in Route /\ you.pc = "walk" /\ you.type = type /\ you.pass = 1 /\ you.pos = 0
      /\ you.targets = << >> /\ you.always = Active /\ you.ever = Active /\ you.moved = FALSE
  <2>1. /\ Idle \in Route /\ Idle.targets = << >> /\ Idle.moved = FALSE
    BY DEF Idle, Route, ResponseTypes
  <2>2. start = [Idle EXCEPT !.pc = "walk", !.pass = 1, !.pos = 0, !.size = Size]
    BY DEF StartPass
  <2>3. start \in Route
    <3>1. 1 \in Nat /\ 0 \in Nat /\ Size \in Nat
      BY SizeType
    <3>. HIDE DEF start
    <3>. QED
      BY <2>1, <2>2, <3>1 DEF Route
  <2>4. /\ start.pc = "walk" /\ start.pass = 1 /\ start.pos = 0
        /\ start.targets = << >> /\ start.moved = FALSE
    BY <2>1, <2>2 DEF Route
  <2>. HIDE DEF start
  <2>5. you \in Route
    BY <2>3 DEF Route
  <2>. QED
    BY <2>3, <2>4, <2>5 DEF Route
<1>. HIDE DEF start, you
<1>3. Active' = Active
  BY <1>1 DEF Active, Present, IsActive
<1>4. RouteSound(you)
  <2>1. 1 \in DOMAIN Needs(type) /\ \A i \in DOMAIN Needs(type) : ~(i < 1)
    BY NeedsSome
  <2>2. \A k \in DOMAIN slots : ~(k <= 0)
    BY DEF FleetTyped
  <2>3. Chosen(you)
    BY <1>2 DEF Chosen, NamedOnce, Range
  <2>4. Covered(you) /\ Kept(you)
    BY <1>2, <2>1, <2>2 DEF Covered, Kept, Range
  <2>. QED
    BY <1>2, <2>1, <2>3, <2>4 DEF RouteSound
<1>5. route' \in [Routers -> Route] /\ route'[r] = you /\ \A q \in Routers : q # r => route'[q] = route[q]
  BY <1>1, <1>2 DEF FleetTyped
<1>6. ASSUME NEW q \in Routers
      PROVE  RouteSound(route[q])'
  <2>1. RouteSound(route'[q])
    BY <1>4, <1>5 DEF FleetInv
  <2>. QED
    BY <1>1, <1>3, <2>1 DEF RouteSound, Chosen, NamedOnce, Covered, Kept, Present
<1>. QED
  BY <1>1, <1>5, <1>6 DEF FleetInv, FleetTyped, OneEntry

Below == {p \in Nat \X Nat : p[1] < p[2]}

LEMMA BelowWellFounded == IsWellFoundedOn(Below, Nat)
<1>1. Below = OpToRel(<, Nat)
  BY Zenon DEF Below, OpToRel
<1>. QED
  BY <1>1, NatLessThanWellFounded, Zenon

LEMMA First ==
    ASSUME NEW T \in SUBSET Nat, T # {}
    PROVE  LET first == CHOOSE i \in T : \A j \in T : i <= j
           IN  first \in T /\ \A j \in T : first <= j
<1>1. PICK x \in T : \A y \in T : ~(<<y, x>> \in Below)
  BY BelowWellFounded, WFMin
<1>2. ASSUME NEW y \in T
      PROVE  x <= y
  <2>1. x \in Nat /\ y \in Nat /\ ~(<<y, x>> \in Below)
    BY <1>1, <1>2
  <2>2. ~(y < x)
    BY <2>1 DEF Below
  <2>. QED
    BY <2>1, <2>2
<1>. QED
  BY <1>2

\* The iterator passes over holes, and over no device that the route should name.
LEMMA WalkInv ==
    ASSUME FleetInv, NEW r \in Routers, Walk(r)
    PROVE  FleetInv'
<1>. DEFINE me == route[r]
            need == Needs(me.type)[me.pass]
            ahead == {i \in DOMAIN slots : i > me.pos /\ slots[i] # Hole}
            here == CHOOSE i \in ahead : \A j \in ahead : i <= j
<1>1. /\ FleetTyped /\ OneEntry /\ Active \subseteq Handles /\ Present \subseteq Handles
      /\ me \in Route /\ me.pc = "walk" /\ RouteSound(me)
      /\ UNCHANGED <<slots, status, registering>>
  BY ActiveType DEF FleetInv, FleetTyped, Walk
<1>2. Active' = Active
  BY <1>1 DEF Active, Present, IsActive
<1>3. ASSUME NEW you \in Route, route' = [route EXCEPT ![r] = you], RouteSound(you)
      PROVE  FleetInv'
  <2>1. route' \in [Routers -> Route] /\ route'[r] = you /\ \A q \in Routers : q # r => route'[q] = route[q]
    BY <1>1, <1>3 DEF FleetTyped
  <2>2. ASSUME NEW q \in Routers
        PROVE  RouteSound(route[q])'
    <3>1. RouteSound(route'[q])
      BY <1>3, <2>1 DEF FleetInv
    <3>. QED
      BY <1>1, <1>2, <3>1 DEF RouteSound, Chosen, NamedOnce, Covered, Kept, Present
  <2>. QED
    BY <1>1, <2>1, <2>2 DEF FleetInv, FleetTyped, OneEntry
<1>4. /\ me.type \in ResponseTypes /\ me.pass \in Nat /\ me.pos \in Nat /\ me.targets \in Seq(Handles)
      /\ me.always \subseteq Handles /\ me.ever \subseteq Handles /\ me.moved \in BOOLEAN
      /\ Chosen(me) /\ me.pass \in DOMAIN Needs(me.type) /\ me.always \subseteq Active
      /\ Active \subseteq me.ever /\ (~me.moved => Covered(me) /\ Kept(me))
      /\ DOMAIN Needs(me.type) = 1..Len(Needs(me.type)) /\ Len(Needs(me.type)) \in Nat
      /\ DOMAIN slots = 1..Len(slots) /\ Len(slots) \in Nat
  BY <1>1, NeedsSome DEF Route, RouteSound, FleetTyped
<1>. HIDE DEF me
<1>5. CASE me.size # Size
  <2>1. route' = [route EXCEPT ![r] = [me EXCEPT !.pc = "raised"]]
    BY <1>5 DEF Walk, me
  <2>2. [me EXCEPT !.pc = "raised"] \in Route /\ [me EXCEPT !.pc = "raised"].pc = "raised"
    BY <1>1 DEF Route
  <2>3. RouteSound([me EXCEPT !.pc = "raised"])
    BY <2>2 DEF RouteSound
  <2>. QED
    BY <1>3, <2>1, <2>2, <2>3
<1>6. CASE me.size = Size /\ ahead = {}
  <2>1. ASSUME ~me.moved, NEW h \in me.always, NEW i \in DOMAIN Needs(me.type), i <= me.pass,
               Has(h, Needs(me.type)[i])
        PROVE  h \in Range(me.targets)
    <3>1. CASE i < me.pass
      BY <1>4, <2>1, <3>1 DEF Covered
    <3>2. CASE i = me.pass
      <4>1. PICK k \in DOMAIN slots : slots[k] = h /\ h # Hole
        BY <1>4 DEF Active, Present, Range
      <4>2. k <= me.pos
        BY <1>4, <1>6, <4>1
      <4>. QED
        BY <1>4, <2>1, <3>2, <4>1, <4>2 DEF Covered
    <3>. QED
      BY <1>4, <2>1, <3>1, <3>2
  <2>2. CASE me.pass < Len(Needs(me.type))
    <3>. DEFINE you == [me EXCEPT !.pc = "walk", !.pass = me.pass + 1, !.pos = 0, !.size = Size]
    <3>1. route' = [route EXCEPT ![r] = you]
      BY <1>6, <2>2 DEF Walk, StartPass, me
    <3>2. /\ you \in Route /\ you.pc = "walk" /\ you.pass = me.pass + 1 /\ you.pos = 0
          /\ you.type = me.type /\ you.targets = me.targets /\ you.always = me.always
          /\ you.ever = me.ever /\ you.moved = me.moved
      <4>1. me.pass + 1 \in Nat /\ 0 \in Nat /\ Size \in Nat
        BY <1>1, <1>4, SizeType
      <4>2. you \in Route
        BY <1>1, <4>1 DEF Route
      <4>. QED
        BY <1>1, <4>2 DEF Route
    <3>. HIDE DEF you
    <3>3. me.pass + 1 \in DOMAIN Needs(me.type)
      BY <1>4, <2>2
    <3>4. Chosen(you)
      BY <1>4, <3>2 DEF Chosen, NamedOnce
    <3>5. ~you.moved => Covered(you) /\ Kept(you)
      <4>3. me.type # "HEARTBEAT"
        <5>1. SUFFICES ASSUME me.type = "HEARTBEAT"
                       PROVE  FALSE
          OBVIOUS
        <5>2. Len(Needs(me.type)) = 1
          BY <5>1, HeartbeatNeedsOne, Zenon
        <5>3. PICK n \in Nat : n = me.pass /\ 1 <= n /\ n < Len(Needs(me.type))
          BY <1>4, <2>2
        <5>. QED
          BY <5>2, <5>3
      <4>1. \A i \in DOMAIN Needs(me.type) : i < me.pass + 1 => i <= me.pass
        BY <1>4
      <4>2. \A k \in DOMAIN slots : ~(k <= 0)
        BY <1>4
      <4>. QED
        BY <1>4, <2>1, <3>2, <4>1, <4>2, <4>3 DEF Covered, Kept
    <3>6. RouteSound(you)
      BY <1>4, <3>2, <3>3, <3>4, <3>5 DEF RouteSound
    <3>. QED
      BY <1>3, <3>1, <3>2, <3>6
  <2>3. CASE ~(me.pass < Len(Needs(me.type)))
    <3>. DEFINE you == [me EXCEPT !.pc = "done"]
    <3>1. route' = [route EXCEPT ![r] = you]
      BY <1>6, <2>3 DEF Walk, me
    <3>2. /\ you \in Route /\ you.pc = "done"
          /\ you.type = me.type /\ you.targets = me.targets /\ you.always = me.always
          /\ you.ever = me.ever /\ you.moved = me.moved
      BY <1>1 DEF Route
    <3>. HIDE DEF you
    <3>3. Chosen(you)
      BY <1>4, <3>2 DEF Chosen, NamedOnce
    <3>4. ~you.moved => \A h \in you.always : CanTake(h, you.type) => h \in Range(you.targets)
      <4>1. \A i \in DOMAIN Needs(me.type) : i <= me.pass
        BY <1>4, <2>3
      <4>. QED
        BY <2>1, <3>2, <4>1 DEF CanTake
    <3>5. RouteSound(you)
      BY <3>2, <3>3, <3>4 DEF RouteSound
    <3>. QED
      BY <1>3, <3>1, <3>2, <3>5
  <2>. QED
    BY <2>2, <2>3
<1>7. CASE me.size = Size /\ ahead # {}
  <2>1. /\ here \in ahead /\ \A j \in ahead : here <= j
    <3>1. ahead \in SUBSET Nat
      BY <1>4
    <3>. QED
      BY <1>7, <3>1, First
  <2>. DEFINE g == slots[here]
  <2>. HIDE DEF here
  <2>2. /\ here \in DOMAIN slots /\ here \in Nat /\ here > me.pos /\ g # Hole
        /\ g \in Present /\ g \in Handles
    BY <1>1, <1>4, <2>1 DEF Present, Range
  <2>3. \A k \in DOMAIN slots : k <= here /\ slots[k] # Hole => k <= me.pos \/ k = here
    BY <1>4, <2>1, <2>2
  <2>4. CASE IsActive(g) /\ Has(g, need) /\ Unseen(r, g)
    <3>. DEFINE you == [me EXCEPT !.pos = here, !.targets = Append(me.targets, g)]
    <3>1. route' = [route EXCEPT ![r] = you]
      BY <1>7, <2>4 DEF Walk, me, here
    <3>2. /\ you \in Route /\ you.pc = "walk" /\ you.pass = me.pass /\ you.pos = here
          /\ you.type = me.type /\ you.targets = Append(me.targets, g) /\ you.always = me.always
          /\ you.ever = me.ever /\ you.moved = me.moved
      <4>1. Append(me.targets, g) \in Seq(Handles)
        BY <1>4, <2>2
      <4>2. you \in Route
        BY <1>1, <2>2, <4>1 DEF Route
      <4>. QED
        BY <1>1, <4>2 DEF Route
    <3>. HIDE DEF you
    <3>3. /\ Range(you.targets) = Range(me.targets) \cup {g}
          /\ you.type # "HEARTBEAT" \/ ~you.moved => NamedOnce(you)
      <4>1. ASSUME me.type # "HEARTBEAT" \/ ~me.moved, NEW h \in Range(me.targets)
            PROVE  DeviceId[h] # DeviceId[g]
        <5>1. CASE me.type # "HEARTBEAT"
          BY <2>4, <4>1, <5>1 DEF Unseen, me
        <5>2. CASE me.type = "HEARTBEAT"
          <6>1. h \in Present
            BY <1>4, <4>1, <5>2 DEF Kept
          <6>2. PICK k \in DOMAIN slots : k <= me.pos /\ slots[k] = h
            BY <1>4, <4>1, <5>2 DEF Kept
          <6>3. k # here /\ slots[k] # Hole
            BY <1>4, <2>2, <6>1, <6>2 DEF Present
          <6>. QED
            BY <1>1, <2>2, <6>2, <6>3 DEF OneEntry
        <5>. QED
          BY <5>1, <5>2
      <4>2. /\ Len(you.targets) = Len(me.targets) + 1 /\ DOMAIN you.targets = 1..(Len(me.targets) + 1)
            /\ you.targets[Len(me.targets) + 1] = g /\ Len(me.targets) \in Nat
            /\ DOMAIN me.targets = 1..Len(me.targets)
            /\ \A i \in 1..Len(me.targets) : you.targets[i] = me.targets[i]
        BY <1>4, <2>2, <3>2
      <4>3. Range(you.targets) = Range(me.targets) \cup {g}
        BY <4>2, SMTT(30) DEF Range
      <4>4. ASSUME me.type # "HEARTBEAT" \/ ~me.moved
            PROVE  NamedOnce(you)
        <5>1. NamedOnce(me)
          BY <1>4, <4>4 DEF Chosen
        <5>2. \A i \in 1..Len(me.targets) : DeviceId[me.targets[i]] # DeviceId[g]
          BY <4>1, <4>2, <4>4 DEF Range
        <5>3. \A i \in 1..(Len(me.targets) + 1) : i \in 1..Len(me.targets) \/ i = Len(me.targets) + 1
          BY <4>2
        <5>4. \A i, j \in 1..Len(me.targets) :
                DeviceId[you.targets[i]] = DeviceId[you.targets[j]] => i = j
          BY <4>2, <5>1 DEF NamedOnce
        <5>5. \A i \in 1..Len(me.targets) :
                DeviceId[you.targets[i]] # DeviceId[you.targets[Len(me.targets) + 1]]
          BY <4>2, <5>2
        <5>. QED
          BY <4>2, <5>3, <5>4, <5>5 DEF NamedOnce
      <4>. QED
        BY <3>2, <4>3, <4>4
    <3>4. g \in Active /\ CanTake(g, me.type)
      BY <1>4, <2>2, <2>4 DEF Active, CanTake
    <3>5. Chosen(you)
      BY <1>4, <3>2, <3>3, <3>4 DEF Chosen
    <3>6. ~you.moved => Covered(you) /\ Kept(you)
      <4>1. ~you.moved => Covered(you)
        BY <1>4, <2>3, <3>2, <3>3 DEF Covered, Active, Present
      <4>2. \A k \in DOMAIN slots : k <= me.pos => k <= here
        BY <1>4, <2>2
      <4>3. ~you.moved => Kept(you)
        BY <1>4, <2>2, <3>2, <3>3, <4>2 DEF Kept
      <4>. QED
        BY <4>1, <4>3
    <3>7. RouteSound(you)
      BY <1>4, <3>2, <3>5, <3>6 DEF RouteSound
    <3>. QED
      BY <1>3, <3>1, <3>2, <3>7
  <2>5. CASE ~(IsActive(g) /\ Has(g, need) /\ Unseen(r, g))
    <3>. DEFINE you == [me EXCEPT !.pos = here]
    <3>1. route' = [route EXCEPT ![r] = you]
      BY <1>7, <2>5 DEF Walk, me, here
    <3>2. /\ you \in Route /\ you.pc = "walk" /\ you.pass = me.pass /\ you.pos = here
          /\ you.type = me.type /\ you.targets = me.targets /\ you.always = me.always
          /\ you.ever = me.ever /\ you.moved = me.moved
      BY <1>1, <1>4, <2>2 DEF Route
    <3>. HIDE DEF you
    <3>3. ASSUME ~me.moved, g \in me.always, Has(g, need)
          PROVE  g \in Range(me.targets)
      <4>1. ~Unseen(r, g)
        BY <1>4, <2>5, <3>3 DEF Active
      <4>2. PICK h \in Range(me.targets) : DeviceId[h] = DeviceId[g]
        BY <4>1 DEF Unseen, me
      <4>3. h \in Present
        BY <1>4, <3>3, <4>2 DEF Kept
      <4>4. PICK k \in DOMAIN slots : slots[k] = h /\ h # Hole
        BY <4>3 DEF Present, Range
      <4>5. k = here
        BY <1>1, <2>2, <4>2, <4>4 DEF OneEntry
      <4>. QED
        BY <4>2, <4>4, <4>5
    <3>4. Chosen(you)
      BY <1>4, <3>2 DEF Chosen, NamedOnce
    <3>5. ~you.moved => Covered(you) /\ Kept(you)
      <4>1. ~you.moved => Covered(you)
        BY <1>4, <2>3, <3>2, <3>3 DEF Covered, Active, Present
      <4>2. \A k \in DOMAIN slots : k <= me.pos => k <= here
        BY <1>4, <2>2
      <4>3. ~you.moved => Kept(you)
        BY <1>4, <3>2, <4>2 DEF Kept
      <4>. QED
        BY <4>1, <4>3
    <3>6. RouteSound(you)
      BY <1>4, <3>2, <3>4, <3>5 DEF RouteSound
    <3>. QED
      BY <1>3, <3>1, <3>2, <3>6
  <2>. QED
    BY <2>4, <2>5
<1>. QED
  BY <1>5, <1>6, <1>7

\* A route that returns names no device id twice (a heartbeat, unless the registry
\* was written to meanwhile), none that could not take the response, and unless the
\* registry was written to none too few.
THEOREM RoutesAreExact == FleetSpec => []RouteExact
<1>1. FleetInit => FleetInv
  <2>. SUFFICES ASSUME FleetInit
                PROVE  FleetInv
    OBVIOUS
  <2>1. Idle \in Route /\ Idle.pc = "idle"
    BY DEF Idle, Route, ResponseTypes
  <2>2. \A r \in Routers : RouteSound(route[r])
    BY <2>1 DEF FleetInit, RouteSound
  <2>3. FleetTyped
    BY <2>1 DEF FleetInit, FleetTyped, Statuses
  <2>4. OneEntry
    BY DEF FleetInit, OneEntry
  <2>. QED
    BY <2>2, <2>3, <2>4 DEF FleetInv
<1>2. FleetInv /\ [FleetNext]_fleetVars => FleetInv'
  <2>1. FleetInv /\ FleetNext => FleetInv'
    BY RegistryInv, BeginInv, WalkInv DEF FleetNext
  <2>2. FleetInv /\ UNCHANGED fleetVars => FleetInv'
    <3>1. SUFFICES ASSUME FleetInv, UNCHANGED fleetVars
                   PROVE  FleetInv'
      OBVIOUS
    <3>2. FleetTyped' /\ OneEntry'
      BY <3>1 DEF fleetVars, FleetInv, FleetTyped, OneEntry
    <3>3. ASSUME NEW r \in Routers
          PROVE  RouteSound(route[r])'
      <4>1. RouteSound(route[r])
        BY <3>1 DEF FleetInv
      <4>. QED
        BY <3>1, <4>1 DEF fleetVars, RouteSound, Chosen, NamedOnce, Kept, Covered, Active, Present, IsActive
    <3>. QED
      BY <3>2, <3>3 DEF FleetInv
  <2>. QED
    BY <2>1, <2>2
<1>3. FleetInv => RouteExact
  BY DEF FleetInv, RouteSound, Chosen, RouteExact
<1>. QED
  BY <1>1, <1>2, <1>3, PTL DEF FleetSpec

============================================================================
