-------------------------- MODULE UnifiedTransport --------------------------
(***************************************************************************)
(* transport/unified.py: UnifiedTransport, with the AttachmentTransport of *)
(* transport/attachment.py as its fallback.                                *)
(*                                                                         *)
(* send() tries the primary and, after an error or a send slower than the  *)
(* threshold, the fallback; the result goes into a window of the last      *)
(* WindowSize results and into a count of failures per transport.  Nothing *)
(* is locked, and the pipeline runs its sends in a pool of threads.        *)
(*                                                                         *)
(* The attachment transport writes the payload to a temporary file, has    *)
(* the openclaw CLI read it, and removes it.  reached counts how often the *)
(* payload got through in the current send: a send may get through and be  *)
(* reported as failed (a timeout), or be repeated.                         *)
(***************************************************************************)
EXTENDS Naturals, Sequences, FiniteSets

CONSTANTS Threads,     \* the threads that send
          WindowSize,  \* window_size
          MaxSends     \* bound on the sends

ASSUME WindowAssumption == WindowSize \in Nat \ {0} /\ IsFiniteSet(Threads)

Links == {"primary", "fallback"}

VARIABLES config,     \* fallback_on_error, and whether a threshold is set
          send,       \* what each thread is about to do
          timed,      \* its result: success, and the transport that gave it
          reached,    \* how often its payload got through
          window,     \* _window
          failures,   \* _failure_by_transport
          count,      \* the failure count a thread has read
          failed,     \* failed results recorded, per transport
          sends       \* sends begun

linkVars == <<config, send, timed, reached, window, failures, count, failed, sends>>

None == [success |-> FALSE, link |-> "primary"]

LinkInit == /\ config \in [onError : BOOLEAN, threshold : BOOLEAN]
            /\ send = [t \in Threads |-> "idle"]
            /\ timed = [t \in Threads |-> None]
            /\ reached = [t \in Threads |-> 0]
            /\ window = << >> /\ sends = 0
            /\ failures = [k \in Links |-> 0] /\ failed = [k \in Links |-> 0]
            /\ count = [t \in Threads |-> 0]

Goto(t, from, to) == send[t] = from /\ send' = [send EXCEPT ![t] = to]
Result(t, ok, link) == timed' = [timed EXCEPT ![t] = [success |-> ok, link |-> link]]
Stats == <<window, failures, count, failed>>

Call(t) == /\ sends < MaxSends
           /\ Goto(t, "idle", "primary")
           /\ sends' = sends + 1
           /\ reached' = [reached EXCEPT ![t] = 0]
           /\ UNCHANGED <<config, timed, Stats>>

\* The primary returns or raises; got says whether the payload got through.
\* An exception and a result that says so are one case: both use the fallback
\* only if fallback_on_error.
Primary(t, ok, got, slow) ==
    /\ ok => got
    /\ Goto(t, "primary", IF (ok /\ slow /\ config.threshold) \/ (~ok /\ config.onError)
                          THEN "attach" ELSE "count")
    /\ Result(t, ok, "primary")
    /\ reached' = [reached EXCEPT ![t] = IF got THEN 1 ELSE 0]
    /\ UNCHANGED <<config, Stats, sends>>

\* AttachmentTransport._spawn_session_turn: the file is written, or the disk
\* is full; then the CLI is run with a timeout, and the file removed whatever
\* came of it.  send() turns what is raised into a failed result.
Attach(t) == /\ Goto(t, "attach", "spawn")
             /\ UNCHANGED <<config, timed, reached, Stats, sends>>

AttachFails(t) == /\ Goto(t, "attach", "count")
                  /\ Result(t, FALSE, "fallback")
                  /\ UNCHANGED <<config, reached, Stats, sends>>

\* Deliberate fault: a fallback that raised is recorded as a success.
Spawn_Masked(t, ok, got) == /\ ok => got
                            /\ Goto(t, "spawn", "count")
                            /\ Result(t, TRUE, "fallback")
                            /\ reached' = [reached EXCEPT ![t] = @ + (IF got THEN 1 ELSE 0)]
                            /\ UNCHANGED <<config, Stats, sends>>

Spawn(t, ok, got) == /\ ok => got
                     /\ Goto(t, "spawn", "count")
                     /\ Result(t, ok, "fallback")
                     /\ reached' = [reached EXCEPT ![t] = @ + (IF got THEN 1 ELSE 0)]
                     /\ UNCHANGED <<config, Stats, sends>>

-----------------------------------------------------------------------------
(* _record: the failure is counted by a read and a write; then the result  *)
(* is appended, the length looked at, and the oldest one popped.           *)

NotStats == UNCHANGED <<config, timed, reached, sends>>

Failed(t) == ~timed[t].success

ReadCount(t) == /\ Failed(t) /\ Goto(t, "count", "write")
                /\ count' = [count EXCEPT ![t] = failures[timed[t].link]]
                /\ failed' = [failed EXCEPT ![timed[t].link] = @ + 1]
                /\ NotStats /\ UNCHANGED <<window, failures>>

WriteCount(t) == /\ Goto(t, "write", "append")
                 /\ failures' = [failures EXCEPT ![timed[t].link] = count[t] + 1]
                 /\ NotStats /\ UNCHANGED <<window, count, failed>>

Append_(t) == /\ \/ Goto(t, "append", "check")
                 \/ ~Failed(t) /\ Goto(t, "count", "check")
              /\ window' = Append(window, timed[t])
              /\ NotStats /\ UNCHANGED <<failures, count, failed>>

\* Deliberate fault: the window is trimmed one result too late.
Check_Late(t) == /\ Goto(t, "check", IF Len(window) > WindowSize + 1 THEN "pop" ELSE "idle")
                 /\ NotStats /\ UNCHANGED Stats

Check(t) == /\ Goto(t, "check", IF Len(window) > WindowSize THEN "pop" ELSE "idle")
            /\ NotStats /\ UNCHANGED Stats

Pop(t) == /\ Goto(t, "pop", "idle")
          /\ window' = Tail(window)
          /\ NotStats /\ UNCHANGED <<failures, count, failed>>

Step(t) == \/ Call(t) \/ Attach(t) \/ AttachFails(t)
           \/ \E ok, got, slow \in BOOLEAN : Primary(t, ok, got, slow)
           \/ \E ok, got \in BOOLEAN : Spawn(t, ok, got)
           \/ ReadCount(t) \/ WriteCount(t) \/ Append_(t) \/ Check(t) \/ Pop(t)

LinkNext == \E t \in Threads : Step(t)
LinkSpec == LinkInit /\ [][LinkNext]_linkVars

-----------------------------------------------------------------------------
(* Properties.                                                             *)

\* Every variable keeps the values its comment names.
LinkTypeOK == /\ config \in [onError : BOOLEAN, threshold : BOOLEAN]
              /\ send \in [Threads -> {"idle", "primary", "attach", "spawn", "count",
                                       "write", "append", "check", "pop"}]
              /\ timed \in [Threads -> [success : BOOLEAN, link : Links]]
              /\ reached \in [Threads -> Nat] /\ count \in [Threads -> Nat]
              /\ window \in Seq([success : BOOLEAN, link : Links])
              /\ failures \in [Links -> Nat] /\ failed \in [Links -> Nat] /\ sends \in Nat

Trimming == {t \in Threads : send[t] \in {"check", "pop"}}

\* However the threads interleave append, the length test and pop, the window
\* holds at most WindowSize results and one more for each thread between its
\* append and its pop: when nobody is sending the statistics are over at most
\* the last WindowSize sends, and no pop meets an empty window.
WindowBounded == Len(window) <= WindowSize + Cardinality(Trimming)

\* The failure counts may lose a failure to two threads that count at the
\* same time, but never report more failures than there were.
StatsHonest == \A k \in Links : failures[k] <= failed[k]

\* The statistics stay true though nothing locks them.
StatsKept == WindowBounded /\ StatsHonest

\* A result that says success is of a payload that got through at least once
\* in that send: a slow or failed primary followed by a fallback, whatever
\* that does, never reports a success nobody received.
Recorded(t) == send[t] \in {"count", "write", "append", "check", "pop"}
SuccessReached == \A t \in Threads : (Recorded(t) /\ timed[t].success) => reached[t] >= 1

=============================================================================
