------------------------------ MODULE SttBridge ------------------------------
(***************************************************************************)
(* transport/stt_bridge.py: OpenClawSTTBridge, transcribe (a thread) and   *)
(* transcribe_async (a task, which its caller may cancel at the await).    *)
(*                                                                         *)
(* A call writes the audio to a temporary file, has a child process, the   *)
(* openclaw CLI, read it, and removes it in a finally.  The write is       *)
(* before the try, so a file it could not complete stays; the asynchronous *)
(* call kills its child only when wait_for times out.                      *)
(***************************************************************************)
CONSTANTS Calls

VARIABLES call,      \* what each call is about to do
          mode,      \* "sync" or "async"
          file,      \* its temporary file exists
          child,     \* its child process runs
          outcome    \* how it ended

sttVars == <<call, mode, file, child, outcome>>

Outcomes == {"none", "text", "mock", "STTError", "STTTimeoutError", "FileNotFoundError",
             "CancelledError", "OSError"}

SttInit == /\ call = [c \in Calls |-> "idle"]
           /\ mode \in [Calls -> {"sync", "async"}]
           /\ file = [c \in Calls |-> FALSE]
           /\ child = [c \in Calls |-> FALSE]
           /\ outcome = [c \in Calls |-> "none"]

Moves(c, from, to) == call[c] = from /\ call' = [call EXCEPT ![c] = to]
Ends(c, how) == outcome' = [outcome EXCEPT ![c] = how]
Alive(c, yes) == child' = [child EXCEPT ![c] = yes]

\* STTProvider.MOCK answers without a file.
Mock(c) == /\ Moves(c, "idle", "done") /\ Ends(c, "mock")
           /\ UNCHANGED <<mode, file, child>>

\* mkstemp, then the write: wave or the disk may fail it.
WriteTemp(c) == /\ Moves(c, "idle", "spawn")
                /\ file' = [file EXCEPT ![c] = TRUE]
                /\ UNCHANGED <<mode, child, outcome>>

WriteTempFails(c) == /\ Moves(c, "idle", "done") /\ Ends(c, "OSError")
                     /\ file' = [file EXCEPT ![c] = TRUE]
                     /\ UNCHANGED <<mode, child>>

SpawnCli(c) == /\ Moves(c, "spawn", "wait") /\ Alive(c, TRUE)
               /\ UNCHANGED <<mode, file, outcome>>

\* No such binary: wrapped by the one, not by the other.
NoBinary(c) == /\ Moves(c, "spawn", "finally")
               /\ Ends(c, IF mode[c] = "sync" THEN "STTError" ELSE "FileNotFoundError")
               /\ UNCHANGED <<mode, file, child>>

\* The child ends, with a transcript or an error.
Exits(c) == /\ Moves(c, "wait", "finally") /\ Alive(c, FALSE)
            /\ Ends(c, "text") \/ Ends(c, "STTError")
            /\ UNCHANGED <<mode, file>>

\* Deliberate fault: a timeout leaves the child alone.
TimesOut_Alive(c) == /\ Moves(c, "wait", "finally")
                     /\ Ends(c, "STTTimeoutError")
                     /\ UNCHANGED <<mode, file, child>>

\* subprocess.run kills its child at the timeout, transcribe_async by hand.
TimesOut(c) == /\ Moves(c, "wait", "finally") /\ Alive(c, FALSE)
               /\ Ends(c, "STTTimeoutError")
               /\ UNCHANGED <<mode, file>>

\* CancelledError at the await is no TimeoutError: nobody kills the child.
Cancelled(c) == /\ mode[c] = "async"
                /\ Moves(c, "wait", "finally") /\ Ends(c, "CancelledError")
                /\ UNCHANGED <<mode, file, child>>

RemoveFile(c) == /\ Moves(c, "finally", "done")
                 /\ file' = [file EXCEPT ![c] = FALSE]
                 /\ UNCHANGED <<mode, child, outcome>>

OrphanExits(c) == /\ call[c] = "done" /\ child[c] /\ Alive(c, FALSE)
                  /\ UNCHANGED <<call, mode, file, outcome>>

SttNext == \E c \in Calls : \/ Mock(c) \/ WriteTemp(c) \/ WriteTempFails(c) \/ SpawnCli(c)
                            \/ NoBinary(c) \/ Exits(c) \/ TimesOut(c) \/ Cancelled(c)
                            \/ RemoveFile(c) \/ OrphanExits(c)

SttSpec == SttInit /\ [][SttNext]_sttVars

-----------------------------------------------------------------------------
(* Properties.                                                             *)

\* Every variable keeps the values its comment names.
SttTypeOK == /\ call \in [Calls -> {"idle", "spawn", "wait", "finally", "done"}]
             /\ mode \in [Calls -> {"sync", "async"}]
             /\ file \in [Calls -> BOOLEAN] /\ child \in [Calls -> BOOLEAN]
             /\ outcome \in [Calls -> Outcomes]

\* "Temp file is always removed (success or failure)" (stt_bridge.py:149), but
\* for a write that fails; and while the CLI runs its file is there and the
\* call waits for it, unless the caller cancelled the task.
FileOwned == \A c \in Calls :
    /\ (call[c] = "done" /\ outcome[c] # "OSError") => ~file[c]
    /\ (child[c] /\ outcome[c] # "CancelledError") => file[c] /\ call[c] = "wait"

=============================================================================
