------------------------- MODULE ActionChunkBuffer -------------------------
(***************************************************************************)
(* hal/action_chunk_buffer.py: the queue between the LLM, which merges     *)
(* chunks of commands, and the control loop, which gets one per tick.      *)
(*                                                                         *)
(* Abstracted: a command is its place in a chunk, the chunks numbered in   *)
(* the order they are merged; of its parameters only which steps           *)
(* contributed to them is kept (_blend_commands interpolates every numeric *)
(* parameter of a pair).  _pending_chunks is left out: nothing ever adds   *)
(* to it.  So are the lag samples, which only a property for display reads.*)
(***************************************************************************)
EXTENDS Naturals, Sequences, FiniteSets, SequencesExt

CONSTANTS
  Action,     \* what a command can do
  NoCommand,  \* self._last_command before the first get()
  MaxChunks,  \* bound on the number of merges
  Horizon,    \* execution_horizon
  Hold        \* hold_on_empty

VARIABLES
  queue,        \* self._queue
  lastCommand,  \* self._last_command
  merges        \* how many chunks were merged
bufferVars == <<queue, lastCommand, merges>>

Step == (1 .. MaxChunks) \X (Nat \ {0})
Command == {c \in [action : Action, id : Step, from : SUBSET Step] : c.id \in c.from}

ASSUME BufferAssumption ==
  /\ MaxChunks \in Nat /\ Horizon \in Nat /\ Hold \in BOOLEAN /\ NoCommand \notin Command

\* The commands of a chunk that does `actions`, as the LLM's thread built it.
Chunk(actions) ==
  [i \in DOMAIN actions |-> [action |-> actions[i], id |-> <<merges + 1, i>>,
                             from |-> {<<merges + 1, i>>}]]

Least(m, n) == IF m < n THEN m ELSE n

BufferInit == queue = <<>> /\ lastCommand = NoCommand /\ merges = 0

----------------------------------------------------------------------------
\* _blend_commands: zip() ends with the shorter list.
Blended(current, incoming) ==
  [i \in 1 .. Least(Len(current), Len(incoming)) |->
     [incoming[i] EXCEPT !.from = @ \cup current[i].from]]

\* Deliberate fault: the blended commands are put in front of the old ones.
Merged_BlendFirst(chunk) ==
  LET overlap == Least(Len(queue), Horizon)
  IN Blended(SubSeq(queue, 1, overlap), chunk)
       \o SubSeq(queue, overlap + 1, Len(queue))
       \o SubSeq(chunk, overlap + 1, Len(chunk))

\* The queue after a merge: the old commands beyond the overlap, the overlap
\* blended, the new commands beyond the overlap.  With no overlap this appends.
Merged(chunk) ==
  LET overlap == Least(Len(queue), Horizon)
  IN SubSeq(queue, overlap + 1, Len(queue))
       \o Blended(SubSeq(queue, 1, overlap), chunk)
       \o SubSeq(chunk, overlap + 1, Len(chunk))

\* merge() of a chunk that is not empty.
Merge(actions) ==
  /\ merges < MaxChunks
  /\ merges' = merges + 1
  /\ queue' = Merged(Chunk(actions))
  /\ UNCHANGED lastCommand

\* get() pops the next command.
Pop ==
  /\ queue # <<>>
  /\ queue' = Tail(queue)
  /\ lastCommand' = Head(queue)
  /\ UNCHANGED merges

\* get() on an empty queue, and what it returns.
PopNothing == queue = <<>> /\ UNCHANGED bufferVars
Held == IF Hold THEN lastCommand ELSE NoCommand

\* clear() leaves _last_command alone.
Clear == queue' = <<>> /\ UNCHANGED <<lastCommand, merges>>

----------------------------------------------------------------------------
BufferTypeOK ==
  /\ queue \in Seq(Command)
  /\ lastCommand \in Command \cup {NoCommand}
  /\ merges \in 0 .. MaxChunks

Earlier(s, t) == s[1] < t[1] \/ (s[1] = t[1] /\ s[2] < t[2])

(* Commands come out in the order of their own ids, chunk after chunk and  *)
(* step after step, although each merge rebuilds the queue.  An old step   *)
(* that was blended has no command of its own any more: it comes out with  *)
(* the new one, and so behind the rest of its chunk (merge() blends the    *)
(* head of the queue and puts it behind what remains).                     *)
InOrder ==
  [][(lastCommand' # lastCommand /\ lastCommand # NoCommand)
       => Earlier(lastCommand.id, lastCommand'.id)]_bufferVars

Sources(commands) == UNION {commands[i].from : i \in DOMAIN commands}

(* A merge drops nothing: every step that was waiting still is, by itself  *)
(* or blended into a new command.  The exception is a chunk shorter than   *)
(* the overlap, for which zip() drops the surplus of the old steps.        *)
MergeKeepsCommands ==
  [][merges' # merges =>
       \/ Sources(queue) \subseteq Sources(queue')
       \/ Cardinality({s \in Sources(queue') : s[1] = merges'}) < Least(Len(queue), Horizon)
    ]_bufferVars

(* No step is taken out twice, as a command or as a part of one: what went *)
(* into a command that is taken out is in nothing that waits, and a step   *)
(* comes into the queue with the merge of its own chunk and never again    *)
(* (hold_on_empty repeats the last command without taking one out).        *)
NothingRepeated ==
  [][/\ lastCommand' # lastCommand => lastCommand'.from \cap Sources(queue') = {}
     /\ \A s \in Sources(queue') \ Sources(queue) : merges' # merges /\ s[1] = merges'
    ]_bufferVars

(* What the buffer promises, however merges and the loop's get() alternate:*)
(* each command in the order of its id, no step twice, and of what waits   *)
(* at a merge no step lost but what a short chunk leaves unblended.        *)
CommandsFaithful == InOrder /\ MergeKeepsCommands /\ NothingRepeated

============================================================================
