------------------------- MODULE ControlLoopProofs -------------------------
(***************************************************************************)
(* What a stop and the chunk buffer promise, for any chunks, any horizon   *)
(* and any number of control loop threads: at most one late command for    *)
(* each, nothing out of a buffer that was cleared, commands in order, and  *)
(* no step lost or repeated however merges and the loop's get() alternate. *)
(***************************************************************************)
EXTENDS ControlLoop, FiniteSetTheorems, FunctionTheorems, SequenceTheorems, TLAPS

----------------------------------------------------------------------------
(* The operators of the buffer.                                            *)

\* A chunk as the LLM's thread builds it, command by command.
LEMMA ChunkShape ==
  ASSUME merges \in 0 .. MaxChunks, merges < MaxChunks,
         NEW actions \in Seq(Action)
  PROVE  /\ Chunk(actions) \in Seq(Command)
         /\ Len(Chunk(actions)) = Len(actions)
         /\ \A i \in 1 .. Len(actions) : /\ Chunk(actions)[i].id = <<merges + 1, i>>
                                         /\ Chunk(actions)[i].from = {<<merges + 1, i>>}
<1>. DEFINE c == Chunk(actions)
<1>1. Len(actions) \in Nat /\ DOMAIN actions = 1 .. Len(actions)
  BY LenProperties
<1>2. ASSUME NEW i \in 1 .. Len(actions)
      PROVE  /\ c[i] \in Command
             /\ c[i].id = <<merges + 1, i>> /\ c[i].from = {<<merges + 1, i>>}
  <2>1. c[i] = [action |-> actions[i], id |-> <<merges + 1, i>>, from |-> {<<merges + 1, i>>}]
    BY <1>1 DEF Chunk
  <2>2. <<merges + 1, i>> \in Step /\ actions[i] \in Action
    BY <1>1, BufferAssumption DEF Step
  <2>. QED
    BY <2>1, <2>2 DEF Command
<1>3. c \in [1 .. Len(actions) -> Command]
  BY <1>1, <1>2 DEF Chunk
<1>. QED
  BY <1>1, <1>2, <1>3

LEMMA LeastBounds ==
  ASSUME NEW m \in Nat, NEW n \in Nat
  PROVE  /\ Least(m, n) \in Nat /\ Least(m, n) <= m /\ Least(m, n) <= n
         /\ Least(m, n) = m \/ Least(m, n) = n
BY DEF Least

\* One command blended into another.
Joined(new, old) == [new EXCEPT !.from = @ \cup old.from]

LEMMA JoinedType ==
  ASSUME NEW new \in Command, NEW old \in Command
  PROVE  /\ Joined(new, old) \in Command
         /\ Joined(new, old).id = new.id
         /\ Joined(new, old).from = new.from \cup old.from
BY DEF Joined, Command

LEMMA BlendedShape ==
  ASSUME NEW current \in Seq(Command), NEW incoming \in Seq(Command)
  PROVE  /\ Blended(current, incoming) \in Seq(Command)
         /\ Len(Blended(current, incoming)) = Least(Len(current), Len(incoming))
         /\ \A i \in 1 .. Least(Len(current), Len(incoming)) :
              Blended(current, incoming)[i] = Joined(incoming[i], current[i])
<1>. DEFINE n == Least(Len(current), Len(incoming))
            b == Blended(current, incoming)
<1>1. n \in Nat /\ n <= Len(current) /\ n <= Len(incoming)
  BY LeastBounds
<1>2. ASSUME NEW i \in 1 .. n
      PROVE  b[i] = Joined(incoming[i], current[i]) /\ b[i] \in Command
  <2>1. current[i] \in Command /\ incoming[i] \in Command
    BY <1>1
  <2>2. b[i] = Joined(incoming[i], current[i])
    BY DEF Blended, Joined
  <2>. QED
    BY <2>1, <2>2, JoinedType
<1>3. b \in [1 .. n -> Command]
  BY <1>2 DEF Blended
<1>. QED
  BY <1>1, <1>2, <1>3

\* Where the elements of three sequences in a row are.
LEMMA ConcatAt ==
  ASSUME NEW S, NEW a \in Seq(S), NEW b \in Seq(S)
  PROVE  /\ a \o b \in Seq(S) /\ Len(a \o b) = Len(a) + Len(b)
         /\ \A i \in 1 .. Len(a) : (a \o b)[i] = a[i]
         /\ \A i \in 1 .. Len(b) : (a \o b)[Len(a) + i] = b[i]
<1>. DEFINE ab == a \o b
<1>1. /\ ab \in Seq(S) /\ Len(ab) = Len(a) + Len(b)
      /\ \A i \in 1 .. Len(a) + Len(b) : ab[i] = IF i <= Len(a) THEN a[i] ELSE b[i - Len(a)]
  BY ConcatProperties
<1>2. Len(a) \in Nat /\ Len(b) \in Nat
  BY LenProperties
<1>. HIDE DEF ab
<1>3. ASSUME NEW i \in 1 .. Len(a)
      PROVE  ab[i] = a[i]
  <2>1. i \in 1 .. Len(a) + Len(b) /\ i <= Len(a)
    BY <1>2
  <2>. QED
    BY <2>1, <1>1
<1>4. ASSUME NEW i \in 1 .. Len(b)
      PROVE  ab[Len(a) + i] = b[i]
  <2>1. Len(a) + i \in 1 .. Len(a) + Len(b) /\ ~(Len(a) + i <= Len(a)) /\ Len(a) + i - Len(a) = i
    BY <1>2
  <2>2. ab[Len(a) + i] = b[Len(a) + i - Len(a)]
    BY <2>1, <1>1
  <2>. QED
    BY <2>1, <2>2
<1>. QED
  BY <1>1, <1>3, <1>4 DEF ab

LEMMA ConcatThreeAt ==
  ASSUME NEW S, NEW a \in Seq(S), NEW b \in Seq(S), NEW c \in Seq(S)
  PROVE  /\ (a \o b) \o c \in Seq(S) /\ Len((a \o b) \o c) = Len(a) + Len(b) + Len(c)
         /\ \A i \in 1 .. Len(a) : ((a \o b) \o c)[i] = a[i]
         /\ \A i \in 1 .. Len(b) : ((a \o b) \o c)[Len(a) + i] = b[i]
         /\ \A i \in 1 .. Len(c) : ((a \o b) \o c)[Len(a) + Len(b) + i] = c[i]
<1>. DEFINE ab == a \o b
            abc == ab \o c
<1>1. /\ ab \in Seq(S) /\ Len(ab) = Len(a) + Len(b)
      /\ \A i \in 1 .. Len(a) : ab[i] = a[i]
      /\ \A i \in 1 .. Len(b) : ab[Len(a) + i] = b[i]
  BY ConcatAt
<1>. HIDE DEF ab
<1>2. ab \in Seq(S)
  BY <1>1
<1>3. /\ abc \in Seq(S) /\ Len(abc) = Len(ab) + Len(c)
      /\ \A i \in 1 .. Len(ab) : abc[i] = ab[i]
      /\ \A i \in 1 .. Len(c) : abc[Len(ab) + i] = c[i]
  BY <1>2, ConcatAt
<1>4. Len(a) \in Nat /\ Len(b) \in Nat /\ Len(c) \in Nat
  BY LenProperties
<1>. HIDE DEF abc
<1>5. \A i \in 1 .. Len(a) : i \in 1 .. Len(ab)
  BY <1>1, <1>4
<1>6. \A i \in 1 .. Len(b) : Len(a) + i \in 1 .. Len(ab)
  BY <1>1, <1>4
<1>. QED
  BY <1>1, <1>3, <1>5, <1>6 DEF ab, abc

(* The queue after a merge: what is beyond the overlap, and then the whole  *)
(* new chunk, of which the first commands have old ones blended in.         *)
Overlap == Least(Len(queue), Horizon)

LEMMA OverlapBounds ==
  ASSUME queue \in Seq(Command)
  PROVE  Overlap \in 0 .. Len(queue) /\ Len(queue) \in Nat
<1>1. Len(queue) \in Nat /\ Horizon \in Nat
  BY BufferAssumption, LenProperties
<1>2. Least(Len(queue), Horizon) \in Nat /\ Least(Len(queue), Horizon) <= Len(queue)
  BY <1>1, LeastBounds
<1>. QED
  BY <1>1, <1>2 DEF Overlap

LEMMA MergedShape ==
  ASSUME queue \in Seq(Command), NEW chunk \in Seq(Command)
  PROVE  /\ Merged(chunk) \in Seq(Command)
         /\ Len(Merged(chunk)) = Len(queue) - Overlap + Len(chunk)
         /\ \A i \in 1 .. Len(queue) - Overlap : Merged(chunk)[i] = queue[Overlap + i]
         /\ \A j \in 1 .. Len(chunk) :
              Merged(chunk)[Len(queue) - Overlap + j] =
                IF j <= Overlap THEN Joined(chunk[j], queue[j]) ELSE chunk[j]
<1>. DEFINE o == Overlap
            old == SubSeq(queue, o + 1, Len(queue))
            both == Blended(SubSeq(queue, 1, o), chunk)
            new == SubSeq(chunk, o + 1, Len(chunk))
            n == Least(o, Len(chunk))
<1>1. o \in Nat /\ o <= Len(queue) /\ Len(queue) \in Nat /\ Len(chunk) \in Nat
  <2>1. Overlap \in 0 .. Len(queue) /\ Len(queue) \in Nat /\ Len(chunk) \in Nat
    BY OverlapBounds, LenProperties
  <2>. QED
    BY <2>1
<1>2. n \in Nat /\ n <= o /\ n <= Len(chunk) /\ (n = o \/ n = Len(chunk))
  BY <1>1, LeastBounds
<1>. HIDE DEF o
<1>3. /\ old \in Seq(Command) /\ Len(old) = Len(queue) - o
      /\ \A i \in 1 .. Len(queue) - o : old[i] = queue[o + i]
  <2>1. \A i \in o + 1 .. Len(queue) : queue[i] \in Command
    BY <1>1
  <2>. QED
    BY <1>1, <2>1, SubSeqProperties
<1>4. /\ SubSeq(queue, 1, o) \in Seq(Command) /\ Len(SubSeq(queue, 1, o)) = o
      /\ \A i \in 1 .. o : SubSeq(queue, 1, o)[i] = queue[i]
  <2>1. \A i \in 1 .. o : queue[i] \in Command
    BY <1>1
  <2>. QED
    BY <1>1, <2>1, SubSeqProperties
<1>5. /\ both \in Seq(Command) /\ Len(both) = n
      /\ \A i \in 1 .. n : both[i] = Joined(chunk[i], queue[i])
  <2>. DEFINE front == SubSeq(queue, 1, o)
  <2>1. front \in Seq(Command) /\ Len(front) = o /\ \A i \in 1 .. o : front[i] = queue[i]
    BY <1>4
  <2>. HIDE DEF front
  <2>2. /\ Blended(front, chunk) \in Seq(Command)
        /\ Len(Blended(front, chunk)) = Least(Len(front), Len(chunk))
        /\ \A i \in 1 .. Least(Len(front), Len(chunk)) :
             Blended(front, chunk)[i] = Joined(chunk[i], front[i])
    BY <2>1, BlendedShape
  <2>. QED
    BY <2>1, <2>2, <1>1, <1>2 DEF front
<1>6. /\ new \in Seq(Command)
      /\ Len(new) = IF o + 1 <= Len(chunk) THEN Len(chunk) - o ELSE 0
      /\ \A i \in 1 .. Len(chunk) - o : new[i] = chunk[o + i]
  <2>1. \A i \in o + 1 .. Len(chunk) : chunk[i] \in Command
    BY <1>1
  <2>. QED
    BY <1>1, <2>1, SubSeqProperties
<1>. HIDE DEF old, both, new, n
<1>. DEFINE all == (old \o both) \o new
<1>7. Merged(chunk) = all
  BY DEF Merged, o, Overlap, old, both, new
<1>8. old \in Seq(Command) /\ both \in Seq(Command) /\ new \in Seq(Command)
  BY <1>3, <1>5, <1>6
<1>9. /\ all \in Seq(Command) /\ Len(all) = Len(old) + Len(both) + Len(new)
      /\ \A i \in 1 .. Len(old) : all[i] = old[i]
      /\ \A i \in 1 .. Len(both) : all[Len(old) + i] = both[i]
      /\ \A i \in 1 .. Len(new) : all[Len(old) + Len(both) + i] = new[i]
  <2>1. all \in Seq(Command) /\ Len(all) = Len(old) + Len(both) + Len(new)
    BY <1>8, ConcatThreeAt
  <2>2. \A i \in 1 .. Len(old) : all[i] = old[i]
    BY <1>8, ConcatThreeAt
  <2>3. \A i \in 1 .. Len(both) : all[Len(old) + i] = both[i]
    BY <1>8, ConcatThreeAt
  <2>4. \A i \in 1 .. Len(new) : all[Len(old) + Len(both) + i] = new[i]
    BY <1>8, ConcatThreeAt
  <2>. QED
    BY <2>1, <2>2, <2>3, <2>4
<1>. HIDE DEF all
<1>10. Len(old) = Len(queue) - o /\ Len(both) = n /\ Len(new) = Len(chunk) - n
  <2>1. Len(new) = IF o + 1 <= Len(chunk) THEN Len(chunk) - o ELSE 0
    BY <1>6
  <2>. QED
    <3>1. Len(old) = Len(queue) - o /\ Len(both) = n
      BY <1>3, <1>5
    <3>. QED
      BY <3>1, <2>1, <1>1, <1>2
<1>11. Len(all) = Len(queue) - o + Len(chunk)
  BY <1>1, <1>2, <1>9, <1>10
<1>12. ASSUME NEW i \in 1 .. Len(queue) - o
       PROVE  all[i] = queue[o + i]
  BY <1>3, <1>9, <1>10
<1>13. ASSUME NEW j \in 1 .. Len(chunk)
       PROVE  all[Len(queue) - o + j] = IF j <= o THEN Joined(chunk[j], queue[j]) ELSE chunk[j]
  <2>1. CASE j <= n
    <3>1. j \in 1 .. n /\ j <= o
      BY <2>1, <1>1, <1>2
    <3>2. all[Len(queue) - o + j] = both[j]
      BY <3>1, <1>9, <1>10
    <3>. QED
      BY <3>1, <3>2, <1>5
  <2>2. CASE j > n
    <3>1. n = o /\ j > o
      BY <2>2, <1>1, <1>2
    <3>2. j - o \in 1 .. Len(chunk) - o /\ j - o \in 1 .. Len(new)
          /\ Len(queue) - o + n + (j - o) = Len(queue) - o + j /\ o + (j - o) = j
      BY <3>1, <1>1, <1>10
    <3>3. all[Len(queue) - o + n + (j - o)] = new[j - o]
      BY <3>2, <1>9, <1>10
    <3>4. new[j - o] = chunk[o + (j - o)]
      BY <3>2, <1>6
    <3>. QED
      <4>1. all[Len(queue) - o + j] = new[j - o]
        BY <3>2, <3>3
      <4>2. new[j - o] = chunk[j]
        BY <3>2, <3>4
      <4>. QED
        BY <4>1, <4>2, <3>1, <1>1
  <2>. QED
    BY <2>1, <2>2, <1>1, <1>2
<1>. QED
  BY <1>7, <1>9, <1>11, <1>12, <1>13 DEF o

----------------------------------------------------------------------------
(* The buffer's own invariant: ids and sources are of chunks that were      *)
(* merged, the queue is in order, and the last command is before all of it. *)
Merges(commands) ==
  \A i \in DOMAIN commands : /\ commands[i].id[1] <= merges
                             /\ \A s \in commands[i].from : s[1] <= merges

Sorted == \A i, j \in DOMAIN queue : i < j => Earlier(queue[i].id, queue[j].id)

LastBefore ==
  lastCommand # NoCommand =>
    /\ lastCommand.id[1] <= merges
    /\ \A i \in DOMAIN queue : Earlier(lastCommand.id, queue[i].id)

\* No step went into two commands that wait.
Disjoint == \A i, j \in DOMAIN queue : i # j => queue[i].from \cap queue[j].from = {}

BufferInv == BufferTypeOK /\ Merges(queue) /\ Sorted /\ LastBefore /\ Disjoint

LEMMA CommandFields ==
  ASSUME NEW c \in Command
  PROVE  /\ c.id \in Step /\ c.id[1] \in 1 .. MaxChunks /\ c.id[2] \in Nat
         /\ c.from \subseteq Step /\ \A s \in c.from : s[1] \in 1 .. MaxChunks
         /\ c.action \in Action /\ c # NoCommand
<1>1. c # NoCommand
  BY BufferAssumption
<1>. QED
  BY <1>1 DEF Command, Step

LEMMA BufferInvInit == BufferInit => BufferInv
<1>. SUFFICES ASSUME BufferInit PROVE BufferInv
  OBVIOUS
<1>1. queue = <<>> /\ lastCommand = NoCommand /\ merges = 0 /\ DOMAIN queue = {}
  BY DEF BufferInit
<1>. QED
  BY <1>1, BufferAssumption DEF BufferInv, BufferTypeOK, Merges, Sorted, LastBefore, Disjoint

(* Every command of the queue after a merge is an old one, or it is of the *)
(* new chunk and so later than all the old ones.                            *)
LEMMA AfterMerge ==
  ASSUME BufferInv, NEW actions \in Seq(Action), Merge(actions)
  PROVE  /\ queue' \in Seq(Command) /\ merges' = merges + 1 /\ merges' \in 0 .. MaxChunks
         /\ lastCommand' = lastCommand
         /\ Len(queue) \in Nat /\ Overlap \in 0 .. Len(queue) /\ Len(actions) \in Nat
         /\ Len(queue') = Len(queue) - Overlap + Len(actions)
         /\ \A i \in 1 .. Len(queue) - Overlap : queue'[i] = queue[Overlap + i]
         /\ \A j \in 1 .. Len(actions) :
              /\ queue'[Len(queue) - Overlap + j].id = <<merges + 1, j>>
              /\ queue'[Len(queue) - Overlap + j].from =
                   {<<merges + 1, j>>} \cup (IF j <= Overlap THEN queue[j].from ELSE {})
<1>. DEFINE c == Chunk(actions)
<1>1. queue \in Seq(Command) /\ merges \in 0 .. MaxChunks /\ Len(queue) \in Nat
  BY DEF BufferInv, BufferTypeOK
<1>2. merges < MaxChunks /\ merges' = merges + 1 /\ queue' = Merged(c)
      /\ lastCommand' = lastCommand
  BY DEF Merge
<1>3. /\ c \in Seq(Command) /\ Len(c) = Len(actions) /\ Len(actions) \in Nat
      /\ \A i \in 1 .. Len(actions) : /\ c[i].id = <<merges + 1, i>>
                                      /\ c[i].from = {<<merges + 1, i>>}
  BY <1>1, <1>2, ChunkShape
<1>. HIDE DEF c
<1>4. /\ queue' \in Seq(Command)
      /\ Len(queue') = Len(queue) - Overlap + Len(c)
      /\ \A i \in 1 .. Len(queue) - Overlap : queue'[i] = queue[Overlap + i]
      /\ \A j \in 1 .. Len(c) :
           queue'[Len(queue) - Overlap + j] = IF j <= Overlap THEN Joined(c[j], queue[j]) ELSE c[j]
  <2>1. c \in Seq(Command)
    BY <1>3
  <2>2. /\ Merged(c) \in Seq(Command)
        /\ Len(Merged(c)) = Len(queue) - Overlap + Len(c)
        /\ \A i \in 1 .. Len(queue) - Overlap : Merged(c)[i] = queue[Overlap + i]
        /\ \A j \in 1 .. Len(c) :
             Merged(c)[Len(queue) - Overlap + j] =
               IF j <= Overlap THEN Joined(c[j], queue[j]) ELSE c[j]
    BY <1>1, <2>1, MergedShape
  <2>. QED
    BY <1>2, <2>2
<1>5. Overlap \in 0 .. Len(queue)
  BY <1>1, OverlapBounds
<1>6. ASSUME NEW j \in 1 .. Len(actions)
      PROVE  /\ queue'[Len(queue) - Overlap + j].id = <<merges + 1, j>>
             /\ queue'[Len(queue) - Overlap + j].from =
                  {<<merges + 1, j>>} \cup (IF j <= Overlap THEN queue[j].from ELSE {})
  <2>1. c[j] \in Command /\ c[j].id = <<merges + 1, j>> /\ c[j].from = {<<merges + 1, j>>}
    BY <1>3
  <2>2. queue'[Len(queue) - Overlap + j] = IF j <= Overlap THEN Joined(c[j], queue[j]) ELSE c[j]
    BY <1>3, <1>4
  <2>3. CASE j <= Overlap
    <3>1. queue[j] \in Command
      BY <2>3, <1>1, <1>5
    <3>2. /\ Joined(c[j], queue[j]).id = c[j].id
          /\ Joined(c[j], queue[j]).from = c[j].from \cup queue[j].from
      BY <3>1, <2>1, JoinedType
    <3>. QED
      BY <2>1, <2>2, <2>3, <3>2
  <2>4. CASE ~(j <= Overlap)
    BY <2>1, <2>2, <2>4
  <2>. QED
    BY <2>3, <2>4
<1>7. merges' \in 0 .. MaxChunks
  BY <1>1, <1>2, BufferAssumption
<1>. QED
  BY <1>1, <1>2, <1>3, <1>4, <1>5, <1>6, <1>7

(* Where a step in the queue after a merge comes from: it is the chunk's    *)
(* own, or was in the one old command that is there now, by itself or       *)
(* blended into the chunk's.                                                *)
Origin(i) == IF i <= Len(queue) - Overlap THEN Overlap + i ELSE i - (Len(queue) - Overlap)

LEMMA SourcesAfterMerge ==
  ASSUME BufferInv, NEW actions \in Seq(Action), Merge(actions),
         NEW i \in DOMAIN queue', NEW s \in queue'[i].from
  PROVE  \/ i > Len(queue) - Overlap /\ s = <<merges + 1, i - (Len(queue) - Overlap)>>
         \/ Origin(i) \in DOMAIN queue /\ s \in queue[Origin(i)].from /\ s[1] # merges + 1
            /\ (i > Len(queue) - Overlap => Origin(i) <= Overlap)
<1>. DEFINE m == Len(queue) - Overlap
<1>1. /\ queue' \in Seq(Command) /\ Len(queue) \in Nat /\ Overlap \in 0 .. Len(queue)
      /\ Len(actions) \in Nat /\ Len(queue') = m + Len(actions)
  BY AfterMerge
<1>2. DOMAIN queue = 1 .. Len(queue) /\ DOMAIN queue' = 1 .. m + Len(actions) /\ merges \in Nat
  BY <1>1 DEF BufferInv, BufferTypeOK
<1>3. ASSUME NEW k \in DOMAIN queue, s \in queue[k].from
      PROVE  s[1] # merges + 1
  <2>1. queue[k] \in Command /\ s[1] <= merges
    BY <1>2, <1>3 DEF BufferInv, BufferTypeOK, Merges
  <2>2. s[1] \in Int
    BY <1>3, <2>1, CommandFields
  <2>. QED
    BY <2>1, <2>2, <1>2
<1>4. CASE i <= m
  <2>1. i \in 1 .. m /\ Overlap + i \in DOMAIN queue /\ Origin(i) = Overlap + i /\ ~(i > m)
    BY <1>1, <1>2, <1>4 DEF Origin
  <2>2. queue'[i] = queue[Overlap + i]
    BY <2>1, AfterMerge
  <2>. QED
    BY <2>1, <2>2, <1>3
<1>5. CASE ~(i <= m)
  <2>. DEFINE j == i - m
  <2>1. i > m /\ j \in 1 .. Len(actions) /\ m + j = i /\ Origin(i) = j
    BY <1>1, <1>2, <1>5 DEF Origin
  <2>2. queue'[m + j].from = {<<merges + 1, j>>} \cup (IF j <= Overlap THEN queue[j].from ELSE {})
    BY <2>1, AfterMerge
  <2>3. s = <<merges + 1, j>> \/ (j <= Overlap /\ s \in queue[j].from)
    BY <2>1, <2>2
  <2>4. j <= Overlap => j \in DOMAIN queue
    BY <2>1, <1>1, <1>2
  <2>. QED
    BY <2>1, <2>3, <2>4, <1>3
<1>. QED
  BY <1>4, <1>5

\* Two places of the queue with the same origin: not on the same side of m, and across
\* it one is beyond the overlap.
LEMMA OneEachSide ==
  ASSUME NEW i \in Int, NEW j \in Int, NEW m \in Int, NEW overlap \in Int,
         i >= 1, j >= 1, i # j,
         (IF i <= m THEN overlap + i ELSE i - m) = (IF j <= m THEN overlap + j ELSE j - m),
         i > m => i - m <= overlap, j > m => j - m <= overlap
  PROVE  FALSE
<1>1. CASE i <= m
  BY <1>1
<1>2. CASE i > m
  BY <1>2
<1>. QED
  BY <1>1, <1>2

LEMMA DisjointMerge ==
  ASSUME BufferInv, NEW actions \in Seq(Action), Merge(actions)
  PROVE  Disjoint'
<1>. DEFINE m == Len(queue) - Overlap
<1>1. /\ queue' \in Seq(Command) /\ Len(queue) \in Nat /\ Overlap \in 0 .. Len(queue)
      /\ Len(actions) \in Nat /\ Len(queue') = m + Len(actions)
  BY AfterMerge
<1>2. DOMAIN queue' = 1 .. m + Len(actions) /\ merges \in Nat
  BY <1>1 DEF BufferInv, BufferTypeOK
<1>. SUFFICES ASSUME NEW i \in DOMAIN queue', NEW j \in DOMAIN queue', i # j,
                     NEW s \in queue'[i].from, s \in queue'[j].from
              PROVE  FALSE
  BY DEF Disjoint
<1>3. \/ i > m /\ s = <<merges + 1, i - m>>
      \/ Origin(i) \in DOMAIN queue /\ s \in queue[Origin(i)].from /\ s[1] # merges + 1
         /\ (i > m => Origin(i) <= Overlap)
  BY SourcesAfterMerge
<1>4. \/ j > m /\ s = <<merges + 1, j - m>>
      \/ Origin(j) \in DOMAIN queue /\ s \in queue[Origin(j)].from /\ s[1] # merges + 1
         /\ (j > m => Origin(j) <= Overlap)
  BY SourcesAfterMerge
<1>5. CASE s[1] = merges + 1
  <2>1. <<merges + 1, i - m>> = <<merges + 1, j - m>>
    BY <1>3, <1>4, <1>5
  <2>2. i - m = j - m
    BY <2>1
  <2>. QED
    BY <2>2, <1>1, <1>2
<1>6. CASE s[1] # merges + 1
  <2>1. /\ Origin(i) \in DOMAIN queue /\ s \in queue[Origin(i)].from /\ (i > m => Origin(i) <= Overlap)
        /\ Origin(j) \in DOMAIN queue /\ s \in queue[Origin(j)].from /\ (j > m => Origin(j) <= Overlap)
    BY <1>3, <1>4, <1>6
  <2>2. Origin(i) = Origin(j)
    BY <2>1 DEF BufferInv, Disjoint
  <2>3. i # j /\ i \in Int /\ j \in Int /\ m \in Int /\ i >= 1 /\ j >= 1 /\ Overlap \in Int
    BY <1>1, <1>2
  <2>4. /\ (IF i <= m THEN Overlap + i ELSE i - m) = (IF j <= m THEN Overlap + j ELSE j - m)
        /\ i > m => i - m <= Overlap
        /\ j > m => j - m <= Overlap
    BY <2>1, <2>2, <2>3 DEF Origin
  <2>. QED
    BY <2>3, <2>4, OneEachSide
<1>. QED
  BY <1>5, <1>6

LEMMA BufferInvMerge ==
  ASSUME BufferInv, NEW actions \in Seq(Action), Merge(actions)
  PROVE  BufferInv'
<1>. DEFINE m == Len(queue) - Overlap
<1>1. /\ queue' \in Seq(Command) /\ merges' = merges + 1 /\ merges' \in 0 .. MaxChunks
      /\ lastCommand' = lastCommand
      /\ Len(queue) \in Nat /\ Overlap \in 0 .. Len(queue) /\ Len(actions) \in Nat
      /\ Len(queue') = m + Len(actions)
  BY AfterMerge
<1>2. \A i \in 1 .. m : queue'[i] = queue[Overlap + i]
  BY AfterMerge
<1>3. \A j \in 1 .. Len(actions) :
        /\ queue'[m + j].id = <<merges + 1, j>>
        /\ queue'[m + j].from = {<<merges + 1, j>>} \cup (IF j <= Overlap THEN queue[j].from ELSE {})
  BY AfterMerge
<1>4. m \in Nat /\ DOMAIN queue = 1 .. Len(queue) /\ DOMAIN queue' = 1 .. m + Len(actions)
  BY <1>1 DEF BufferInv, BufferTypeOK
<1>5. \A i \in 1 .. m : Overlap + i \in DOMAIN queue
  BY <1>1, <1>4
<1>. HIDE DEF m
<1>6. merges \in Nat /\ \A i \in DOMAIN queue : queue[i] \in Command
  BY <1>4 DEF BufferInv, BufferTypeOK
<1>7. ASSUME NEW i \in DOMAIN queue'
      PROVE  \/ i \in 1 .. m
             \/ i - m \in 1 .. Len(actions) /\ m + (i - m) = i /\ i > m
  BY <1>1, <1>4
<1>8. ASSUME NEW i \in DOMAIN queue
      PROVE  queue[i].id[1] <= merges /\ \A s \in queue[i].from : s[1] <= merges
  BY DEF BufferInv, Merges
<1>9. BufferTypeOK'
  BY <1>1 DEF BufferTypeOK, BufferInv
<1>10. Merges(queue)'
  <2>. SUFFICES ASSUME NEW i \in DOMAIN queue'
                PROVE  queue'[i].id[1] <= merges + 1 /\ \A s \in queue'[i].from : s[1] <= merges + 1
    BY <1>1 DEF Merges
  <2>1. CASE i \in 1 .. m
    <3>1. queue'[i] = queue[Overlap + i] /\ Overlap + i \in DOMAIN queue /\ queue[Overlap + i] \in Command
      BY <2>1, <1>2, <1>5, <1>6
    <3>2. queue[Overlap + i].id[1] <= merges /\ \A s \in queue[Overlap + i].from : s[1] <= merges
      BY <3>1, <1>8
    <3>3. queue[Overlap + i].id[1] \in Int /\ \A s \in queue[Overlap + i].from : s[1] \in Int
      BY <3>1, CommandFields
    <3>. QED
      BY <3>1, <3>2, <3>3, <1>6
  <2>2. CASE i > m
    <3>. DEFINE j == i - m
    <3>1. j \in 1 .. Len(actions) /\ m + j = i
      BY <2>2, <1>4, <1>7
    <3>. HIDE DEF j
    <3>2. /\ queue'[i].id = <<merges + 1, j>>
          /\ queue'[i].from = {<<merges + 1, j>>} \cup (IF j <= Overlap THEN queue[j].from ELSE {})
      BY <3>1, <1>3
    <3>3. ASSUME j <= Overlap PROVE \A s \in queue[j].from : s[1] <= merges /\ s[1] \in Int
      <4>1. j \in DOMAIN queue
        BY <3>1, <3>3, <1>1, <1>4
      <4>. QED
        BY <4>1, <1>6, <1>8, CommandFields
    <3>. QED
      BY <3>2, <3>3, <1>6
  <2>. QED
    BY <2>1, <2>2, <1>7
<1>11. Sorted'
  <2>. SUFFICES ASSUME NEW i \in DOMAIN queue', NEW j \in DOMAIN queue', i < j
                PROVE  Earlier(queue'[i].id, queue'[j].id)
    BY DEF Sorted
  <2>1. CASE j \in 1 .. m
    <3>1. i \in 1 .. m
      BY <2>1, <1>4
    <3>2. /\ queue'[i] = queue[Overlap + i] /\ queue'[j] = queue[Overlap + j]
          /\ Overlap + i \in DOMAIN queue /\ Overlap + j \in DOMAIN queue
          /\ Overlap + i < Overlap + j
      BY <2>1, <3>1, <1>1, <1>2, <1>5
    <3>. QED
      BY <3>2 DEF BufferInv, Sorted
  <2>2. CASE i \in 1 .. m /\ j > m
    <3>1. queue'[i].id[1] <= merges /\ queue'[i].id[1] \in Int
      BY <2>2, <1>2, <1>5, <1>6, <1>8, CommandFields
    <3>2. queue'[j].id[1] = merges + 1
      <4>1. j - m \in 1 .. Len(actions) /\ m + (j - m) = j
        BY <2>2, <1>4, <1>7
      <4>. QED
        BY <4>1, <1>3
    <3>. QED
      BY <3>1, <3>2, <1>6 DEF Earlier
  <2>3. CASE i > m
    <3>1. /\ i - m \in 1 .. Len(actions) /\ m + (i - m) = i
          /\ j - m \in 1 .. Len(actions) /\ m + (j - m) = j /\ i - m < j - m
      BY <2>3, <1>4, <1>7
    <3>2. queue'[i].id = <<merges + 1, i - m>> /\ queue'[j].id = <<merges + 1, j - m>>
      BY <3>1, <1>3
    <3>. QED
      BY <3>1, <3>2 DEF Earlier
  <2>. QED
    BY <2>1, <2>2, <2>3, <1>7
<1>12. LastBefore'
  <2>. SUFFICES ASSUME lastCommand # NoCommand
                PROVE  /\ lastCommand.id[1] <= merges + 1
                       /\ \A i \in DOMAIN queue' : Earlier(lastCommand.id, queue'[i].id)
    BY <1>1 DEF LastBefore
  <2>1. /\ lastCommand \in Command /\ lastCommand.id[1] <= merges
        /\ \A i \in DOMAIN queue : Earlier(lastCommand.id, queue[i].id)
    BY DEF BufferInv, BufferTypeOK, LastBefore
  <2>2. lastCommand.id[1] \in Int
    BY <2>1, CommandFields
  <2>3. ASSUME NEW i \in DOMAIN queue' PROVE Earlier(lastCommand.id, queue'[i].id)
    <3>1. CASE i \in 1 .. m
      BY <3>1, <2>1, <1>2, <1>5
    <3>2. CASE i > m
      <4>1. i - m \in 1 .. Len(actions) /\ m + (i - m) = i
        BY <3>2, <1>4, <1>7
      <4>2. queue'[i].id[1] = merges + 1
        BY <4>1, <1>3
      <4>. QED
        BY <4>2, <2>1, <2>2, <1>6 DEF Earlier
    <3>. QED
      BY <3>1, <3>2, <1>7
  <2>. QED
    BY <2>1, <2>2, <2>3, <1>6
<1>13. Disjoint'
  BY DisjointMerge
<1>. QED
  BY <1>9, <1>10, <1>11, <1>12, <1>13 DEF BufferInv

LEMMA BufferInvPop ==
  ASSUME BufferInv, Pop
  PROVE  /\ BufferInv' /\ Head(queue) \in Command
         /\ Head(queue).from \cap Sources(queue') = {} /\ Sources(queue') \subseteq Sources(queue)
         /\ queue' \in Seq(Command) /\ \A i \in DOMAIN queue' : i + 1 \in DOMAIN queue /\ queue'[i] = queue[i + 1]
<1>1. queue \in Seq(Command) /\ queue # <<>> /\ queue' = Tail(queue) /\ lastCommand' = Head(queue)
      /\ merges' = merges /\ merges \in 0 .. MaxChunks
  BY DEF Pop, BufferInv, BufferTypeOK
<1>2. Len(queue) \in Nat \ {0} /\ DOMAIN queue = 1 .. Len(queue)
  BY <1>1, EmptySeq, LenProperties
<1>3. /\ Tail(queue) \in Seq(Command) /\ Len(Tail(queue)) = Len(queue) - 1
      /\ \A i \in 1 .. Len(Tail(queue)) : Tail(queue)[i] = queue[i + 1]
  BY <1>1, HeadTailProperties
<1>4. Head(queue) = queue[1] /\ 1 \in DOMAIN queue /\ queue[1] \in Command
  BY <1>1, <1>2
<1>5. queue' \in Seq(Command) /\ \A i \in DOMAIN queue' : i + 1 \in DOMAIN queue /\ queue'[i] = queue[i + 1]
                                                          /\ i \in Nat /\ i > 0
  <2>1. DOMAIN queue' = 1 .. Len(queue) - 1
    BY <1>1, <1>3, LenProperties
  <2>. QED
    BY <2>1, <1>1, <1>2, <1>3
<1>6. BufferTypeOK'
  BY <1>1, <1>4, <1>5 DEF BufferTypeOK
<1>7. Merges(queue)'
  BY <1>1, <1>5 DEF Merges, BufferInv
<1>8. Sorted'
  <2>. SUFFICES ASSUME NEW i \in DOMAIN queue', NEW j \in DOMAIN queue', i < j
                PROVE  Earlier(queue'[i].id, queue'[j].id)
    BY DEF Sorted
  <2>1. i + 1 \in DOMAIN queue /\ j + 1 \in DOMAIN queue /\ i + 1 < j + 1
        /\ queue'[i] = queue[i + 1] /\ queue'[j] = queue[j + 1]
    BY <1>5
  <2>. QED
    BY <2>1 DEF BufferInv, Sorted
<1>9. LastBefore'
  <2>1. lastCommand'.id[1] <= merges'
    BY <1>1, <1>4 DEF BufferInv, Merges
  <2>2. ASSUME NEW i \in DOMAIN queue' PROVE Earlier(lastCommand'.id, queue'[i].id)
    <3>1. i + 1 \in DOMAIN queue /\ 1 < i + 1 /\ queue'[i] = queue[i + 1]
      BY <1>5
    <3>. QED
      BY <3>1, <1>1, <1>4 DEF BufferInv, Sorted
  <2>. QED
    BY <2>1, <2>2 DEF LastBefore
<1>10. Disjoint'
  <2>. SUFFICES ASSUME NEW i \in DOMAIN queue', NEW j \in DOMAIN queue', i # j
                PROVE  queue'[i].from \cap queue'[j].from = {}
    BY DEF Disjoint
  <2>1. i + 1 \in DOMAIN queue /\ j + 1 \in DOMAIN queue /\ i + 1 # j + 1
        /\ queue'[i] = queue[i + 1] /\ queue'[j] = queue[j + 1]
    BY <1>5
  <2>. QED
    BY <2>1 DEF BufferInv, Disjoint
<1>11. ASSUME NEW i \in DOMAIN queue'
       PROVE  queue'[i].from \cap Head(queue).from = {} /\ queue'[i].from \subseteq Sources(queue)
  <2>1. i + 1 \in DOMAIN queue /\ 1 # i + 1 /\ queue'[i] = queue[i + 1]
    BY <1>5
  <2>2. queue[i + 1].from \subseteq Sources(queue)
    BY <2>1 DEF Sources
  <2>. QED
    BY <2>1, <2>2, <1>4 DEF BufferInv, Disjoint
<1>12. Head(queue).from \cap Sources(queue') = {} /\ Sources(queue') \subseteq Sources(queue)
  BY <1>11 DEF Sources
<1>. QED
  BY <1>1, <1>4, <1>5, <1>6, <1>7, <1>8, <1>9, <1>10, <1>12 DEF BufferInv

LEMMA BufferInvClear ==
  ASSUME BufferInv, Clear
  PROVE  BufferInv' /\ DOMAIN queue' = {}
<1>1. queue' = <<>> /\ lastCommand' = lastCommand /\ merges' = merges /\ DOMAIN queue' = {}
  BY DEF Clear
<1>. QED
  BY <1>1 DEF BufferInv, BufferTypeOK, Merges, Sorted, LastBefore, Disjoint

LEMMA BufferInvUnchanged ==
  ASSUME BufferInv, UNCHANGED bufferVars
  PROVE  BufferInv'
BY DEF BufferInv, bufferVars, BufferTypeOK, Merges, Sorted, LastBefore, Disjoint

----------------------------------------------------------------------------
(* A stop takes effect within one command.  A loop thread that dispatched   *)
(* one since the flag was cleared is past the point where it would dispatch *)
(* another, and the flag is still down.                                     *)
LateInv ==
  \A l \in Loop : \/ late[l] = 0
                  \/ late[l] = 1 /\ ~active /\ loop[l] \notin {"get", "dispatch"}

IInv == TypeOK /\ BufferInv /\ LateInv /\ StopDiscards

LEMMA IInvInit == Init => IInv
<1>. SUFFICES ASSUME Init PROVE IInv
  OBVIOUS
<1>1. BufferInv /\ queue = <<>> /\ merges = 0 /\ DOMAIN queue = {}
  BY BufferInvInit DEF Init, BufferInit
<1>2. TypeOK
  <2>1. BufferTypeOK
    BY <1>1 DEF BufferInv
  <2>2. /\ loop \in [Loop -> {"unstarted", "exited", "check", "get", "dispatch"} \cup Stopping]
        /\ command \in [Loop -> Command \cup {NoCommand}] /\ late \in [Loop -> Nat]
    BY DEF Init
  <2>3. starts = 0 /\ handle = 0 /\ cleared = 0 /\ 0 \in 0 .. 0 /\ 0 \in 0 .. MaxStarts
    BY LoopAssumption DEF Init
  <2>. QED
    BY <1>1, <2>1, <2>2, <2>3 DEF Init, TypeOK
<1>. QED
  BY <1>1, <1>2 DEF Init, IInv, LateInv, StopDiscards

\* What is left of the invariant in a step of each kind on the buffer.
LEMMA QuietBuffer ==
  ASSUME IInv, UNCHANGED <<bufferVars, cleared>>
  PROVE  BufferInv' /\ StopDiscards' /\ BufferTypeOK' /\ cleared' \in 0 .. merges'
<1>1. BufferInv'
  BY BufferInvUnchanged DEF IInv, bufferVars
<1>. QED
  BY <1>1 DEF IInv, TypeOK, StopDiscards, bufferVars, BufferInv

LEMMA ExecuteChunkInv == IInv /\ ExecuteChunk => IInv'
<1>. SUFFICES ASSUME IInv, ExecuteChunk PROVE IInv'
  OBVIOUS
<1>1. PICK actions \in Chunks : Merge(actions)
  BY DEF ExecuteChunk
<1>2. actions \in Seq(Action) /\ BufferInv
  BY LoopAssumption DEF IInv
<1>3. BufferInv'
  BY <1>1, <1>2, BufferInvMerge
<1>4. /\ queue' \in Seq(Command) /\ merges' = merges + 1
      /\ Len(queue) \in Nat /\ Overlap \in 0 .. Len(queue) /\ Len(actions) \in Nat
      /\ Len(queue') = Len(queue) - Overlap + Len(actions)
  BY <1>1, <1>2, AfterMerge
<1>5. \A i \in 1 .. Len(queue) - Overlap : queue'[i] = queue[Overlap + i]
  BY <1>1, <1>2, AfterMerge
<1>6. \A j \in 1 .. Len(actions) : queue'[Len(queue) - Overlap + j].id = <<merges + 1, j>>
  BY <1>1, <1>2, AfterMerge
<1>7. merges \in Nat /\ cleared \in 0 .. merges /\ cleared' = cleared
      /\ DOMAIN queue = 1 .. Len(queue) /\ DOMAIN queue' = 1 .. Len(queue')
  BY <1>4 DEF IInv, TypeOK, BufferTypeOK, ExecuteChunk
<1>8. StopDiscards'
  <2>. SUFFICES ASSUME NEW i \in DOMAIN queue' PROVE queue'[i].id[1] > cleared
    BY <1>7 DEF StopDiscards
  <2>1. CASE i <= Len(queue) - Overlap
    <3>1. i \in 1 .. Len(queue) - Overlap /\ Overlap + i \in DOMAIN queue
      BY <2>1, <1>4, <1>7
    <3>. QED
      BY <3>1, <1>5 DEF IInv, StopDiscards
  <2>2. CASE i > Len(queue) - Overlap
    <3>. DEFINE j == i - (Len(queue) - Overlap)
    <3>1. j \in 1 .. Len(actions) /\ Len(queue) - Overlap + j = i
      BY <2>2, <1>4, <1>7
    <3>. HIDE DEF j
    <3>2. queue'[i].id[1] = merges + 1
      BY <3>1, <1>6
    <3>. QED
      BY <3>2, <1>7
  <2>. QED
    BY <2>1, <2>2, <1>4, <1>7
<1>9. TypeOK'
  BY <1>3, <1>4, <1>7 DEF IInv, TypeOK, ExecuteChunk, hostVars, BufferInv, BufferTypeOK
<1>10. LateInv'
  BY DEF IInv, LateInv, ExecuteChunk, hostVars
<1>. QED
  BY <1>3, <1>8, <1>9, <1>10 DEF IInv

\* A step of a thread on its own leaves a type-correct state.
LEMMA CheckActiveInv == \A l \in Loop : IInv /\ CheckActive(l) => IInv'
<1>. SUFFICES ASSUME NEW l \in Loop, IInv, CheckActive(l) PROVE IInv'
  OBVIOUS
<1>1. BufferInv' /\ StopDiscards' /\ BufferTypeOK' /\ cleared' \in 0 .. merges'
  BY QuietBuffer DEF CheckActive
<1>2. TypeOK'
  BY <1>1 DEF IInv, TypeOK, CheckActive
<1>3. LateInv'
  BY DEF IInv, TypeOK, LateInv, CheckActive
<1>. QED
  BY <1>1, <1>2, <1>3 DEF IInv

LEMMA GetCommandInv == \A l \in Loop : IInv /\ GetCommand(l) => IInv'
<1>. SUFFICES ASSUME NEW l \in Loop, IInv, GetCommand(l) PROVE IInv'
  OBVIOUS
<1>. USE DEF GetCommand
<1>1. BufferInv' /\ StopDiscards' /\ BufferTypeOK' /\ cleared' \in 0 .. merges'
      /\ command' \in [Loop -> Command \cup {NoCommand}]
  <2>1. CASE Pop /\ command' = [command EXCEPT ![l] = Head(queue)]
    <3>1. /\ BufferInv' /\ Head(queue) \in Command
          /\ \A i \in DOMAIN queue' : i + 1 \in DOMAIN queue /\ queue'[i] = queue[i + 1]
      BY <2>1, BufferInvPop DEF IInv
    <3>2. StopDiscards'
      BY <3>1 DEF IInv, StopDiscards
    <3>. QED
      BY <2>1, <3>1, <3>2 DEF IInv, TypeOK, BufferInv, Pop
  <2>2. CASE PopNothing /\ command' = [command EXCEPT ![l] = Held]
    <3>1. UNCHANGED <<bufferVars, cleared>>
      BY <2>2 DEF PopNothing
    <3>2. Held \in Command \cup {NoCommand}
      BY DEF Held, IInv, TypeOK, BufferTypeOK
    <3>. QED
      BY <2>2, <3>1, <3>2, QuietBuffer DEF IInv, TypeOK
  <2>. QED
    BY <2>1, <2>2
<1>2. TypeOK'
  BY <1>1 DEF IInv, TypeOK
<1>3. LateInv'
  BY DEF IInv, TypeOK, LateInv
<1>. QED
  BY <1>1, <1>2, <1>3 DEF IInv

LEMMA DispatchInv == \A l \in Loop : IInv /\ Dispatch(l) => IInv'
<1>. SUFFICES ASSUME NEW l \in Loop, IInv, Dispatch(l) PROVE IInv'
  OBVIOUS
<1>1. BufferInv' /\ StopDiscards' /\ BufferTypeOK' /\ cleared' \in 0 .. merges'
  BY QuietBuffer DEF Dispatch
<1>2. TypeOK'
  <2>1. /\ loop' \in [Loop -> {"unstarted", "exited", "check", "get", "dispatch"} \cup Stopping]
        /\ moving' \in BOOLEAN
    BY DEF IInv, TypeOK, Dispatch, Stopping
  <2>2. command' \in [Loop -> Command \cup {NoCommand}] /\ late' \in [Loop -> Nat]
    BY DEF IInv, TypeOK, Dispatch
  <2>. QED
    BY <1>1, <2>1, <2>2 DEF IInv, TypeOK, Dispatch
<1>3. LateInv'
  BY DEF IInv, TypeOK, LateInv, Dispatch, Stopping
<1>. QED
  BY <1>1, <1>2, <1>3 DEF IInv

(* The three steps of stop_all() do the same to the invariant whoever makes *)
(* them: a loop thread, or the supervisor.                                  *)
LEMMA StopStepEffect ==
  ASSUME IInv, NEW at, NEW next, StopStep(at, next)
  PROVE  /\ BufferInv' /\ StopDiscards' /\ BufferTypeOK' /\ cleared' \in 0 .. merges'
         /\ active' \in BOOLEAN /\ moving' \in BOOLEAN /\ halted' \in BOOLEAN
         /\ late' \in [Loop -> Nat] /\ (active' => active)
         /\ late' = late \/ \A l \in Loop : late'[l] = 0
         /\ at \in Stopping
<1>. USE DEF StopStep
<1>1. CASE at = "deactivate" /\ next = "clear" /\ Deactivate
  <2>1. BufferInv' /\ StopDiscards' /\ BufferTypeOK' /\ cleared' \in 0 .. merges'
    BY <1>1, QuietBuffer DEF Deactivate
  <2>. QED
    BY <1>1, <2>1 DEF Deactivate, IInv, TypeOK, Stopping
<1>2. CASE at = "clear" /\ next = "halt" /\ ClearBuffer
  <2>1. BufferInv' /\ DOMAIN queue' = {} /\ cleared' = merges /\ merges' = merges
    BY <1>2, BufferInvClear DEF ClearBuffer, IInv, Clear
  <2>2. BufferTypeOK' /\ StopDiscards' /\ cleared' \in 0 .. merges'
    BY <2>1 DEF BufferInv, StopDiscards, IInv, TypeOK, BufferTypeOK
  <2>. QED
    BY <1>2, <2>1, <2>2 DEF ClearBuffer, IInv, TypeOK, Stopping
<1>3. CASE at = "halt" /\ next \notin Stopping /\ HaltHardware
  <2>1. BufferInv' /\ StopDiscards' /\ BufferTypeOK' /\ cleared' \in 0 .. merges'
    BY <1>3, QuietBuffer DEF HaltHardware
  <2>. QED
    BY <1>3, <2>1 DEF HaltHardware, IInv, TypeOK, Stopping
<1>. QED
  BY <1>1, <1>2, <1>3

LEMMA LoopStopsInv == \A l \in Loop : IInv /\ LoopStops(l) => IInv'
<1>. SUFFICES ASSUME NEW l \in Loop, IInv, LoopStops(l) PROVE IInv'
  OBVIOUS
<1>1. PICK next \in Stopping \cup {"check"} :
        /\ StopStep(loop[l], next)
        /\ loop' = [loop EXCEPT ![l] = next]
        /\ UNCHANGED <<command, starts, handle, supervisor, shutting>>
  BY DEF LoopStops
<1>2. /\ BufferInv' /\ StopDiscards' /\ BufferTypeOK' /\ cleared' \in 0 .. merges'
      /\ active' \in BOOLEAN /\ moving' \in BOOLEAN /\ halted' \in BOOLEAN
      /\ late' \in [Loop -> Nat] /\ (active' => active)
      /\ late' = late \/ \A k \in Loop : late'[k] = 0
  BY <1>1, StopStepEffect
<1>3. TypeOK'
  BY <1>1, <1>2 DEF IInv, TypeOK
<1>4. LateInv'
  BY <1>1, <1>2 DEF IInv, TypeOK, LateInv, Stopping
<1>. QED
  BY <1>2, <1>3, <1>4 DEF IInv

LEMMA SupervisorStopsInv == IInv /\ SupervisorStops => IInv'
<1>. SUFFICES ASSUME IInv, SupervisorStops PROVE IInv'
  OBVIOUS
<1>1. PICK next \in Stopping \cup {"idle"} :
        /\ StopStep(supervisor, next)
        /\ supervisor' = next
        /\ shutting' = (shutting /\ next # "idle")
        /\ UNCHANGED <<loop, command, starts, handle>>
  BY DEF SupervisorStops
<1>2. /\ BufferInv' /\ StopDiscards' /\ BufferTypeOK' /\ cleared' \in 0 .. merges'
      /\ active' \in BOOLEAN /\ moving' \in BOOLEAN /\ halted' \in BOOLEAN
      /\ late' \in [Loop -> Nat] /\ (active' => active)
      /\ late' = late \/ \A k \in Loop : late'[k] = 0
  BY <1>1, StopStepEffect
<1>3. TypeOK'
  BY <1>1, <1>2 DEF IInv, TypeOK
<1>4. LateInv'
  BY <1>1, <1>2 DEF IInv, TypeOK, LateInv
<1>. QED
  BY <1>2, <1>3, <1>4 DEF IInv

LEMMA StartControlLoopInv == IInv /\ StartControlLoop => IInv'
<1>. SUFFICES ASSUME IInv, StartControlLoop PROVE IInv'
  OBVIOUS
<1>. USE DEF StartControlLoop
<1>1. BufferInv' /\ StopDiscards' /\ BufferTypeOK' /\ cleared' \in 0 .. merges'
  BY QuietBuffer
<1>2. starts' \in 0 .. MaxStarts /\ handle' \in 0 .. starts' /\ late' \in [Loop -> Nat]
  BY LoopAssumption DEF IInv, TypeOK
<1>3. TypeOK'
  BY <1>1, <1>2 DEF IInv, TypeOK
<1>4. LateInv'
  BY DEF LateInv
<1>. QED
  BY <1>1, <1>3, <1>4 DEF IInv

LEMMA StopAllInv == IInv /\ StopAll => IInv'
<1>. SUFFICES ASSUME IInv, StopAll PROVE IInv'
  OBVIOUS
<1>1. BufferInv' /\ StopDiscards' /\ BufferTypeOK' /\ cleared' \in 0 .. merges'
  BY QuietBuffer DEF StopAll
<1>2. TypeOK' /\ LateInv'
  BY <1>1 DEF IInv, TypeOK, StopAll, Stopping, LateInv
<1>. QED
  BY <1>1, <1>2 DEF IInv

LEMMA StopControlLoopInv == IInv /\ StopControlLoop => IInv'
<1>. SUFFICES ASSUME IInv, StopControlLoop PROVE IInv'
  OBVIOUS
<1>1. BufferInv' /\ StopDiscards' /\ BufferTypeOK' /\ cleared' \in 0 .. merges'
  BY QuietBuffer DEF StopControlLoop, Deactivate
<1>2. TypeOK' /\ LateInv'
  BY <1>1 DEF IInv, TypeOK, StopControlLoop, Deactivate, Stopping, LateInv
<1>. QED
  BY <1>1, <1>2 DEF IInv

LEMMA JoinReturnsInv == IInv /\ JoinReturns => IInv'
<1>. SUFFICES ASSUME IInv, JoinReturns PROVE IInv'
  OBVIOUS
<1>1. BufferInv' /\ StopDiscards' /\ BufferTypeOK' /\ cleared' \in 0 .. merges'
  BY QuietBuffer DEF JoinReturns
<1>2. TypeOK' /\ LateInv'
  BY <1>1 DEF IInv, TypeOK, JoinReturns, LateInv
<1>. QED
  BY <1>1, <1>2 DEF IInv

LEMMA AfterJoinInv == IInv /\ AfterJoin => IInv'
<1>. SUFFICES ASSUME IInv, AfterJoin PROVE IInv'
  OBVIOUS
<1>1. StopStep("clear", "halt")
  BY DEF AfterJoin, StopStep
<1>2. /\ BufferInv' /\ StopDiscards' /\ BufferTypeOK' /\ cleared' \in 0 .. merges'
      /\ active' \in BOOLEAN /\ moving' \in BOOLEAN /\ halted' \in BOOLEAN
      /\ late' \in [Loop -> Nat] /\ (active' => active)
      /\ late' = late \/ \A k \in Loop : late'[k] = 0
  BY <1>1, StopStepEffect
<1>3. TypeOK' /\ LateInv'
  BY <1>2 DEF IInv, TypeOK, AfterJoin, Stopping, LateInv
<1>. QED
  BY <1>2, <1>3 DEF IInv

LEMMA IInvStep == IInv /\ [Next]_vars => IInv'
<1>. SUFFICES ASSUME IInv, [Next]_vars PROVE IInv'
  OBVIOUS
<1>1. CASE ExecuteChunk
  BY <1>1, ExecuteChunkInv
<1>2. CASE \E l \in Loop : LoopStep(l)
  BY <1>2, CheckActiveInv, GetCommandInv, DispatchInv, LoopStopsInv DEF LoopStep
<1>3. CASE StartControlLoop \/ StopAll \/ StopControlLoop
  BY <1>3, StartControlLoopInv, StopAllInv, StopControlLoopInv
<1>4. CASE SupervisorStep
  BY <1>4, JoinReturnsInv, AfterJoinInv, SupervisorStopsInv DEF SupervisorStep
<1>5. CASE UNCHANGED vars
  <2>1. BufferInv' /\ StopDiscards' /\ BufferTypeOK' /\ cleared' \in 0 .. merges'
    BY <1>5, QuietBuffer DEF vars
  <2>2. TypeOK' /\ LateInv'
    BY <1>5, <2>1 DEF vars, hostVars, IInv, TypeOK, LateInv
  <2>. QED
    BY <2>1, <2>2 DEF IInv
<1>. QED
  BY <1>1, <1>2, <1>3, <1>4, <1>5 DEF Next

----------------------------------------------------------------------------
(* Every variable of the actuator HALs and of their buffer keeps its type. *)
THEOREM ControlTypeCorrect == Spec => []TypeOK
<1>1. IInv => TypeOK
  BY DEF IInv
<1>. QED
  BY <1>1, IInvInit, IInvStep, PTL DEF Spec

(* After the flag is cleared no loop thread dispatches more than the one   *)
(* command it was about to, however many threads there are and whoever     *)
(* clears it: stop_control_loop, stop_all, or a stop_all in a chunk.       *)
THEOREM StopTakesEffect == Spec => []OneLateCommand
<1>1. IInv => OneLateCommand
  BY DEF IInv, LateInv, OneLateCommand
<1>. QED
  BY <1>1, IInvInit, IInvStep, PTL DEF Spec

(* Nothing that was merged before a stop cleared the buffer comes out of   *)
(* it afterwards, for any chunks and any horizon.                          *)
THEOREM StopDiscardsCommands == Spec => []StopDiscards
<1>1. IInv => StopDiscards
  BY DEF IInv
<1>. QED
  BY <1>1, IInvInit, IInvStep, PTL DEF Spec

----------------------------------------------------------------------------
(* What a step does to the buffer: nothing, or one of its operations.      *)
LEMMA BufferSteps ==
  ASSUME IInv, [Next]_vars
  PROVE  \/ UNCHANGED bufferVars
         \/ \E actions \in Chunks : Merge(actions)
         \/ Pop
         \/ Clear
<1>1. CASE ExecuteChunk
  BY <1>1 DEF ExecuteChunk
<1>2. ASSUME NEW l \in Loop, LoopStep(l)
      PROVE  UNCHANGED bufferVars \/ Pop \/ Clear
  <2>1. CASE LoopStops(l)
    BY <2>1 DEF LoopStops, StopStep, Deactivate, ClearBuffer, HaltHardware
  <2>. QED
    BY <1>2, <2>1 DEF LoopStep, CheckActive, GetCommand, PopNothing, Dispatch
<1>3. CASE StartControlLoop \/ StopAll \/ StopControlLoop
  BY <1>3 DEF StartControlLoop, StopAll, StopControlLoop, Deactivate
<1>4. CASE SupervisorStep
  BY <1>4 DEF SupervisorStep, JoinReturns, AfterJoin, SupervisorStops, StopStep, Deactivate,
              ClearBuffer, HaltHardware
<1>5. CASE UNCHANGED vars
  BY <1>5 DEF vars
<1>. QED
  BY <1>1, <1>2, <1>3, <1>4, <1>5 DEF Next

LEMMA CommandsComeInOrder ==
  ASSUME IInv, [Next]_vars, lastCommand' # lastCommand, lastCommand # NoCommand
  PROVE  Earlier(lastCommand.id, lastCommand'.id)
<1>1. Pop
  BY BufferSteps DEF Merge, Clear, bufferVars
<1>2. lastCommand' = queue[1] /\ 1 \in DOMAIN queue
  <2>1. queue \in Seq(Command) /\ queue # <<>>
    BY <1>1 DEF Pop, IInv, BufferInv, BufferTypeOK
  <2>. QED
    BY <1>1, <2>1, EmptySeq, LenProperties DEF Pop
<1>. QED
  BY <1>2 DEF IInv, BufferInv, LastBefore

(* The commands of a chunk that are in the queue after its merge, when the *)
(* old ones have other numbers: one for each step of the chunk.             *)
LEMMA OwnSources ==
  ASSUME BufferInv, NEW actions \in Seq(Action), Merge(actions)
  PROVE  /\ Cardinality({s \in Sources(queue') : s[1] = merges'}) \in Nat
         /\ Cardinality({s \in Sources(queue') : s[1] = merges'}) <= Len(actions)
<1>. DEFINE own == {s \in Sources(queue') : s[1] = merges'}
            f == [j \in 1 .. Len(actions) |-> <<merges + 1, j>>]
<1>1. Len(actions) \in Nat /\ merges' = merges + 1 /\ merges \in Nat
      /\ Overlap \in 0 .. Len(queue) /\ Len(queue) \in Nat
      /\ queue' \in Seq(Command) /\ Len(queue') = Len(queue) - Overlap + Len(actions)
  BY AfterMerge DEF BufferInv, BufferTypeOK
<1>2. \A i \in 1 .. Len(queue) - Overlap : queue'[i] = queue[Overlap + i]
  BY AfterMerge
<1>3. \A j \in 1 .. Len(actions) :
        queue'[Len(queue) - Overlap + j].from =
          {<<merges + 1, j>>} \cup (IF j <= Overlap THEN queue[j].from ELSE {})
  BY AfterMerge
<1>4. DOMAIN queue = 1 .. Len(queue) /\ DOMAIN queue' = 1 .. Len(queue')
  BY <1>1 DEF BufferInv, BufferTypeOK
<1>5. ASSUME NEW i \in DOMAIN queue, NEW s \in queue[i].from
      PROVE  s[1] # merges + 1
  <2>1. queue[i] \in Command /\ s[1] <= merges
    BY <1>4 DEF BufferInv, BufferTypeOK, Merges
  <2>2. s[1] \in Int
    BY <2>1, CommandFields
  <2>. QED
    BY <2>1, <2>2, <1>1
<1>6. ASSUME NEW s \in own
      PROVE  \E j \in 1 .. Len(actions) : s = f[j]
  <2>1. PICK i \in DOMAIN queue' : s \in queue'[i].from
    BY DEF Sources
  <2>2. s[1] = merges + 1
    BY <1>1
  <2>3. i > Len(queue) - Overlap
    <3>1. ASSUME i <= Len(queue) - Overlap PROVE FALSE
      <4>1. i \in 1 .. Len(queue) - Overlap /\ Overlap + i \in DOMAIN queue
        BY <3>1, <1>1, <1>4
      <4>. QED
        BY <4>1, <2>1, <2>2, <1>2, <1>5
    <3>. QED
      BY <3>1, <1>1, <1>4
  <2>. DEFINE j == i - (Len(queue) - Overlap)
  <2>4. j \in 1 .. Len(actions) /\ Len(queue) - Overlap + j = i
    BY <2>3, <1>1, <1>4
  <2>. HIDE DEF j
  <2>5. s \in {<<merges + 1, j>>} \cup (IF j <= Overlap THEN queue[j].from ELSE {})
    BY <2>1, <2>4, <1>3
  <2>6. ASSUME j <= Overlap, s \in queue[j].from PROVE FALSE
    <3>1. j \in DOMAIN queue
      BY <2>4, <2>6, <1>1, <1>4
    <3>. QED
      BY <3>1, <2>2, <2>6, <1>5
  <2>. QED
    BY <2>4, <2>5, <2>6
<1>7. IsFiniteSet(1 .. Len(actions)) /\ Cardinality(1 .. Len(actions)) = Len(actions)
  <2>1. 1 \in Int /\ Len(actions) \in Int
    BY <1>1
  <2>2. /\ IsFiniteSet(1 .. Len(actions))
        /\ Cardinality(1 .. Len(actions)) = IF 1 > Len(actions) THEN 0 ELSE Len(actions) - 1 + 1
    BY <2>1, FS_Interval
  <2>. QED
    BY <2>2, <1>1
<1>8. f \in Surjection(1 .. Len(actions), {f[j] : j \in 1 .. Len(actions)})
  BY DEF Surjection
<1>9. /\ IsFiniteSet({f[j] : j \in 1 .. Len(actions)})
      /\ Cardinality({f[j] : j \in 1 .. Len(actions)}) <= Len(actions)
  BY <1>7, <1>8, FS_Surjection
<1>10. own \subseteq {f[j] : j \in 1 .. Len(actions)}
  BY <1>6
<1>11. IsFiniteSet(own) /\ Cardinality(own) <= Cardinality({f[j] : j \in 1 .. Len(actions)})
  BY <1>9, <1>10, FS_Subset
<1>12. /\ Cardinality(own) \in Nat
       /\ Cardinality({f[j] : j \in 1 .. Len(actions)}) \in Nat
  BY <1>9, <1>11, FS_CardinalityType
<1>. QED
  BY <1>1, <1>9, <1>11, <1>12

\* A chunk no shorter than the overlap has each old step in it or before it.
LEMMA OldSourcesStay ==
  ASSUME BufferInv, NEW actions \in Seq(Action), Merge(actions), Overlap <= Len(actions)
  PROVE  Sources(queue) \subseteq Sources(queue')
<1>1. Len(actions) \in Nat /\ Overlap \in 0 .. Len(queue) /\ Len(queue) \in Nat
      /\ queue' \in Seq(Command) /\ Len(queue') = Len(queue) - Overlap + Len(actions)
  BY AfterMerge
<1>2. \A i \in 1 .. Len(queue) - Overlap : queue'[i] = queue[Overlap + i]
  BY AfterMerge
<1>3. \A j \in 1 .. Len(actions) :
        queue'[Len(queue) - Overlap + j].from =
          {<<merges + 1, j>>} \cup (IF j <= Overlap THEN queue[j].from ELSE {})
  BY AfterMerge
<1>4. DOMAIN queue = 1 .. Len(queue) /\ DOMAIN queue' = 1 .. Len(queue')
  BY <1>1 DEF BufferInv, BufferTypeOK
<1>. SUFFICES ASSUME NEW s \in Sources(queue) PROVE s \in Sources(queue')
  OBVIOUS
<1>5. PICK i \in DOMAIN queue : s \in queue[i].from
  BY DEF Sources
<1>6. \E k \in DOMAIN queue' : s \in queue'[k].from
  <2>1. CASE i <= Overlap
    <3>1. i \in 1 .. Len(actions) /\ Len(queue) - Overlap + i \in DOMAIN queue'
      BY <2>1, <1>1, <1>4
    <3>2. s \in queue'[Len(queue) - Overlap + i].from
      BY <2>1, <3>1, <1>3, <1>5
    <3>. QED
      BY <3>1, <3>2
  <2>2. CASE i > Overlap
    <3>1. i - Overlap \in 1 .. Len(queue) - Overlap /\ Overlap + (i - Overlap) = i
          /\ i - Overlap \in DOMAIN queue'
      BY <2>2, <1>1, <1>4
    <3>2. queue'[i - Overlap] = queue[i]
      BY <3>1, <1>2
    <3>. QED
      BY <3>1, <3>2, <1>5
  <2>. QED
    BY <2>1, <2>2, <1>1, <1>4
<1>. QED
  BY <1>6 DEF Sources

LEMMA MergeKeeps ==
  ASSUME IInv, [Next]_vars, merges' # merges
  PROVE  \/ Sources(queue) \subseteq Sources(queue')
         \/ Cardinality({s \in Sources(queue') : s[1] = merges'}) < Least(Len(queue), Horizon)
<1>1. PICK actions \in Chunks : Merge(actions)
  BY BufferSteps DEF Pop, Clear, bufferVars
<1>2. actions \in Seq(Action) /\ BufferInv /\ queue \in Seq(Command)
  BY LoopAssumption DEF IInv, BufferInv, BufferTypeOK
<1>3. Len(actions) \in Nat /\ Overlap \in Nat
  BY <1>2, OverlapBounds
<1>4. CASE Overlap <= Len(actions)
  BY <1>1, <1>2, <1>4, OldSourcesStay
<1>5. CASE Len(actions) < Overlap
  <2>. DEFINE n == Cardinality({s \in Sources(queue') : s[1] = merges'})
  <2>1. n \in Nat /\ n <= Len(actions)
    BY <1>1, <1>2, OwnSources
  <2>. HIDE DEF n
  <2>2. n < Overlap
    BY <2>1, <1>3, <1>5
  <2>. QED
    BY <2>2 DEF Overlap, n
<1>. QED
  BY <1>3, <1>4, <1>5

LEMMA NothingTwice ==
  ASSUME IInv, [Next]_vars
  PROVE  /\ lastCommand' # lastCommand => lastCommand'.from \cap Sources(queue') = {}
         /\ \A s \in Sources(queue') \ Sources(queue) : merges' # merges /\ s[1] = merges'
<1>1. CASE UNCHANGED bufferVars
  BY <1>1 DEF bufferVars
<1>2. ASSUME NEW actions \in Chunks, Merge(actions)
      PROVE  /\ lastCommand' = lastCommand /\ merges' # merges
             /\ \A s \in Sources(queue') \ Sources(queue) : s[1] = merges'
  <2>1. actions \in Seq(Action) /\ BufferInv
    BY LoopAssumption DEF IInv
  <2>2. lastCommand' = lastCommand /\ merges' = merges + 1 /\ merges \in Nat
    BY <1>2, <2>1 DEF Merge, BufferInv, BufferTypeOK
  <2>3. ASSUME NEW i \in DOMAIN queue', NEW s \in queue'[i].from, s \notin Sources(queue)
        PROVE  s[1] = merges + 1
    <3>1. \A k \in DOMAIN queue : s \notin queue[k].from
      BY <2>3 DEF Sources
    <3>2. s = <<merges + 1, i - (Len(queue) - Overlap)>>
      BY <1>2, <2>1, <3>1, SourcesAfterMerge
    <3>. QED
      BY <3>2
  <2>. QED
    BY <2>2, <2>3 DEF Sources
<1>3. CASE Pop
  <2>1. Head(queue).from \cap Sources(queue') = {} /\ Sources(queue') \subseteq Sources(queue)
    BY <1>3, BufferInvPop DEF IInv
  <2>. QED
    BY <1>3, <2>1 DEF Pop
<1>4. CASE Clear
  <2>1. Sources(queue') = {}
    BY <1>4 DEF Clear, Sources
  <2>. QED
    BY <1>4, <2>1 DEF Clear
<1>. QED
  BY <1>1, <1>2, <1>3, <1>4, BufferSteps

(* Commands come out in order, and no step is lost or repeated, for any    *)
(* chunks, horizon and number of merges, whoever takes the commands out.   *)
THEOREM BufferIsFaithful == Spec => CommandsFaithful
<1>1. IInv /\ [Next]_vars
        => [(lastCommand' # lastCommand /\ lastCommand # NoCommand)
              => Earlier(lastCommand.id, lastCommand'.id)]_bufferVars
  BY CommandsComeInOrder
<1>2. IInv /\ [Next]_vars
        => [merges' # merges =>
              \/ Sources(queue) \subseteq Sources(queue')
              \/ Cardinality({s \in Sources(queue') : s[1] = merges'}) < Least(Len(queue), Horizon)
            ]_bufferVars
  BY MergeKeeps
<1>3. IInv /\ [Next]_vars
        => [/\ lastCommand' # lastCommand => lastCommand'.from \cap Sources(queue') = {}
            /\ \A s \in Sources(queue') \ Sources(queue) : merges' # merges /\ s[1] = merges'
           ]_bufferVars
  BY NothingTwice
<1>. QED
  BY <1>1, <1>2, <1>3, IInvInit, IInvStep, PTL
     DEF Spec, CommandsFaithful, InOrder, MergeKeepsCommands, NothingRepeated
============================================================================
