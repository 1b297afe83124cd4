----------------------------- MODULE Fragmenter -----------------------------
(***************************************************************************)
(* transport/ble.py, class Fragmenter: a packet is cut into fragments, and *)
(* the receiver puts them together again although the link reorders,       *)
(* duplicates, delays and loses them.                                      *)
(*                                                                         *)
(* External: the link, which delivers a fragment that was sent any number  *)
(* of times (a fragment that is lost is one never delivered; one that is   *)
(* sent again is one delivered again).  Abstracted: a chunk's bytes, and   *)
(* with them the length field; flag 1, which nothing reads.                *)
(***************************************************************************)
EXTENDS Naturals, Sequences, FiniteSets, Functions

CONSTANTS
  Message,    \* the packets sent
  Key,        \* message_id and packet_seq of each
  Chunks,     \* into how many chunks each is cut
  FieldSize,  \* how many values the index and the count of a fragment have: 2^8
  Timeout,    \* how long a reassembly may last
  MaxCopies,  \* bound on how often each fragment of a message is delivered
  MaxTime,    \* bound on the clock
  NoPacket

ASSUME FragmenterAssumption ==
  /\ Chunks \in [Message -> Nat] /\ FieldSize \in Nat \ {0}
  /\ Timeout \in Nat /\ MaxCopies \in [Message -> Nat] /\ MaxTime \in Nat

Keys == {Key[m] : m \in Message}
Chunk == UNION {{m} \X (0 .. Chunks[m] - 1) : m \in Message}

VARIABLES
  now,       \* time.monotonic()
  sent,      \* the messages whose fragments are on the link
  arrivals,  \* history: how often each chunk arrived
  buffers,   \* self.buffers
  output,    \* what the latest defragment() returned
  returns    \* history: how many packets were returned for each key
vars == <<now, sent, arrivals, buffers, output, returns>>

Init ==
  /\ now = 0 /\ sent = {} /\ arrivals = [c \in Chunk |-> 0]
  /\ buffers = <<>> /\ output = NoPacket /\ returns = [k \in Keys |-> 0]

----------------------------------------------------------------------------
\* fragment(): the index and the count are cut to their field.
FragmentOf(c) ==
  LET m == c[1]  i == c[2]
  IN [key |-> Key[m], idx |-> i % FieldSize, count |-> Chunks[m] % FieldSize,
      last |-> i = Chunks[m] - 1, chunk |-> c]

Send(m) ==
  /\ m \notin sent
  /\ sent' = sent \cup {m}
  /\ UNCHANGED <<now, arrivals, buffers, output, returns>>

BufferOf(f) ==
  IF f.key \in DOMAIN buffers THEN buffers[f.key]
  ELSE [created |-> now, count |-> f.count, frags |-> <<>>, lastSeen |-> FALSE]

With(frags, i, f) ==
  [x \in DOMAIN frags \cup {i} |-> IF x = i THEN [chunk |-> f.chunk, at |-> now] ELSE frags[x]]

\* Deliberate fault: the chunks are kept in a list, as they come.
Store_InOrderOfArrival(b, f) ==
  [b EXCEPT !.frags = IF Cardinality(DOMAIN @) < b.count /\ f.chunk \notin {x.chunk : x \in Range(@)}
                      THEN With(@, Cardinality(DOMAIN @), f) ELSE @,
            !.lastSeen = @ \/ f.last]

\* A fragment that is there already stays.  With each the model remembers
\* when it came.
Store(b, f) ==
  [b EXCEPT !.frags = IF f.idx < b.count /\ f.idx \notin DOMAIN @ THEN With(@, f.idx, f) ELSE @,
            !.lastSeen = @ \/ f.last]

Put(k, b) == buffers' = [x \in DOMAIN buffers \cup {k} |-> IF x = k THEN b ELSE buffers[x]]
Delete(k) == buffers' = Restrict(buffers, DOMAIN buffers \ {k})

Complete(b, f) == b.lastSeen /\ Cardinality(DOMAIN b.frags) = b.count

\* b"".join of the fragments in the order of their index
Joined(b) == [i \in 0 .. b.count - 1 |-> b.frags[i]]

Expired(b) == now - b.created > Timeout

Finish(k, b) ==
  /\ Delete(k)
  /\ output' = [key |-> k, parts |-> Joined(b)]
  /\ returns' = [returns EXCEPT ![k] = @ + 1]

\* defragment() of a fragment the link delivers.  One that comes when the
\* buffer of its key has expired is discarded with it.
Defragment(c) ==
  LET f == FragmentOf(c)
      b == Store(BufferOf(f), f)
  IN /\ c[1] \in sent /\ arrivals[c] < MaxCopies[c[1]]
     /\ arrivals' = [arrivals EXCEPT ![c] = @ + 1]
     /\ \/ /\ Expired(b)
           /\ Delete(f.key)
           /\ output' = NoPacket /\ UNCHANGED returns
        \/ /\ ~Expired(b) /\ ~Complete(b, f)
           /\ Put(f.key, b)
           /\ output' = NoPacket /\ UNCHANGED returns
        \/ /\ ~Expired(b) /\ Complete(b, f)
           /\ Finish(f.key, b)
     /\ UNCHANGED <<now, sent>>

Reset ==
  /\ buffers # <<>>
  /\ buffers' = <<>> /\ output' = NoPacket
  /\ UNCHANGED <<now, sent, arrivals, returns>>

Tick ==
  /\ now < MaxTime
  /\ now' = now + 1
  /\ UNCHANGED <<sent, arrivals, buffers, output, returns>>

Next ==
  \/ \E m \in Message : Send(m)
  \/ \E c \in Chunk : Defragment(c)
  \/ Reset \/ Tick

Spec == Init /\ [][Next]_vars

----------------------------------------------------------------------------
Frags == [chunk : Chunk, at : 0 .. now]

TypeOK ==
  /\ now \in Nat /\ sent \subseteq Message
  /\ arrivals \in [Chunk -> Nat]
  /\ returns \in [Keys -> Nat]
  /\ DOMAIN buffers \subseteq Keys
  /\ \A k \in DOMAIN buffers :
       /\ buffers[k].created \in 0 .. now /\ buffers[k].lastSeen \in BOOLEAN
       /\ DOMAIN buffers[k].frags \subseteq 0 .. buffers[k].count - 1
       /\ Range(buffers[k].frags) \subseteq Frags
  /\ output # NoPacket => output.key \in Keys /\ Range(output.parts) \subseteq Frags

\* The messages the format has room for and whose key is theirs alone.
Proper == {m \in Message : /\ Chunks[m] \in 1 .. FieldSize - 1
                           /\ \A n \in Message : Key[n] = Key[m] => n = m}

(* What is returned for a proper message is the packet that was sent: all  *)
(* its chunks, once each, in order, in whatever order and how often they   *)
(* arrived.                                                                *)
Intact ==
  \A m \in Proper : (output # NoPacket /\ output.key = Key[m])
    => /\ DOMAIN output.parts = 0 .. Chunks[m] - 1
       /\ \A i \in DOMAIN output.parts : output.parts[i].chunk = <<m, i>>

(* A packet whose chunks are all there is returned at once: no buffer is   *)
(* left that holds them all, also if the last chunk came before others.    *)
NothingStuck ==
  \A m \in Proper : Key[m] \in DOMAIN buffers
    => Cardinality(DOMAIN buffers[Key[m]].frags) < Chunks[m]

(* No packet is put together from chunks that came further apart than the  *)
(* timeout, although a buffer's age is looked at only when another         *)
(* fragment of its key comes.                                              *)
Timely ==
  output # NoPacket =>
    \A i, j \in DOMAIN output.parts : output.parts[i].at <= output.parts[j].at + Timeout

(* A packet is returned no more often than each of its chunks arrived: a   *)
(* duplicate that comes late cannot complete it again by itself.           *)
ReturnsPaidFor ==
  \A m \in Proper : \A i \in 0 .. Chunks[m] - 1 : returns[Key[m]] <= arrivals[<<m, i>>]

(* What defragment() promises of a proper message, over a link that        *)
(* reorders, duplicates, delays and loses fragments.                       *)
Reassembly == Intact /\ NothingStuck /\ Timely /\ ReturnsPaidFor
============================================================================
