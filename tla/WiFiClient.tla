----------------------------- MODULE WiFiClient -----------------------------
(***************************************************************************)
(* transport/wifi.py: WiFiClient, packets over TCP behind a length.        *)
(*                                                                         *)
(* TCP gives the bytes in order and in pieces of any size.  receive() asks *)
(* for the length and then for the rest until it has it; it gives up on a  *)
(* timeout, an end of file or a short read of the length, and what it has  *)
(* read by then is gone.  The next receive() then takes whatever follows   *)
(* for a length.                                                           *)
(*                                                                         *)
(* The length is two cells of the stream, the body of packet p is Body[p]. *)
(***************************************************************************)
EXTENDS Naturals, Sequences

CONSTANTS Body,       \* the number of cells of each packet's body, in order
          MaxLength   \* the largest length read from cells that are no length

\* No body is empty: it has at least the header of a packet.
ASSUME WifiAssumption == MaxLength \in Nat /\ Body \in Seq(1..MaxLength)

Packets == DOMAIN Body

VARIABLES socket,    \* sock is not None
          wifiSent,  \* packets the peer has sent on this connection
          stream,    \* cells sent and not yet read
          rx,        \* receive(): its place, the length, the cells read
          got,       \* what the latest receive() returned, << >> for None
          next,      \* the packet that receive() should give next
          cut        \* a receive() gave up with cells read

wifiVars == <<socket, wifiSent, stream, rx, got, next, cut>>

Cell(p, kind) == [packet |-> p, kind |-> kind]
Frame(p) == <<Cell(p, "length"), Cell(p, "length")>>
              \o [i \in 1..Body[p] |-> Cell(p, "body")]

Outside == [pc |-> "out", length |-> 0, buf |-> << >>]

WifiInit == /\ socket = FALSE /\ wifiSent = 0 /\ stream = << >> /\ rx = Outside
            /\ got = << >> /\ next = 1 /\ cut = FALSE

\* connect(): a new connection, and with it a new stream.
Connect == /\ ~socket /\ socket' = TRUE
           /\ wifiSent' = 0 /\ stream' = << >> /\ next' = 1 /\ cut' = FALSE /\ got' = << >>
           /\ UNCHANGED rx

Close == /\ socket /\ rx.pc = "out"
         /\ socket' = FALSE
         /\ UNCHANGED <<wifiSent, stream, rx, got, next, cut>>

\* The peer's sendall of one length-prefixed packet.
PeerSends == /\ socket /\ wifiSent + 1 \in Packets
             /\ wifiSent' = wifiSent + 1
             /\ stream' = stream \o Frame(wifiSent + 1)
             /\ UNCHANGED <<socket, rx, got, next, cut>>

\* Lengths that two cells read as one may stand for.
LengthOf(cells) == IF cells[1].kind = "length" /\ cells[2].kind = "length"
                      /\ cells[1].packet = cells[2].packet
                   THEN {Body[cells[1].packet]} ELSE 0..MaxLength

Take(n) == stream' = SubSeq(stream, n + 1, Len(stream))
Return(cells) == /\ rx' = Outside /\ got' = cells
                 /\ next' = IF cells = << >> THEN next ELSE next + 1

\* hdr = self.sock.recv(4): n cells of the length at most, or a timeout.
ReadLength(n) ==
    /\ socket /\ rx.pc = "out" /\ n <= Len(stream)
    /\ Take(n)
    /\ IF n < 2
       THEN Return(<< >>) /\ cut' = (cut \/ n > 0)
       ELSE /\ \E length \in LengthOf(stream) :
                 rx' = [pc |-> "body", length |-> length, buf |-> << >>]
            /\ UNCHANGED <<got, next, cut>>
    /\ UNCHANGED <<socket, wifiSent>>

\* while len(buf) < length: another piece of the body.
ReadBody(n) ==
    /\ rx.pc = "body" /\ Len(rx.buf) < rx.length
    /\ n <= Len(stream) /\ n <= rx.length - Len(rx.buf)
    /\ Take(n)
    /\ rx' = [rx EXCEPT !.buf = @ \o SubSeq(stream, 1, n)]
    /\ UNCHANGED <<socket, wifiSent, got, next, cut>>

\* Deliberate fault: the first piece is taken for the whole body.
HaveBody_Piece == /\ rx.pc = "body" /\ Len(rx.buf) > 0
                  /\ Return(rx.buf)
                  /\ UNCHANGED <<socket, wifiSent, stream, cut>>

HaveBody == /\ rx.pc = "body" /\ Len(rx.buf) >= rx.length
            /\ Return(rx.buf)
            /\ UNCHANGED <<socket, wifiSent, stream, cut>>

\* socket.timeout, or the peer closed: the cells read are dropped.
GiveUp == /\ rx.pc = "body" /\ Len(rx.buf) < rx.length
          /\ Return(<< >>) /\ cut' = TRUE
          /\ UNCHANGED <<socket, wifiSent, stream>>

WifiNext == \/ Connect \/ Close \/ PeerSends \/ HaveBody \/ GiveUp
            \/ \E n \in 0..2 : ReadLength(n)
            \/ \E n \in 1..MaxLength : ReadBody(n)

WifiSpec == WifiInit /\ [][WifiNext]_wifiVars

-----------------------------------------------------------------------------
(* Properties.                                                             *)

\* Every variable keeps the values its comment names.
WifiTypeOK == /\ {socket, cut} \subseteq BOOLEAN /\ wifiSent \in Nat /\ next \in Nat
              /\ rx.pc \in {"out", "body"} /\ rx.length \in 0..MaxLength
              /\ \A c \in {stream[i] : i \in DOMAIN stream} : c.packet \in 1..wifiSent

\* Until a receive gives up with cells read, what receive returns is the body
\* of the next packet sent, whole and alone, however TCP cuts the stream up.
BodyOf(p) == [i \in 1..Body[p] |-> Cell(p, "body")]
InStep == (got # << >> /\ ~cut) => next - 1 \in Packets /\ got = BodyOf(next - 1)

=============================================================================
