---------------------------- MODULE PhotoChunks ----------------------------
(***************************************************************************)
(* profiles/openglass.py: OpenGlassCameraHal.                              *)
(*                                                                         *)
(* The glasses cut a JPEG into BLE notifications.  A chunk that begins     *)
(* with the start marker begins a new photo; after every chunk the ones    *)
(* kept are joined, and what lies between the first start marker and the   *)
(* first end marker behind it is the newest frame.  Nothing numbers the    *)
(* chunks: one that is lost is not missed.  And a thumbnail inside a photo *)
(* is a JPEG with markers of its own: its start is taken for that of a     *)
(* photo when a chunk begins with it, or when the photo's own was lost,    *)
(* and its end ends the photo.                                             *)
(*                                                                         *)
(* A piece of a photo is a record of the photo it is of, its place in it   *)
(* and the markers it holds: a chunk is one piece, and the markers are not *)
(* cut in two.  A frame is given by the pieces it has a part of.           *)
(***************************************************************************)
EXTENDS Naturals, Sequences, FiniteSets, SequencesExt

CONSTANTS MaxPhotos,  \* bound on the photos taken
          Pieces,     \* pieces in each
          MaxKept     \* bound on the chunks kept at once

ASSUME PhotoAssumption == Pieces \in Nat \ {0, 1}

VARIABLES photo,        \* photos begun
          place,        \* pieces of the current one notified or lost
          thumb,        \* its thumbnail: see Thumbs
          chunkBuffer,  \* _chunk_buffer
          latestFrame,  \* _latest_frame
          lossy         \* photos that lost a piece, bring a thumbnail, or were
                        \* the newest at a shutdown()

photoVars == <<photo, place, thumb, chunkBuffer, latestFrame, lossy>>

\* The places of the thumbnail's start and end, ahead of the photo's last piece,
\* and whether a piece begins with its start.
NoThumb == [first |-> 0, last |-> 0, leads |-> FALSE]
Thumbs == {NoThumb} \cup {t \in [first : 1..(Pieces - 1), last : 1..(Pieces - 1), leads : BOOLEAN] :
                             t.first <= t.last /\ (t.first = 1 => t.leads)}

PhotoInit == /\ photo = 0 /\ place = Pieces /\ thumb = NoThumb
             /\ chunkBuffer = << >> /\ latestFrame = << >> /\ lossy = {}

\* The markers of piece i of a photo whose thumbnail is t: a start at its head or
\* inside it, and an end, which is never in front of a start in the same piece.
Mark(i, t) == [start |-> CASE i = 1 \/ (i = t.first /\ t.leads) -> "head"
                           [] i # 1 /\ i = t.first /\ ~t.leads -> "inside"
                           [] OTHER -> "none",
               end |-> i \in {t.last, Pieces}]
Notified == [photo |-> photo', place |-> place', mark |-> Mark(place', thumb')]
Whole(p) == [i \in 1..Pieces |-> [photo |-> p, place |-> i]]

\* Between the first start and the first end behind it; << >> for None.
ReassembleJpeg(kept) ==
    LET starts == {i \in DOMAIN kept : kept[i].mark.start # "none"}
        ends == {i \in DOMAIN kept : kept[i].mark.end /\ \E s \in starts : s <= i}
    IN  IF ends = {} THEN << >>
        ELSE LET from == CHOOSE i \in starts : \A k \in starts : i <= k
                 to == CHOOSE i \in ends : \A k \in ends : i <= k
             IN  [i \in 1..(to - from + 1) |->
                     [photo |-> kept[from + i - 1].photo, place |-> kept[from + i - 1].place]]

\* The next piece of the current photo, or the first of the next one, which the
\* glasses take whether or not the last one got through; and what is lost with it.
Sends(lost) ==
    /\ \/ /\ place < Pieces /\ place' = place + 1
          /\ UNCHANGED <<photo, thumb>>
       \/ /\ place = Pieces /\ photo < MaxPhotos
          /\ photo' = photo + 1 /\ place' = 1
          /\ thumb' \in Thumbs
    /\ lossy' = IF lost \/ thumb' # NoThumb THEN lossy \cup {photo'} ELSE lossy

\* What is kept is a frame, and is let go of, or waits for more.
Keeps(kept) ==
    LET frame == ReassembleJpeg(kept)
    IN  /\ Len(kept) <= MaxKept
        /\ IF frame = << >> THEN chunkBuffer' = kept /\ UNCHANGED latestFrame
           ELSE chunkBuffer' = << >> /\ latestFrame' = frame

\* Deliberate fault: the chunks of a photo whose end was lost are kept.
OnBleNotification_Keeps == Sends(FALSE) /\ Keeps(Append(chunkBuffer, Notified))

OnBleNotification ==
    /\ Sends(FALSE)
    /\ Keeps(IF Notified.mark.start = "head" THEN <<Notified>> ELSE Append(chunkBuffer, Notified))

Lost == Sends(TRUE) /\ UNCHANGED <<chunkBuffer, latestFrame>>

PhotoShutdown == /\ chunkBuffer' = << >> /\ latestFrame' = << >>
                 /\ lossy' = lossy \cup {photo}
                 /\ UNCHANGED <<photo, place, thumb>>

PhotoNext == OnBleNotification \/ Lost \/ PhotoShutdown

PhotoSpec == PhotoInit /\ [][PhotoNext]_photoVars

-----------------------------------------------------------------------------
(* Properties.                                                             *)

\* Every variable keeps the values its comment names.
PhotoTypeOK == /\ photo \in 0..MaxPhotos /\ place \in 0..Pieces /\ thumb \in Thumbs
               /\ Len(chunkBuffer) <= MaxKept /\ lossy \subseteq 0..MaxPhotos

\* A photo that came through whole and brings no thumbnail is the frame that
\* capture_frame() returns as soon as its last piece came; what is returned is in
\* the order it was sent; and when it begins with a piece of such a photo it is
\* that photo, from end to end, whatever was lost before and after.
PhotoWhole ==
    /\ (photo > 0 /\ place = Pieces /\ photo \notin lossy) => latestFrame = Whole(photo)
    /\ latestFrame # << >> =>
         /\ \A i \in 1..(Len(latestFrame) - 1) :
               \/ latestFrame[i].photo < latestFrame[i + 1].photo
               \/ /\ latestFrame[i].photo = latestFrame[i + 1].photo
                  /\ latestFrame[i].place < latestFrame[i + 1].place
         /\ latestFrame[1].photo \notin lossy => latestFrame = Whole(latestFrame[1].photo)

=============================================================================
