------------------------------ MODULE Decoding ------------------------------
(***************************************************************************)
(* How a Preview or a Sensor of a file rawler recognised gets its pixels:  *)
(* preview() and sensor() of helper/src/decode.rs, and where they fail the *)
(* system's preview() and develop() of helper/src/system/macos.rs, each    *)
(* guarded, each filling a SharedBuffer of a size of its own computing.    *)
(* Elsewhere than on macOS the system's step always fails.                 *)
(*                                                                         *)
(* Pixels are seen through their number of bytes.  Lengths of an extent,   *)
(* which Core Image gives in floating point, are in parts of a pixel.      *)
(***************************************************************************)
EXTENDS Layouts, Sequences

CONSTANTS
  MAX_ALLOCATION,       \* of helper/src/alloc.rs
  MAX_DEVELOPED_PIXELS,
  THUMBNAIL_MAX_SIDE,
  UNIT,                 \* parts in a pixel
  NotFinite,            \* a length that is infinite or not a number
  Pictures,             \* embedded images: width and height
  RawImages,            \* what raw_image() may return; see RawImage
  Extents,              \* of the images the system decodes
  Rows, Gains,          \* colour matrices as their rows; analog gains
  None

\* What raw_image() returns: sizes in usize, and the bytes of its samples, which
\* need not agree with them.
RawImage ==
  [width : 0 .. USIZE - 1, height : 0 .. USIZE - 1, cpp : 0 .. USIZE - 1,
   sample : {"U16", "F32"}, bytes : 0 .. MAX_ALLOCATION]

ASSUME DecodingAssumption ==
  /\ Pictures \subseteq (0 .. U32 - 1) \X (0 .. U32 - 1)
  /\ RawImages \subseteq RawImage
  /\ UNIT \in Nat \ {0}
  /\ Extents \subseteq (Nat \cup {NotFinite}) \X (Nat \cup {NotFinite})

\* How the limits of the code compare: 100e6 pixels of eight bytes and 2560 x 2560
\* of four are under 2 << 30, and all of them are far under what integers hold.
ASSUME LimitsAssumption ==
  /\ {MAX_ALLOCATION, MAX_DEVELOPED_PIXELS, THUMBNAIL_MAX_SIDE} \subseteq Nat
  /\ MAX_DEVELOPED_PIXELS * 8 <= MAX_ALLOCATION
  /\ THUMBNAIL_MAX_SIDE * THUMBNAIL_MAX_SIDE * 4 <= MAX_ALLOCATION
  /\ MAX_ALLOCATION + PAGE < USIZE
  /\ MAX_DEVELOPED_PIXELS < U32 /\ THUMBNAIL_MAX_SIDE < U32

VARIABLES
  request, \* "Preview" or "Sensor"
  pc,      \* the call being made, or "answered", "failed", "stopped"
  decoder, \* "rawler" or "system"
  tried,   \* embedded images that could not be had
  layout,  \* what the reply will announce, or None
  pixels,  \* bytes to put in the buffer
  buffer,  \* bytes of the SharedBuffer, 0 when there is none
  matrix   \* of the reply, or None

vars == <<request, pc, decoder, tried, layout, pixels, buffer, matrix>>

Init ==
  /\ request \in {"Preview", "Sensor"}
  /\ pc = "decoder" /\ decoder = "rawler" /\ tried = 0
  /\ layout = None /\ pixels = 0 /\ buffer = 0 /\ matrix = None

-----------------------------------------------------------------------------
(* Ends of a step                                                          *)

Calls(next) ==
  /\ pc' = next
  /\ UNCHANGED <<request, decoder, tried, layout, pixels, buffer, matrix>>

\* The step returns an error or panics: what it held is dropped, and after
\* rawler it is the system's turn.
Misses ==
  /\ decoder' = "system"
  /\ pc' = IF decoder = "rawler" THEN "system" ELSE "failed"
  /\ layout' = None /\ pixels' = 0 /\ buffer' = 0 /\ matrix' = None
  /\ UNCHANGED <<request, tried>>

\* Capped refuses an allocation: the process stops.
Refused(size) == size > MAX_ALLOCATION

\* The process stops: a refused allocation, a signal.
Stops ==
  /\ pc' = "stopped"
  /\ buffer' = 0
  /\ UNCHANGED <<request, decoder, tried, layout, pixels, matrix>>

\* These bytes are to be put in a buffer, under this layout.
Announces(l, bytes) ==
  /\ pc' = "create"
  /\ layout' = l
  /\ pixels' = bytes
  /\ UNCHANGED <<request, decoder, tried, buffer, matrix>>

-----------------------------------------------------------------------------
(* rawler                                                                  *)

Identify ==
  /\ pc = "decoder"
  /\ \/ Calls(IF request = "Preview" THEN "embedded" ELSE "raw_image")
     \/ Misses
     \/ Stops

\* to_rgba8(): four bytes a pixel, in an allocation.
Rgba(w, h) ==
  LET l == [width |-> w, height |-> h]
  IN  IF ImageSize(l) >= USIZE THEN Misses
      ELSE IF Refused(ImageSize(l)) THEN Stops
      ELSE Announces(l, ImageSize(l))

\* preview_image, full_image, thumbnail_image: one that fails or is absent is
\* passed over for the next.
Embedded ==
  /\ pc = "embedded"
  /\ \/ \E p \in Pictures : Rgba(p[1], p[2])
     \/ /\ tried < 2
        /\ tried' = tried + 1
        /\ UNCHANGED <<request, pc, decoder, layout, pixels, buffer, matrix>>
     \/ Misses
     \/ Stops

\* Mutant: the samples are not counted.
MatchesAnyway(l, bytes) == TRUE

\* "sample count does not match the image size".
Matches(l, bytes) == SensorBytes(l) = bytes

\* raw_image(): its sizes are cast to the layout's.
DecodeRaw ==
  /\ pc = "raw_image"
  /\ \/ \E image \in RawImages :
          LET l == [width |-> image.width % U32, height |-> image.height % U32,
                    components |-> image.cpp % U8, sample |-> image.sample]
          IN  IF Matches(l, image.bytes) THEN Announces(l, image.bytes) ELSE Misses
     \/ Misses
     \/ Stops

-----------------------------------------------------------------------------
(* The system's decoders                                                   *)

\* SystemFile, already open or opened now.
OpenSystem ==
  /\ pc = "system"
  /\ \/ Calls(IF request = "Preview" THEN "thumbnail" ELSE "develop")
     \/ Misses
     \/ Stops

\* render(): whole pixels of the extent, `bytes` each.
Render(extent, bytes, l) ==
  LET w == extent[1] \div UNIT
      h == extent[2] \div UNIT
  IN  IF NotFinite \in {extent[1], extent[2]} \/ w = 0 \/ h = 0
      THEN Misses
      ELSE Announces([l EXCEPT !.width = w % U32, !.height = h % U32],
                     (w * h * bytes) % USIZE)

\* A thumbnail is asked for that is no longer than THUMBNAIL_MAX_SIDE.
Thumbnail ==
  /\ pc = "thumbnail"
  /\ \/ \E extent \in Extents :
          /\ \A i \in 1 .. 2 : extent[i] <= THUMBNAIL_MAX_SIDE * UNIT
          /\ Render(extent, 4, [width |-> 0, height |-> 0])
     \/ Misses
     \/ Stops

Root(n) == CHOOSE r \in 0 .. n : r * r <= n /\ n < (r + 1) * (r + 1)

\* Mutant: an image is developed at its own size.
FullSize(extent) == extent

\* The extent after the reduction: both sides by the same factor, to an area of
\* MAX_DEVELOPED_PIXELS; one that is not finite stays so.
Reduced(extent) ==
  LET max == MAX_DEVELOPED_PIXELS * UNIT * UNIT
  IN  IF NotFinite \in {extent[1], extent[2]} \/ extent[1] * extent[2] <= max
      THEN extent
      ELSE <<Root((max * extent[1]) \div extent[2]),
             Root((max * extent[2]) \div extent[1])>>

Develop ==
  /\ pc = "develop"
  /\ \/ \E extent \in Extents :
          Render(Reduced(extent), 8,
                 [width |-> 0, height |-> 0, components |-> 4, sample |-> "F16"])
     \/ Misses
     \/ Stops

-----------------------------------------------------------------------------
(* The buffer                                                              *)

\* SharedBuffer::create(): of no length, or where a call fails, an error.
Create ==
  /\ pc = "create"
  /\ \/ /\ pixels # 0
        /\ buffer' = pixels
        /\ pc' = "fill"
        /\ UNCHANGED <<request, decoder, tried, layout, pixels, matrix>>
     \/ Misses

\* The gains analog_balance() finds, None when there are not three or when one
\* is no gain.
Balance(gains) ==
  IF Len(gains) < 3 \/ \E i \in 1 .. 3 : gains[i] = NotFinite \/ gains[i] = 0
  THEN None
  ELSE SubSeq(gains, 1, 3)

\* apply_analog_balance(): the rows, as many as there are gains, times theirs.
Balanced(rows, gains) ==
  [i \in DOMAIN rows |->
     IF gains # None /\ i \in DOMAIN gains THEN rows[i] * gains[i] ELSE rows[i]]

\* The pixels are copied, which panics unless there are as many bytes on both
\* sides, or rendered; then, with rawler, the samples are described.
Fill ==
  /\ pc = "fill"
  /\ \/ /\ pixels = buffer
        /\ pc' = "answered"
        /\ IF request = "Sensor" /\ decoder = "rawler"
           THEN \E rows \in Rows, gains \in Gains :
                  matrix' = [file |-> rows, gains |-> gains,
                             sent |-> Balanced(rows, Balance(gains))]
           ELSE UNCHANGED matrix
        /\ UNCHANGED <<request, decoder, tried, layout, pixels, buffer>>
     \/ Misses
     \/ Stops

Done == pc \in {"answered", "failed", "stopped"} /\ UNCHANGED vars

Next ==
  \/ Identify \/ Embedded \/ DecodeRaw
  \/ OpenSystem \/ Thumbnail \/ Develop
  \/ Create \/ Fill \/ Done

Spec == Init /\ [][Next]_vars
-----------------------------------------------------------------------------
(* Properties                                                              *)

\* What the application computes from the layout of an answer, with bytes() in its
\* own usize, is the number of bytes that were decoded, and the object they are in
\* holds them: casts to the layout's widths, products that wrap and the extents
\* of Core Image never part the announcement from the buffer, whichever decoder
\* answers.  map_received() is given that number.
AnnouncedIsDecoded ==
  pc = "answered" =>
    LET size == IF request = "Preview" THEN ImageBytes(layout) ELSE SensorBytes(layout)
    IN  size = pixels /\ size <= WholePages(buffer)

\* Shared memory does not come from the capped allocator, and yet no buffer is
\* larger than an allocation may be: it is a copy of one, or the area it is
\* developed in was reduced.
BuffersWithinCap == buffer <= MAX_ALLOCATION

\* decode.rs, apply_analog_balance(): "each row (a camera channel) times its
\* analog gain".
RowsBalanced ==
  (matrix # None /\ Balance(matrix.gains) # None /\ Len(matrix.gains) = Len(matrix.file)) =>
    \A i \in DOMAIN matrix.file : matrix.sent[i] = matrix.file[i] * matrix.gains[i]
=============================================================================
