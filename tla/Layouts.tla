------------------------------ MODULE Layouts ------------------------------
(***************************************************************************)
(* The sizes both sides compute from what a reply announces, in the width  *)
(* of their integers: ImageLayout and SensorLayout of protocol/src/lib.rs, *)
(* whole_pages() of protocol/src/shm.rs.                                   *)
(***************************************************************************)
EXTENDS Naturals

CONSTANTS
  U8, U32, USIZE, \* how many values the integers of these widths have
  PAGE

ASSUME LayoutsAssumption ==
  /\ {U8, U32, USIZE, PAGE} \subseteq Nat \ {0}
  /\ PAGE < USIZE

SampleBytes == [U16 |-> 2, F16 |-> 2, F32 |-> 4]

ImageLayout == [width : 0 .. U32 - 1, height : 0 .. U32 - 1]
SensorLayout ==
  [width : 0 .. U32 - 1, height : 0 .. U32 - 1, components : 0 .. U8 - 1,
   sample : DOMAIN SampleBytes]

\* What the samples of a layout take, in unbounded integers.
ImageSize(l) == l.width * l.height * 4
SensorSize(l) == l.width * l.height * l.components * SampleBytes[l.sample]

\* ImageLayout::bytes() and SensorLayout::bytes(), which wrap in a release build.
ImageBytes(l) == ImageSize(l) % USIZE
SensorBytes(l) == SensorSize(l) % USIZE

\* whole_pages().
WholePages(n) == (((n + PAGE - 1) \div PAGE) * PAGE) % USIZE
=============================================================================
