----------------------------- MODULE MCDecoding -----------------------------
(***************************************************************************)
(* Small instances of Decoding for TLC: sizes at the limits of each width, *)
(* sample counts that agree with them or not.                              *)
(***************************************************************************)
EXTENDS Decoding

MCPictures == {0, 1, 3, 5, U32 - 1} \X {0, 1, 3, U32 - 1}

Near(n) == {n, n + 2} \cup (IF n >= 2 THEN {n - 2} ELSE {})

\* 57 x 36 samples of two bytes are one byte count in usize, 8, with four samples.
Wrapping == [width |-> 57, height |-> 36, cpp |-> 1, sample |-> "U16", bytes |-> 8]

MCRawImages ==
  {r \in UNION {[width : {w}, height : {h}, cpp : {c}, sample : {s},
                 bytes : Near(w * h * c * SampleBytes[s])
                           \cup Near((w % U32) * h * (c % U8) * SampleBytes[s])] :
                  w \in {0, 1, 3, U32, U32 + 1}, h \in {0, 1, 2},
                  c \in {0, 1, 3, U8, U8 + 1}, s \in {"U16", "F32"}} :
     r.bytes <= MAX_ALLOCATION}
  \cup {Wrapping}

MCExtents ==
  LET lengths == {0, UNIT - 1, UNIT, 2 * UNIT, 3 * UNIT + 1, 40 * UNIT,
                  U32 * UNIT + 1, NotFinite}
  IN  lengths \X lengths

MCRows == {<<>>, <<5, 7, 11>>, <<5, 7, 11, 13>>}
MCGains == {<<>>, <<2, 3>>, <<2, 3, 4>>, <<2, 0, 4>>, <<2, NotFinite, 4>>, <<2, 3, 4, 5>>}
=============================================================================
